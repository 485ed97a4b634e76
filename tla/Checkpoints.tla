---------------------------- MODULE Checkpoints ----------------------------
(***************************************************************************)
(* ProjectCheckpointService: a checkpoint lists the work of a project and  *)
(* the records it rests on, is proposed by anyone and confirmed by the     *)
(* user.  Confirming writes down the revision of every basis record; the   *)
(* freshness of a confirmed checkpoint is derived from these whenever it   *)
(* is read.  Both walk over the records one query at a time, with no       *)
(* transaction around the walk.                                            *)
(***************************************************************************)
EXTENDS Projects

CONSTANTS
    Cps,            \* checkpoint identifiers, taken in order
    Layouts         \* what proposals list: roles of items, further basis

Confirmations == {"proposed", "confirmed", "superseded"}
RoleStatus == [active |-> "in_progress", next |-> "ready", blocked |-> "blocked",
               milestone |-> "completed"]

(* What a checkpoint can rest on, each with the table it is in. *)
Refs == ({"project"} \X Projs) \union ({"item"} \X Items) \union ({"decision"} \X Decisions)
Partial(S, T) == UNION {[D -> T] : D \in SUBSET S}

CpRow == [project : Projs, roles : Partial(Items, DOMAIN RoleStatus), extra : SUBSET Decisions,
          state : Confirmations, basis : Partial(Refs, Nat), active : BOOLEAN, secret : BOOLEAN,
          dated : BOOLEAN, rev : Nat]

ASSUME CheckpointsAssumption ==
    /\ Cps \subseteq Nat
    /\ Layouts \subseteq [roles : Partial(Items, DOMAIN RoleStatus), extra : SUBSET Decisions]
    /\ None \notin CpRow

VARIABLES
    cp,         \* [Cps -> row or None]
    moment,     \* history: the basis revisions when a confirmation committed
    stale,      \* history: checkpoints some finished reading called stale
    reading     \* [Clients -> the walk a client is in, or None]

cpVars == <<cp, moment, stale, reading>>
-----------------------------------------------------------------------------
(* The basis: the project, the listed items and the further records. *)
Basis(row) ==
    {<<"project", row.project>>} \union {<<"item", i>> : i \in DOMAIN row.roles}
        \union {<<"decision", d>> : d \in row.extra}

Stored(r) ==
    CASE r[1] = "project" -> project[r[2]]
      [] r[1] = "item" -> item[r[2]]
      [] r[1] = "decision" -> decision[r[2]]

RevisionOf(r) == Stored(r).rev
Revisions(set) == [r \in set |-> RevisionOf(r)]

(* _validate_project_link, _validate_work_item_lists, _active_work_item,   *)
(* _validate_generic_basis_links, for one record.                          *)
LinkLive(row, r) ==
    /\ Stored(r).active
    /\ r[1] = "project" => ProjectReadable(r[2])
    /\ r[1] = "decision" => ~decision[r[2]].secret
    /\ r[1] = "item" =>
          LET role == row.roles[r[2]]
          IN  /\ item[r[2]].status = RoleStatus[role]
              /\ role = "milestone" => r[2] \in Milestones

(* Links are followed in this order. *)
LinkRank(r) == CASE r[1] = "project" -> 0 [] r[1] = "item" -> 1 [] OTHER -> 2
NextLinks(set) == {r \in set : \A s \in set : LinkRank(r) <= LinkRank(s)}
-----------------------------------------------------------------------------
(* propose: the links are checked before the insert; a link that dies      *)
(* between the two is one that dies after it.                              *)
Propose(k, w, layout, secret) ==
    LET row == [project |-> w, roles |-> layout.roles, extra |-> layout.extra,
                state |-> "proposed", basis |-> <<>>, active |-> TRUE, secret |-> secret,
                dated |-> TRUE, rev |-> 1]
    IN  /\ Room
        /\ \A d \in layout.extra : decision[d] # None
        /\ \A r \in Basis(row) : LinkLive(row, r)
        /\ cp' = [cp EXCEPT ![k] = row]
        /\ commits' = commits + 1
        /\ UNCHANGED <<project, decision, item, experience, outside, pending, moment, stale, reading>>

Start(c, k, op, phase) ==
    /\ pending[c] = None /\ reading[c] = None
    /\ reading' = [reading EXCEPT ![c] =
          [op |-> op, id |-> k, row |-> cp[k], phase |-> phase, todo |-> Basis(cp[k]),
           got |-> <<>>, after |-> k \in stale, began |-> Revisions(Basis(cp[k])), moved |-> FALSE]]
    /\ UNCHANGED <<projectVars, cp, moment, stale>>

(* confirm, up to _validate_live_links *)
BeginConfirm(c, k) ==
    /\ cp[k].state = "proposed" /\ cp[k].active
    /\ Start(c, k, "confirm", "links")

(* get, list and export_json of a confirmed checkpoint: _derive_freshness. *)
(* A proposed one has no freshness, a superseded one is superseded.        *)
BeginFreshness(c, k) ==
    cp[k].state = "confirmed" /\ Start(c, k, "freshness", "revisions")

(* The walk ends without a result for the client. *)
Finish(c) == reading' = [reading EXCEPT ![c] = None] /\ UNCHANGED <<moment, stale>>

Answer(c, verdict) ==
    LET x == reading[c]
    IN  /\ reading' = [reading EXCEPT ![c] = [x EXCEPT !.phase = verdict, !.todo = {},
                                                       !.moved = Revisions(Basis(x.row)) # x.began]]
        /\ stale' = IF verdict = "stale" THEN stale \union {x.id} ELSE stale
        /\ UNCHANGED moment

(* One record of _validate_live_links. *)
ReadLink(c) ==
    LET x == reading[c]
    IN  /\ x # None /\ x.phase = "links"
        /\ \E r \in NextLinks(x.todo) :
              IF ~LinkLive(x.row, r) THEN IF x.op = "confirm" THEN Finish(c) ELSE Answer(c, "stale")
              ELSE IF x.todo # {r} THEN
                 /\ reading' = [reading EXCEPT ![c].todo = @ \ {r}]
                 /\ UNCHANGED <<moment, stale>>
              ELSE IF x.op = "freshness" THEN Answer(c, "current")
              ELSE /\ reading' = [reading EXCEPT ![c].phase = "capture", ![c].todo = Basis(x.row)]
                   /\ UNCHANGED <<moment, stale>>
        /\ UNCHANGED <<projectVars, cp>>

(* One record of _capture_basis_revisions, in the order of identifiers,    *)
(* which says nothing of what they are.                                    *)
Capture(c) ==
    LET x == reading[c]
    IN  /\ x # None /\ x.phase = "capture"
        /\ \E r \in x.todo :
              LET got == [q \in (DOMAIN x.got) \union {r} |-> IF q = r THEN RevisionOf(r) ELSE x.got[q]]
              IN  IF x.todo # {r}
                  THEN /\ reading' = [reading EXCEPT ![c].todo = @ \ {r}, ![c].got = got]
                       /\ UNCHANGED pending
                  ELSE /\ Room
                       /\ pending' = [pending EXCEPT ![c] =
                             [table |-> "checkpoint", id |-> x.id, rev |-> x.row.rev,
                              row |-> [x.row EXCEPT !.state = "confirmed", !.basis = got]]]
                       /\ reading' = [reading EXCEPT ![c] = None]
        /\ UNCHANGED <<project, decision, item, experience, outside, commits, cp, moment, stale>>

SameRevision(row, r) == RevisionOf(r) = row.basis[r]

(* One record of the first loop of _derive_freshness. *)
Compare(c) ==
    LET x == reading[c]
    IN  /\ x # None /\ x.phase = "revisions"
        /\ \E r \in x.todo :
              IF ~SameRevision(x.row, r) THEN Answer(c, "stale")
              ELSE /\ reading' = IF x.todo # {r} THEN [reading EXCEPT ![c].todo = @ \ {r}]
                                 ELSE [reading EXCEPT ![c].phase = "links", ![c].todo = Basis(x.row)]
                   /\ UNCHANGED <<moment, stale>>
        /\ UNCHANGED <<projectVars, cp>>

(* The answer is with the client, or the client dies in the walk. *)
Leave(c) ==
    /\ reading[c] # None
    /\ Finish(c)
    /\ UNCHANGED <<projectVars, cp>>

(* supersede, archive.  They derive the freshness too and ignore it. *)
ChangeCp(c, k, row) ==
    /\ reading[c] = None /\ cp[k].active
    /\ Prepare(c, "checkpoint", k, row, cp[k].rev)
    /\ UNCHANGED cpVars

SupersedeCp(c, k) ==
    cp[k].state = "confirmed" /\ ChangeCp(c, k, [cp[k] EXCEPT !.state = "superseded"])

ArchiveCp(c, k) == ChangeCp(c, k, [cp[k] EXCEPT !.active = FALSE])

(* Mutant: the transaction does not compare the revision. *)
CpActive(row, w) == row.active

(* The checks inside _update_checkpoint's transaction: the checkpoint's    *)
(* own revision, nothing of its basis.                                     *)
CpUnchanged(row, w) == row.rev = w.rev /\ row.active

CommitCp(c) ==
    LET w == pending[c]
    IN  /\ w # None /\ w.table = "checkpoint"
        /\ CpUnchanged(cp[w.id], w)
        /\ \E dated \in BOOLEAN :
              cp' = [cp EXCEPT ![w.id] = [w.row EXCEPT !.rev = w.rev + 1, !.dated = dated]]
        /\ moment' = IF cp[w.id].state = "proposed" /\ w.row.state = "confirmed"
                     THEN [moment EXCEPT ![w.id] = Revisions(Basis(w.row))] ELSE moment
        /\ pending' = [pending EXCEPT ![c] = None]
        /\ commits' = commits + 1
        /\ UNCHANGED <<project, decision, item, experience, outside, stale, reading>>
-----------------------------------------------------------------------------
CpInit ==
    /\ cp = [k \in Cps |-> None]
    /\ moment = [k \in Cps |-> None]
    /\ stale = {}
    /\ reading = [c \in Clients |-> None]

CpNext(projs, secrecy) ==
    \/ \E k \in Unused(cp), w \in projs, l \in Layouts, secret \in secrecy : Propose(k, w, l, secret)
    \/ \E c \in Clients :
          \/ \E k \in Existing(cp) : \/ BeginConfirm(c, k) \/ BeginFreshness(c, k)
                                     \/ SupersedeCp(c, k) \/ ArchiveCp(c, k)
          \/ ReadLink(c) \/ Capture(c) \/ Compare(c) \/ Leave(c) \/ CommitCp(c)
          \/ Abandon(c) /\ UNCHANGED cpVars

(* Checkpoints beside the writers of projects, decisions, items and        *)
(* experience.                                                             *)
CheckpointsNext ==
    \/ CpNext(Projs, BOOLEAN)
    \/ ProjectsNext /\ UNCHANGED cpVars

CheckpointsInit == ProjectsInit /\ CpInit
CheckpointsSpec == CheckpointsInit /\ [][CheckpointsNext]_<<projectVars, cpVars>>
-----------------------------------------------------------------------------
(* The records of a state package, with what they rest on. *)
CheckpointRecord(k) ==
    LET row == cp[k]
    IN  Record(<<"checkpoint", k>>, "project_checkpoint", row, {},
               [project |-> <<"project", row.project>>, state |-> row.state,
                basis |-> Basis(row), revisions |-> row.basis,
                work |-> {[id |-> <<"item", i>>, status |-> RoleStatus[row.roles[i]],
                           milestone |-> row.roles[i] = "milestone"] : i \in DOMAIN row.roles}])

Records == ProjectPackage \union {CheckpointRecord(k) : k \in Existing(cp)}
storedVars == <<project, decision, item, experience, outside, cp>>

(* The public records that make an export fail. *)
Backdated ==
    \/ \E w \in Projs : ~project[w].secret /\ ~project[w].dated
    \/ \E d \in Existing(decision) : ~decision[d].secret /\ ~decision[d].dated
    \/ \E i \in Items : ~item[i].secret /\ ~item[i].dated
    \/ \E x \in Outside : ~outside[x].secret /\ ~outside[x].dated

NamesSecret ==
    LET Hidden(decisions, linked) == \/ \E d \in decisions \ {None} : decision[d].secret
                                     \/ \E x \in linked : outside[x].secret
    IN  \/ \E w \in Projs : ~project[w].secret /\ Hidden(project[w].decisions, project[w].linked)
        \/ \E d \in Existing(decision) :
              /\ ~decision[d].secret
              /\ \/ decision[d].project # None /\ project[decision[d].project].secret
                 \/ Hidden({decision[d].supersedes}, decision[d].linked)
        \/ \E i \in Items :
              /\ ~item[i].secret
              /\ \/ project[Home].secret \/ Hidden(item[i].decisions, {})
                 \/ \E j \in DependsOn[i] \union Blockers(i, item[i]) : item[j].secret

ItemCutOff ==
    \E i \in Items :
       /\ ~item[i].secret
       /\ \/ ~project[Home].active
          \/ \E x \in item[i].linked : ~outside[x].active
          \/ \E j \in DependsOn[i] \union Blockers(i, item[i]) : ~item[j].active
          \/ \E j \in Blockers(i, item[i]) : Ended(item[j].status)

Hopeless(k) ==
    /\ cp[k].state = "proposed" /\ ~cp[k].active /\ ~cp[k].secret
    /\ \E r \in Basis(cp[k]) : ~Stored(r).active \/ Stored(r).secret
Blocks(k) == ~CheckpointOk(Exported(Records), CheckpointRecord(k))

CpTypeOK ==
    /\ \A k \in Existing(cp) : cp[k].state \in Confirmations
                               /\ DOMAIN cp[k].basis \in {{}, Basis(cp[k])}
    /\ stale \subseteq Existing(cp)

(* What "current" means, although neither the confirmation nor the reading *)
(* sees the records at one moment.  There was a moment, that of the        *)
(* confirmation's commit, at which every basis record had the confirmed    *)
(* revision: a confirmation torn by a concurrent change is always found    *)
(* out.  And a checkpoint once called stale is called current again only   *)
(* by a reading during which its basis changed.                            *)
FreshnessSound ==
    /\ CpTypeOK
    /\ \A c \in Clients : reading[c] # None /\ reading[c].phase = "current" =>
          /\ reading[c].row.basis = moment[reading[c].id]
          /\ reading[c].after => reading[c].moved

(* A confirmed basis is never rewritten: a checkpoint goes from proposed   *)
(* to confirmed to superseded, its basis is set once, by the first, and an *)
(* archived one does not change, although two users may confirm, supersede *)
(* and archive what they read earlier (_update_checkpoint).                *)
ConfirmedFrozen ==
    \A k \in Existing(cp) : cp'[k] # cp[k] =>
        /\ cp[k].active
        /\ cp'[k].roles = cp[k].roles /\ cp'[k].extra = cp[k].extra
        /\ cp[k].state # "proposed" => cp'[k].basis = cp[k].basis
        /\ \/ cp'[k].state = cp[k].state
           \/ cp[k].state = "proposed" /\ cp'[k].state = "confirmed"
           \/ cp[k].state = "confirmed" /\ cp'[k].state = "superseded"

(* Checkpoints that are confirmed, superseded and archived while others    *)
(* change their basis: a confirmed basis was true at one moment, is never  *)
(* rewritten, and is called current only while it is.                      *)
CheckpointsSound == []FreshnessSound /\ [][ConfirmedFrozen]_cp

=============================================================================
