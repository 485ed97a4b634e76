-------------------------- MODULE ContinuityProofs --------------------------
(***************************************************************************)
(* Projects, checkpoints, exports and the check before an action, for any  *)
(* number of clients, exporters and records.  All of them read records one *)
(* at a time beside writers who check outside their transactions, so each  *)
(* invariant says what a half-finished walk still knows: revisions only    *)
(* grow, a record with the same revision is the same record, and what made *)
(* a link dead once keeps it dead until its record changes.                *)
(***************************************************************************)
EXTENDS ShutdownEscape, ContinuityPreflight, FiniteSetTheorems, TLAPS

(* The tables of the writers.                                              *)
tables == <<project, decision, item, experience, outside>>

TablesOK ==
    /\ project \in [Projs -> ProjectRow]
    /\ decision \in [Decisions -> DecisionRow \union {None}]
    /\ item \in [Items -> ItemRow]
    /\ experience \in [Experiences -> ExperienceRow \union {None}]
    /\ outside \in [Outside -> OutsideRow]
    /\ DOMAIN pending = Clients
    /\ commits \in Nat

(* A decision is never removed, so a link that was found stays good. *)
Found(ds) == \A d \in ds : decision[d] # None
LinkFound(row) == row.supersedes # None => decision[row.supersedes] # None

DecisionOK(d, row) == row \in DecisionRow /\ row.supersedes # d /\ LinkFound(row)
ProjectOK(row) == row \in ProjectRow /\ Found(row.decisions)
ItemOK(row) == row \in ItemRow /\ Found(row.decisions) /\ \A x \in row.linked : ~outside[x].secret

LinksOK ==
    /\ \A d \in Decisions : decision[d] # None => DecisionOK(d, decision[d])
    /\ \A w \in Projs : ProjectOK(project[w])
    /\ \A i \in Items : ItemOK(item[i])

(* What is about to be committed links as well as what is stored, and is   *)
(* as secret.  Its client has read the record, so that it is refused when  *)
(* the record has become unreadable by a later date.                       *)
Overtakes(w, row) ==
    /\ w.rev \in Nat /\ w.rev <= row.rev
    /\ w.rev = row.rev => row.dated
    /\ w.row.secret = row.secret

WriteOK(w) ==
    /\ w.table = "project" => w.id \in Projs /\ ProjectOK(w.row) /\ Overtakes(w, project[w.id])
    /\ w.table = "decision" => /\ w.id \in Decisions /\ decision[w.id] # None
                               /\ DecisionOK(w.id, w.row) /\ Overtakes(w, decision[w.id])

(* Experiences are appended in order, correct earlier ones, and name       *)
(* nothing that is secret.                                                 *)
ExperienceOK(x) ==
    experience[x] # None =>
       LET e == experience[x]
           prior == e.supersedes
       IN  /\ \A y \in Experiences : y < x => experience[y] # None
           /\ prior # None => /\ prior < x /\ experience[prior] # None
                              /\ experience[prior].project = e.project
           /\ ~project[e.project].secret
           /\ e.item # None => e.project = Home /\ ~item[e.item].secret
           /\ \A d \in e.related : decision[d] # None /\ ~decision[d].secret

InFlight == {d \in Clients : pending[d] # None}
Bounded == commits + Cardinality(InFlight) <= MaxCommits

RInv ==
    /\ TablesOK
    /\ LinksOK
    /\ \A c \in Clients : pending[c] # None => WriteOK(pending[c])
    /\ \A x \in Experiences : ExperienceOK(x)
    /\ Bounded

(* Revisions only grow, nothing becomes secret or public, and what a date  *)
(* or an archived policy has made unreadable stays so.                     *)
Grown(old, new) == new = old \/ (old.rev < new.rev /\ new.secret = old.secret)

RevisionsGrow ==
    /\ \A w \in Projs : Grown(project[w], project'[w]) /\ (project'[w].dated => project[w].dated)
    /\ \A d \in Decisions : decision[d] # None =>
          /\ decision'[d] # None /\ Grown(decision[d], decision'[d])
          /\ decision'[d].dated => decision[d].dated
    /\ \A i \in Items : Grown(item[i], item'[i])
    /\ \A x \in Outside : /\ outside'[x].secret = outside[x].secret
                          /\ outside'[x].active => outside[x].active
                          /\ Usable(x)' => Usable(x)

Grows ==
    /\ RevisionsGrow
    /\ \/ commits' = commits /\ UNCHANGED tables
       \/ commits' = commits + 1
-----------------------------------------------------------------------------
(* Checkpoints.  A row that was confirmed has a basis no revision of which *)
(* is ahead of its record.                                                 *)
RowOK(row) ==
    /\ row \in CpRow
    /\ \A d \in row.extra : decision[d] # None
    /\ IF row.state = "proposed" THEN DOMAIN row.basis = {}
       ELSE /\ DOMAIN row.basis = Basis(row)
            /\ \A r \in Basis(row) : row.basis[r] <= RevisionOf(r)

(* The moment of the confirmation lies between its basis and now. *)
ConfirmedAt(k, row) ==
    /\ moment[k] \in [Basis(row) -> Nat]
    /\ \A r \in Basis(row) : row.basis[r] <= moment[k][r] /\ moment[k][r] <= RevisionOf(r)

(* Why a checkpoint was called stale, and still is. *)
Lost(row) == \E r \in Basis(row) : RevisionOf(r) # row.basis[r] \/ ~LinkLive(row, r)

CpOK(k) ==
    /\ cp[k] # None => /\ RowOK(cp[k])
                       /\ cp[k].state # "proposed" => ConfirmedAt(k, cp[k])
    /\ k \in stale => cp[k] # None /\ cp[k].state # "proposed" /\ Lost(cp[k])

SameWork(row, new) == new.project = row.project /\ new.roles = row.roles /\ new.extra = row.extra

CpChange(row, new) ==
    /\ row.active /\ SameWork(row, new)
    /\ \/ new.state = row.state /\ new.basis = row.basis
       \/ row.state = "proposed" /\ new.state = "confirmed"
       \/ row.state = "confirmed" /\ new.state = "superseded" /\ new.basis = row.basis

CpWrite(w) ==
    w.table = "checkpoint" =>
       /\ w.id \in Cps /\ cp[w.id] # None
       /\ w.rev \in Nat /\ w.rev <= cp[w.id].rev
       /\ RowOK(w.row)
       /\ w.rev = cp[w.id].rev => CpChange(cp[w.id], w.row)

Walk == [op : {"confirm", "freshness"}, id : Cps, row : CpRow,
         phase : {"links", "capture", "revisions", "current", "stale"}, todo : SUBSET Refs,
         got : Partial(Refs, Nat), after : BOOLEAN, began : Partial(Refs, Nat), moved : BOOLEAN]

(* A reading of a checkpoint that was stale meets the reason: a record     *)
(* that changed since the reading began, or one it has still to look at    *)
(* and will find changed or dead.                                          *)
Witnessed(x) ==
    \E r \in Basis(x.row) :
       \/ RevisionOf(r) > x.began[r]
       \/ x.began[r] > x.row.basis[r] /\ x.phase = "revisions" /\ r \in x.todo
       \/ ~LinkLive(x.row, r) /\ (x.phase = "links" => r \in x.todo)

Confirming(x) ==
    /\ x.phase \in {"links", "capture"}
    /\ x.row.state = "proposed" /\ x.row.active
    /\ DOMAIN x.got = IF x.phase = "capture" THEN Basis(x.row) \ x.todo ELSE {}
    /\ \A r \in DOMAIN x.got : x.got[r] <= RevisionOf(r)

Freshening(x) ==
    /\ x.phase # "capture" /\ x.row.state = "confirmed"
    /\ cp[x.id].state # "proposed" /\ SameWork(x.row, cp[x.id]) /\ cp[x.id].basis = x.row.basis
    /\ ConfirmedAt(x.id, x.row)
    /\ x.phase = "revisions" =>
          \A r \in Basis(x.row) \ x.todo : x.row.basis[r] = moment[x.id][r]
    /\ x.phase \in {"links", "current"} => x.row.basis = moment[x.id]
    /\ x.phase \in {"revisions", "links"} =>
          /\ x.began \in [Basis(x.row) -> Nat]
          /\ \A r \in Basis(x.row) : x.row.basis[r] <= x.began[r] /\ x.began[r] <= RevisionOf(r)
          /\ x.after => Witnessed(x)
    /\ x.phase = "current" /\ x.after => x.moved

WalkOK(x) ==
    /\ x \in Walk
    /\ cp[x.id] # None /\ RowOK(x.row)
    /\ x.row.rev <= cp[x.id].rev
    /\ x.row.rev = cp[x.id].rev => x.row = cp[x.id]
    /\ x.todo \subseteq Basis(x.row)
    /\ IF x.op = "confirm" THEN Confirming(x) ELSE Freshening(x)

CpInv ==
    /\ RInv
    /\ cp \in [Cps -> CpRow \union {None}] /\ DOMAIN moment = Cps
    /\ stale \subseteq Cps /\ DOMAIN reading = Clients
    /\ \A k \in Cps : CpOK(k)
    /\ \A c \in Clients : pending[c] # None => CpWrite(pending[c])
    /\ \A c \in Clients : reading[c] # None => WalkOK(reading[c])
-----------------------------------------------------------------------------
(* Exports, by kind. *)
Listing == [section : ItemStatuses \union {"project"}, rev : Nat]
BundleRow ==
    [kind : {"bundle"}, path : Paths, project : Projs,
     phase : {"status", "members", "manifest", "verified"}, todo : SUBSET Everything,
     listed : Partial(Everything, Listing), got : Partial(Everything, Nat),
     low : [Everything -> Nat], high : [Everything -> Nat] \union {None}]
PackageRow ==
    [kind : {"package"}, path : Paths, project : {None}, phase : {"verified", "published"},
     todo : {{}}, listed : {<<>>}, got : {<<>>}, low : {<<>>}, high : {<<>>}]
Moment == [project : [Projs -> ProjectRow], talk : SUBSET Sayings]
EscapePhase == {"package", "conversations", "events", "projects", "resume", "written", "replaced"}
EscapeRow ==
    [kind : {"escape"}, path : Paths, phase : EscapePhase, revision : Nat,
     package : Moment \union {None}, said : SUBSET Sayings, todo : SUBSET Projs,
     got : Partial(Projs, Nat), began : Moment]

BundleOK(x) ==
    /\ x \in BundleRow
    /\ \A r \in Everything : x.low[r] <= RevisionOf(r)
    /\ \A r \in DOMAIN x.listed : x.low[r] <= x.listed[r].rev /\ x.listed[r].rev <= RevisionOf(r)
    /\ x.phase = "status" => DOMAIN x.got = {}
    /\ x.phase = "members" => /\ x.todo \subseteq DOMAIN x.listed
                              /\ DOMAIN x.got = DOMAIN x.listed \ x.todo
    /\ \A r \in DOMAIN x.got : x.listed[r].rev <= x.got[r] /\ x.got[r] <= RevisionOf(r)
    /\ x.phase \in {"manifest", "verified"} =>
          /\ DOMAIN x.got = DOMAIN x.listed
          /\ x.high \in [Everything -> Nat]
          /\ \A r \in DOMAIN x.got : x.got[r] <= x.high[r]

(* What an escape has read is of the moment it began, as long as the       *)
(* revision is that moment's; its package is in any case.                  *)
Talked(x) ==
    /\ x.phase = "events" => x.said = Conversations(x.began.talk)
    /\ x.phase \in {"projects", "resume", "written", "replaced"} => x.said = x.began.talk

EscapeOK(x) ==
    /\ x \in EscapeRow
    /\ x.revision <= commits
    /\ x.phase # "package" => /\ x.package = x.began
                              /\ (x.began.talk = {} \/ Buildable(x.began.talk))
    /\ x.phase \in {"package", "conversations", "events", "projects"} => DOMAIN x.got = {}
    /\ commits = x.revision =>
          /\ project = x.began.project /\ talk = x.began.talk
          /\ Talked(x)
          /\ x.phase = "resume" => DOMAIN x.got = Shared(x.began.project) \ x.todo
          /\ x.phase \in {"written", "replaced"} => DOMAIN x.got = Shared(x.began.project)
          /\ \A w \in DOMAIN x.got :
                x.began.project[w].active /\ x.got[w] = x.began.project[w].rev

ExportOK(x) ==
    \/ x.kind = "bundle" /\ BundleOK(x)
    \/ x.kind = "package" /\ x \in PackageRow
    \/ x.kind = "escape" /\ EscapeOK(x)

BundleSound(b) ==
    /\ DOMAIN b.got = DOMAIN b.listed
    /\ \A r \in DOMAIN b.got :
          /\ b.low[r] <= b.listed[r].rev /\ b.listed[r].rev <= b.got[r]
          /\ b.got[r] <= b.high[r]

EscapeSound(b) ==
    /\ b.package = b.began
    /\ b.said = b.began.talk
    /\ b.got = [w \in Shared(b.began.project) |-> b.began.project[w].rev]
    /\ \A w \in DOMAIN b.got : b.began.project[w].active
    /\ \A r \in b.began.talk : r.text = "plain"

FileOK(f) ==
    /\ f.bundle.kind = "bundle" => BundleSound(f.bundle)
    /\ f.bundle.kind = "escape" /\ f.finished => EscapeSound(f.bundle)

(* Whoever works on a finished output already did when it was finished. *)
RivalsKnown(p) ==
    file[p] # None /\ file[p].finished =>
       \A d \in Exporters : exporting[d] # None /\ exporting[d].path = p => d \in file[p].rivals

EInv ==
    /\ RInv
    /\ talk \subseteq Sayings
    /\ DOMAIN exporting = Exporters /\ DOMAIN file = Paths
    /\ \A e \in Exporters : exporting[e] # None => ExportOK(exporting[e])
    /\ \A p \in Paths : file[p] # None => FileOK(file[p])
    /\ \A p \in Paths : RivalsKnown(p)

(* The five files of a generic export: a name below a prefix has one       *)
(* owner, and a publisher owns what it has done.                           *)
Owns(u, n) == <<publishing[u].prefix, n, u>> \in managed
DoneBy(u) == {publishing[u].done[i] : i \in DOMAIN publishing[u].done}

PublisherOK(u) ==
    LET s == publishing[u]
    IN  /\ \A f \in managed : f[3] = u => f[1] = s.prefix
        /\ Len(s.done) <= Len(FileOrder)
        /\ \A i \in DOMAIN s.done : s.done[i] = FileOrder[i]
        /\ s.pc = "idle" => s.done = <<>> /\ \A n \in Names : ~Owns(u, n)
        /\ s.pc = "files" => \A n \in Names : Owns(u, n) <=> n \in DoneBy(u)
        /\ s.pc = "cleanup" => \A n \in Names : /\ n \in DoneBy(u) => Owns(u, n)
                                                /\ Owns(u, n) /\ u \notin spoiled => n \in DoneBy(u)
        /\ s.pc = "done" => \A n \in Names : Owns(u, n)
        /\ s.pc = "failed" /\ u \notin spoiled => \A n \in Names : ~Owns(u, n)

PublishingRow == [prefix : Prefixes \union {"none"}, done : Seq(Names),
                  pc : {"idle", "files", "cleanup", "done", "failed"}]

GInv ==
    /\ managed \subseteq (Prefixes \union {"none"}) \X Names \X Publishers
    /\ publishing \in [Publishers -> PublishingRow]
    /\ \A f, g \in managed : f[1] = g[1] /\ f[2] = g[2] => f = g
    /\ \A u \in Publishers : PublisherOK(u)
-----------------------------------------------------------------------------
(* The bound on transactions: a client prepares only when there is room    *)
(* for its commit.                                                         *)
LEMMA InFlightFinite == IsFiniteSet(InFlight) /\ Cardinality(InFlight) \in Nat
<1>1. InFlight \subseteq Clients
  BY DEF InFlight
<1> QED BY <1>1, FS_Subset, FS_CardinalityType, ProjectsAssumption

LEMMA RoomToCommit ==
    ASSUME TablesOK, Room, pending' = pending, commits' = commits + 1
    PROVE  Bounded'
<1>1. InFlight' = InFlight
  BY DEF InFlight
<1> QED BY <1>1, InFlightFinite, ProjectsAssumption DEF Room, Bounded, InFlight, TablesOK

LEMMA RoomToPrepare ==
    ASSUME TablesOK, Room, NEW c \in Clients, NEW v, pending' = [pending EXCEPT ![c] = v],
           commits' = commits
    PROVE  Bounded'
<1>1. InFlight' \subseteq InFlight \union {c}
  BY DEF InFlight, TablesOK
<1>2. IsFiniteSet(InFlight \union {c}) /\ Cardinality(InFlight \union {c}) <= Cardinality(InFlight) + 1
  BY InFlightFinite, FS_AddElement
<1>3. Cardinality(InFlight') <= Cardinality(InFlight \union {c}) /\ IsFiniteSet(InFlight')
  BY <1>1, <1>2, FS_Subset
<1>4. Cardinality(InFlight') \in Nat /\ Cardinality(InFlight \union {c}) \in Nat
  BY <1>2, <1>3, FS_CardinalityType
<1>5. commits + Cardinality(InFlight) < MaxCommits
  BY DEF Room, InFlight
<1> QED BY <1>2, <1>3, <1>4, <1>5, InFlightFinite, ProjectsAssumption DEF Bounded, TablesOK

LEMMA BoundedSettle ==
    ASSUME TablesOK, Bounded, NEW c \in Clients, pending[c] # None,
           pending' = [pending EXCEPT ![c] = None], commits' \in {commits, commits + 1}
    PROVE  Bounded'
<1>1. InFlight' = InFlight \ {c} /\ c \in InFlight
  BY DEF InFlight, TablesOK
<1>2. Cardinality(InFlight') = Cardinality(InFlight) - 1
  BY <1>1, InFlightFinite, FS_RemoveElement
<1> QED BY <1>2, InFlightFinite, ProjectsAssumption DEF Bounded, TablesOK

(* What a step of the writers has to show: the new rows are sound, and     *)
(* revisions grow.                                                         *)
LEMMA WriterStep ==
    ASSUME RInv, TablesOK', Bounded', RevisionsGrow,
           \A d \in Decisions : decision'[d] = decision[d] \/ DecisionOK(d, decision'[d]),
           \A w \in Projs : project'[w] = project[w] \/ ProjectOK(project'[w]),
           \A i \in Items : item'[i] = item[i] \/ ItemOK(item'[i]),
           \A c \in Clients : \/ pending'[c] = pending[c] \/ pending'[c] = None
                              \/ WriteOK(pending'[c]),
           \A x \in Experiences : \/ experience'[x] = experience[x]
                                  \/ experience[x] = None /\ ExperienceOK(x)'
    PROVE  RInv'
<1>1. \A d \in Decisions : decision[d] # None => decision'[d] # None
  BY DEF RevisionsGrow
<1>2. ASSUME NEW ds \in SUBSET Decisions, Found(ds) PROVE Found(ds)'
  BY <1>1, <1>2 DEF Found
<1>3. ASSUME NEW d, NEW row, DecisionOK(d, row) PROVE DecisionOK(d, row)'
  BY <1>1, <1>3 DEF DecisionOK, LinkFound, DecisionRow, Optional
<1>4. ASSUME NEW row, ProjectOK(row) PROVE ProjectOK(row)'
  <2>1. row.decisions \in SUBSET Decisions
    BY <1>4 DEF ProjectOK, ProjectRow
  <2> QED BY <1>2, <1>4, <2>1 DEF ProjectOK
<1>5. ASSUME NEW row, ItemOK(row) PROVE ItemOK(row)'
  <2>1. row.decisions \in SUBSET Decisions /\ row.linked \subseteq Outside
    BY <1>5 DEF ItemOK, ItemRow, Outside
  <2> QED BY <1>2, <1>5, <2>1 DEF ItemOK, RevisionsGrow
<1>6. ASSUME NEW w, NEW old, NEW new, Overtakes(w, old), Grown(old, new),
             old.rev \in Nat, new.rev \in Nat, new.dated => old.dated
      PROVE  Overtakes(w, new)
  BY <1>6 DEF Overtakes, Grown
<1>7. ASSUME NEW w, WriteOK(w) PROVE WriteOK(w)'
  <2>1. CASE w.table = "project"
    <3>1. project[w.id].rev \in Nat /\ project'[w.id].rev \in Nat
      BY <1>7, <2>1 DEF WriteOK, TablesOK, RInv, ProjectRow
    <3>2. Overtakes(w, project'[w.id])
      BY <1>6, <1>7, <2>1, <3>1 DEF WriteOK, RevisionsGrow
    <3>3. Overtakes(w, project[w.id])'
      BY <3>2 DEF Overtakes
    <3> QED BY <1>4, <1>7, <2>1, <3>3 DEF WriteOK
  <2>2. CASE w.table = "decision"
    <3>1. decision[w.id].rev \in Nat /\ decision'[w.id].rev \in Nat
      BY <1>1, <1>7, <2>2 DEF WriteOK, TablesOK, RInv, DecisionRow
    <3>2. Overtakes(w, decision'[w.id])
      BY <1>6, <1>7, <2>2, <3>1 DEF WriteOK, RevisionsGrow
    <3>3. Overtakes(w, decision[w.id])'
      BY <3>2 DEF Overtakes
    <3> QED BY <1>1, <1>3, <1>7, <2>2, <3>3 DEF WriteOK
  <2> QED BY <2>1, <2>2 DEF WriteOK
<1>8. LinksOK'
  <2>1. ASSUME NEW d \in Decisions, decision'[d] # None PROVE DecisionOK(d, decision'[d])
    BY <2>1 DEF RInv, LinksOK
  <2>2. ASSUME NEW w \in Projs PROVE ProjectOK(project'[w])
    BY DEF RInv, LinksOK
  <2>3. ASSUME NEW i \in Items PROVE ItemOK(item'[i])
    BY DEF RInv, LinksOK
  <2>4. \A d \in Decisions : decision'[d] # None => DecisionOK(d, decision[d])'
    <3>1. SUFFICES ASSUME NEW d \in Decisions, NEW v, v = decision'[d], v # None
                   PROVE  DecisionOK(d, v)'
      OBVIOUS
    <3> QED BY <1>3, <2>1, <3>1
  <2>5. \A w \in Projs : ProjectOK(project[w])'
    <3>1. SUFFICES ASSUME NEW w \in Projs, NEW v, v = project'[w] PROVE ProjectOK(v)'
      OBVIOUS
    <3> QED BY <1>4, <2>2, <3>1
  <2>6. \A i \in Items : ItemOK(item[i])'
    <3>1. SUFFICES ASSUME NEW i \in Items, NEW v, v = item'[i] PROVE ItemOK(v)'
      OBVIOUS
    <3> QED BY <1>5, <2>3, <3>1
  <2> QED BY <2>4, <2>5, <2>6 DEF LinksOK
<1>9. ASSUME NEW c \in Clients, pending'[c] # None PROVE WriteOK(pending[c])'
  <2>1. PICK v : v = pending'[c]
    OBVIOUS
  <2>2. WriteOK(v)
    BY <1>9, <2>1 DEF RInv
  <2> QED BY <1>7, <2>1, <2>2
<1>10. ASSUME NEW x \in Experiences PROVE ExperienceOK(x)'
  <2>1. SUFFICES ASSUME experience'[x] = experience[x], experience[x] # None
                 PROVE  ExperienceOK(x)'
    BY DEF ExperienceOK
  <2> DEFINE e == experience[x]
  <2>2. ExperienceOK(x) /\ e \in ExperienceRow
    BY <2>1 DEF RInv, TablesOK
  <2>3. /\ e.project \in Projs /\ e.related \subseteq Decisions
        /\ e.item # None => e.item \in Items
        /\ e.supersedes # None => e.supersedes \in Experiences
    BY <2>2 DEF ExperienceRow, Optional
  <2>4. \A y \in Experiences : experience[y] # None =>
           experience'[y] # None /\ experience'[y].project = experience[y].project
    BY DEF RInv
  <2> QED BY <2>1, <2>2, <2>3, <2>4 DEF ExperienceOK, RevisionsGrow, Grown
<1> QED BY <1>8, <1>9, <1>10 DEF RInv

LEMMA InitR == ProjectsInit => RInv
<1> SUFFICES ASSUME ProjectsInit PROVE RInv
  OBVIOUS
<1>1. \A z \in BOOLEAN : NewProject(z) \in ProjectRow /\ NewProject(z).decisions = {}
  BY DEF NewProject, ProjectRow
<1>2. \A s \in ItemStatuses, z \in BOOLEAN :
         NewItem(s, z) \in ItemRow /\ NewItem(s, z).decisions = {} /\ NewItem(s, z).linked = {}
  BY DEF NewItem, ItemRow
<1>3. \A z \in BOOLEAN : NewOutside(z) \in OutsideRow
  BY DEF NewOutside, OutsideRow
<1>4. /\ \A w \in Projs : project[w] \in ProjectRow /\ project[w].decisions = {}
      /\ project \in [Projs -> ProjectRow]
  <2>1. project \in [Projs -> {NewProject(z) : z \in BOOLEAN}]
    BY DEF ProjectsInit
  <2>2. \A w \in Projs : project[w] \in ProjectRow /\ project[w].decisions = {}
    BY <1>1, <2>1
  <2> QED BY <2>1, <2>2
<1>5. /\ \A i \in Items : item[i] \in ItemRow /\ item[i].decisions = {} /\ item[i].linked = {}
      /\ item \in [Items -> ItemRow]
  <2>1. item \in [Items -> {NewItem(s, z) : s \in {"ready", "completed"}, z \in BOOLEAN}]
    BY DEF ProjectsInit
  <2>2. \A i \in Items : item[i] \in ItemRow /\ item[i].decisions = {} /\ item[i].linked = {}
    BY <1>2, <2>1, ProjectsAssumption
  <2> QED BY <2>1, <2>2
<1>6. outside \in [Outside -> OutsideRow]
  <2>1. outside \in [Outside -> {NewOutside(z) : z \in BOOLEAN}]
    BY DEF ProjectsInit
  <2>2. \A x \in Outside : outside[x] \in OutsideRow
    BY <1>3, <2>1
  <2> QED BY <2>1, <2>2
<1>7. TablesOK
  <2>1. /\ decision = [d \in Decisions |-> None] /\ experience = [x \in Experiences |-> None]
        /\ pending = [c \in Clients |-> None] /\ commits = 0
    BY DEF ProjectsInit
  <2> QED BY <1>4, <1>5, <1>6, <2>1 DEF TablesOK
<1>8. LinksOK /\ \A x \in Experiences : ExperienceOK(x)
  BY <1>4, <1>5 DEF ProjectsInit, LinksOK, ProjectOK, ItemOK, Found, ExperienceOK
<1>9. InFlight = {}
  BY DEF InFlight, ProjectsInit
<1>10. Bounded
  BY <1>9, FS_EmptySet, ProjectsAssumption DEF Bounded, ProjectsInit
<1> QED BY <1>7, <1>8, <1>10 DEF RInv, ProjectsInit

(* A step that leaves the tables alone. *)
LEMMA QuietStep ==
    ASSUME RInv, UNCHANGED tables, DOMAIN pending' = Clients, Bounded',
           commits' \in {commits, commits + 1},
           \A c \in Clients : \/ pending'[c] = pending[c] \/ pending'[c] = None
                              \/ WriteOK(pending'[c])
    PROVE  RInv' /\ Grows
<1>1. commits' \in Nat
  BY DEF RInv, TablesOK
<1>2. TablesOK'
  BY <1>1 DEF RInv, TablesOK, tables
<1>3. RevisionsGrow
  BY DEF RevisionsGrow, Grown, Usable, tables
<1>4. RInv'
  BY <1>2, <1>3, WriterStep DEF tables
<1> QED BY <1>3, <1>4 DEF Grows

(* Preparing a write that is sound. *)
LEMMA PrepareR ==
    ASSUME RInv, NEW c \in Clients, NEW table, NEW id, NEW row, NEW rev,
           Prepare(c, table, id, row, rev),
           WriteOK([table |-> table, id |-> id, row |-> row, rev |-> rev])
    PROVE  RInv' /\ Grows
<1> USE DEF Prepare
<1>1. UNCHANGED tables /\ commits' = commits /\ DOMAIN pending' = Clients
  BY DEF RInv, TablesOK, tables
<1>2. Bounded'
  BY RoomToPrepare DEF RInv
<1>3. \A d \in Clients : pending'[d] = pending[d] \/ WriteOK(pending'[d])
  BY DEF RInv, TablesOK
<1> QED BY <1>1, <1>2, <1>3, QuietStep

LEMMA ChangeProjectR ==
    ASSUME RInv, NEW c \in Clients, NEW w \in Projs, NEW row, ProjectOK(row),
           row.secret = project[w].secret, ChangeProject(c, w, row)
    PROVE  RInv' /\ Grows
<1> DEFINE write == [table |-> "project", id |-> w, row |-> row, rev |-> project[w].rev]
<1>1. project[w].rev \in Nat /\ project[w].dated
  BY DEF RInv, TablesOK, ProjectRow, ChangeProject, ProjectReadable, ProjectParses
<1>2. /\ write.table = "project" /\ write.id = w /\ write.row = row
      /\ write.rev = project[w].rev
  OBVIOUS
<1>3. Prepare(c, "project", w, row, project[w].rev)
  BY DEF ChangeProject
<1>4. WriteOK(write)
  <2> HIDE DEF write
  <2> QED BY <1>1, <1>2 DEF WriteOK, Overtakes
<1> QED BY <1>3, <1>4, PrepareR

LEMMA ChangeDecisionR ==
    ASSUME RInv, NEW c \in Clients, NEW d \in Decisions, NEW row, DecisionOK(d, row),
           row.secret = decision[d].secret, ChangeDecision(c, d, row)
    PROVE  RInv' /\ Grows
<1> DEFINE write == [table |-> "decision", id |-> d, row |-> row, rev |-> decision[d].rev]
<1>1. decision[d] # None /\ decision[d].dated
  BY DEF ChangeDecision, DecisionReadable, DecisionParses
<1>2. decision[d].rev \in Nat
  BY <1>1 DEF RInv, TablesOK, DecisionRow
<1>3. /\ write.table = "decision" /\ write.id = d /\ write.row = row
      /\ write.rev = decision[d].rev
  OBVIOUS
<1>4. Prepare(c, "decision", d, row, decision[d].rev)
  BY DEF ChangeDecision
<1>5. WriteOK(write)
  <2> HIDE DEF write
  <2> QED BY <1>1, <1>2, <1>3 DEF WriteOK, Overtakes
<1> QED BY <1>4, <1>5, PrepareR

(* A step that appends an experience or a decision, or changes an item or  *)
(* what other services own: one transaction of its own.                    *)
LEMMA OwnStep ==
    ASSUME RInv, Room, pending' = pending, commits' = commits + 1, RevisionsGrow,
           project' = project,
           decision' \in [Decisions -> DecisionRow \union {None}],
           item' \in [Items -> ItemRow],
           experience' \in [Experiences -> ExperienceRow \union {None}],
           outside' \in [Outside -> OutsideRow],
           \A d \in Decisions : decision'[d] = decision[d] \/ DecisionOK(d, decision'[d]),
           \A i \in Items : item'[i] = item[i] \/ ItemOK(item'[i]),
           \A x \in Experiences : \/ experience'[x] = experience[x]
                                  \/ experience[x] = None /\ ExperienceOK(x)'
    PROVE  RInv' /\ Grows
<1>1. TablesOK'
  BY DEF RInv, TablesOK
<1>2. Bounded'
  BY RoomToCommit DEF RInv
<1> QED BY <1>1, <1>2, WriterStep DEF Grows

LEMMA CreateDecisionR ==
    ASSUME RInv, NEW d \in Unused(decision), NEW s \in Statuses,
           NEW p \in Optional(Existing(decision)), NEW w \in Optional(Projs),
           NEW xs \in SUBSET Memos, NEW secret \in BOOLEAN,
           CreateDecision(d, s, p, w, xs, secret)
    PROVE  RInv' /\ Grows
<1> DEFINE row == [status |-> s, supersedes |-> p, project |-> w, linked |-> xs,
                   active |-> TRUE, secret |-> secret, dated |-> TRUE, rev |-> 1]
<1>1. d \in Decisions /\ decision[d] = None /\ p \in Optional(Decisions)
  BY DEF Unused, RInv, TablesOK, Optional, Existing
<1>2. row \in DecisionRow /\ row.supersedes = p
  BY <1>1 DEF DecisionRow
<1>3. /\ decision' = [decision EXCEPT ![d] = row] /\ DecisionLinksOk(row) /\ Room
      /\ commits' = commits + 1 /\ UNCHANGED <<project, item, experience, outside, pending>>
  BY DEF CreateDecision
<1> HIDE DEF row
<1>4. row # None
  BY <1>2, ProjectsAssumption
<1>5. p # None => decision[p] # None
  BY <1>2, <1>3 DEF DecisionLinksOk, DecisionParses
<1>6. p # d
  BY <1>1, ProjectsAssumption DEF Optional, Existing
<1>7. DecisionOK(d, row)
  BY <1>2, <1>5, <1>6 DEF DecisionOK, LinkFound
<1>8. decision' \in [Decisions -> DecisionRow \union {None}]
  BY <1>1, <1>2, <1>3 DEF RInv, TablesOK
<1>9. \A e \in Decisions : decision'[e] = IF e = d THEN row ELSE decision[e]
  BY <1>1, <1>3 DEF RInv, TablesOK
<1>10. RevisionsGrow
  BY <1>1, <1>3, <1>9 DEF RevisionsGrow, Grown, Usable
<1> QED BY <1>3, <1>7, <1>8, <1>9, <1>10, OwnStep DEF RInv, TablesOK

(* The row a commit writes. *)
Stamped(row, n, dated) == [row EXCEPT !.rev = n, !.dated = dated]

LEMMA StampedProject ==
    ASSUME NEW row \in ProjectRow, NEW n \in Nat \ {0}, NEW dated \in BOOLEAN
    PROVE  LET new == Stamped(row, n, dated)
           IN  /\ new \in ProjectRow /\ new.rev = n /\ new.dated = dated
               /\ new.decisions = row.decisions /\ new.linked = row.linked
               /\ new.active = row.active /\ new.secret = row.secret
<1>1. CASE dated = TRUE
  BY <1>1 DEF Stamped, ProjectRow
<1>2. CASE dated = FALSE
  BY <1>2 DEF Stamped, ProjectRow
<1> QED BY <1>1, <1>2

LEMMA StampedDecision ==
    ASSUME NEW row \in DecisionRow, NEW n \in Nat \ {0}, NEW dated \in BOOLEAN
    PROVE  LET new == Stamped(row, n, dated)
           IN  /\ new \in DecisionRow /\ new.rev = n /\ new.dated = dated
               /\ new.supersedes = row.supersedes /\ new.project = row.project
               /\ new.linked = row.linked /\ new.active = row.active /\ new.secret = row.secret
<1>1. CASE dated = TRUE
  BY <1>1 DEF Stamped, DecisionRow
<1>2. CASE dated = FALSE
  BY <1>2 DEF Stamped, DecisionRow
<1> QED BY <1>1, <1>2

(* What the checks inside the transaction come to. *)
LEMMA CommitRecordIs ==
    ASSUME RInv, NEW c \in Clients, CommitRecord(c)
    PROVE  LET w == pending[c]
           IN  /\ w # None /\ WriteOK(w)
               /\ \E dated \in BOOLEAN :
                     LET new == Stamped(w.row, w.rev + 1, dated)
                     IN  \/ /\ w.table = "project" /\ CommitAllowed(project[w.id], w)
                            /\ project[w.id].dated /\ new.dated = dated
                            /\ ProjectOK(new) /\ Grown(project[w.id], new)
                            /\ project' = [project EXCEPT ![w.id] = new]
                            /\ decision' = decision
                         \/ /\ w.table = "decision" /\ CommitAllowed(decision[w.id], w)
                            /\ decision[w.id].dated /\ new.dated = dated
                            /\ DecisionOK(w.id, new) /\ Grown(decision[w.id], new)
                            /\ decision' = [decision EXCEPT ![w.id] = new]
                            /\ project' = project
               /\ UNCHANGED <<item, experience, outside>>
               /\ pending' = [pending EXCEPT ![c] = None] /\ commits' = commits + 1
<1> DEFINE w == pending[c]
<1>1. /\ w # None /\ UNCHANGED <<item, experience, outside>>
      /\ pending' = [pending EXCEPT ![c] = None] /\ commits' = commits + 1
  BY DEF CommitRecord
<1>2. WriteOK(w)
  BY <1>1 DEF RInv
<1>3. PICK dated \in BOOLEAN :
         LET row == [w.row EXCEPT !.rev = w.rev + 1, !.dated = dated]
         IN  \/ /\ w.table = "project" /\ CommitAllowed(project[w.id], w)
                /\ project' = [project EXCEPT ![w.id] = row] /\ UNCHANGED decision
             \/ /\ w.table = "decision" /\ CommitAllowed(decision[w.id], w)
                /\ decision' = [decision EXCEPT ![w.id] = row] /\ UNCHANGED project
  BY DEF CommitRecord
<1> DEFINE new == Stamped(w.row, w.rev + 1, dated)
<1>4. \/ /\ w.table = "project" /\ CommitAllowed(project[w.id], w)
         /\ project' = [project EXCEPT ![w.id] = new] /\ UNCHANGED decision
      \/ /\ w.table = "decision" /\ CommitAllowed(decision[w.id], w)
         /\ decision' = [decision EXCEPT ![w.id] = new] /\ UNCHANGED project
  BY <1>3 DEF Stamped
<1> HIDE DEF new, w
<1>5. ASSUME w.table = "project", CommitAllowed(project[w.id], w)
      PROVE  /\ project[w.id].dated /\ new.dated = dated
             /\ ProjectOK(new) /\ Grown(project[w.id], new)
  <2>1. w.row \in ProjectRow /\ Found(w.row.decisions) /\ Overtakes(w, project[w.id])
    BY <1>2, <1>5 DEF WriteOK, ProjectOK
  <2>2. w.rev = project[w.id].rev /\ w.rev \in Nat /\ w.row.secret = project[w.id].secret
        /\ project[w.id].dated
    BY <1>5, <2>1 DEF CommitAllowed, Overtakes
  <2>3. w.rev + 1 \in Nat \ {0} /\ w.rev < w.rev + 1
    BY <2>2
  <2>4. /\ new \in ProjectRow /\ new.rev = w.rev + 1 /\ new.dated = dated
        /\ new.decisions = w.row.decisions /\ new.secret = w.row.secret
    BY <2>1, <2>3, StampedProject DEF new
  <2> QED BY <2>1, <2>2, <2>3, <2>4 DEF ProjectOK, Grown
<1>6. ASSUME w.table = "decision", CommitAllowed(decision[w.id], w)
      PROVE  /\ decision[w.id].dated /\ new.dated = dated
             /\ DecisionOK(w.id, new) /\ Grown(decision[w.id], new)
  <2>1. /\ w.row \in DecisionRow /\ w.row.supersedes # w.id /\ LinkFound(w.row)
        /\ Overtakes(w, decision[w.id])
    BY <1>2, <1>6 DEF WriteOK, DecisionOK
  <2>2. w.rev = decision[w.id].rev /\ w.rev \in Nat /\ w.row.secret = decision[w.id].secret
        /\ decision[w.id].dated
    BY <1>6, <2>1 DEF CommitAllowed, Overtakes
  <2>3. w.rev + 1 \in Nat \ {0} /\ w.rev < w.rev + 1
    BY <2>2
  <2>4. /\ new \in DecisionRow /\ new.rev = w.rev + 1 /\ new.dated = dated
        /\ new.supersedes = w.row.supersedes /\ new.secret = w.row.secret
    BY <2>1, <2>3, StampedDecision DEF new
  <2> QED BY <2>1, <2>2, <2>3, <2>4 DEF DecisionOK, LinkFound, Grown
<1>7. \/ /\ w.table = "project" /\ CommitAllowed(project[w.id], w)
         /\ project[w.id].dated /\ new.dated = dated
         /\ ProjectOK(new) /\ Grown(project[w.id], new)
         /\ project' = [project EXCEPT ![w.id] = new]
         /\ decision' = decision
      \/ /\ w.table = "decision" /\ CommitAllowed(decision[w.id], w)
         /\ decision[w.id].dated /\ new.dated = dated
         /\ DecisionOK(w.id, new) /\ Grown(decision[w.id], new)
         /\ decision' = [decision EXCEPT ![w.id] = new]
         /\ project' = project
  BY <1>4, <1>5, <1>6
<1> QED BY <1>1, <1>2, <1>7 DEF new, w

LEMMA CommitRecordR ==
    ASSUME RInv, NEW c \in Clients, CommitRecord(c)
    PROVE  RInv' /\ Grows
<1> DEFINE w == pending[c]
<1>1. /\ w # None /\ WriteOK(w) /\ UNCHANGED <<item, experience, outside>>
      /\ pending' = [pending EXCEPT ![c] = None] /\ commits' = commits + 1
  BY CommitRecordIs
<1>2. PICK dated \in BOOLEAN :
         LET new == Stamped(w.row, w.rev + 1, dated)
         IN  \/ /\ w.table = "project" /\ project[w.id].dated
                /\ ProjectOK(new) /\ Grown(project[w.id], new)
                /\ project' = [project EXCEPT ![w.id] = new] /\ decision' = decision
             \/ /\ w.table = "decision" /\ decision[w.id].dated
                /\ DecisionOK(w.id, new) /\ Grown(decision[w.id], new)
                /\ decision' = [decision EXCEPT ![w.id] = new] /\ project' = project
  BY CommitRecordIs
<1> DEFINE new == Stamped(w.row, w.rev + 1, dated)
<1> HIDE DEF w, new
<1>3. Bounded'
  BY <1>1, BoundedSettle DEF RInv, w
<1>4. \A d \in Clients : pending'[d] = pending[d] \/ pending'[d] = None
  BY <1>1 DEF RInv, TablesOK
<1>5. CASE /\ w.table = "project" /\ project[w.id].dated
           /\ ProjectOK(new) /\ Grown(project[w.id], new)
           /\ project' = [project EXCEPT ![w.id] = new] /\ decision' = decision
  <2>1. w.id \in Projs /\ new \in ProjectRow
    BY <1>1, <1>5 DEF WriteOK, ProjectOK
  <2>2. \A v \in Projs : project'[v] = IF v = w.id THEN new ELSE project[v]
    BY <1>5, <2>1 DEF RInv, TablesOK
  <2>3. TablesOK'
    BY <1>1, <1>5, <2>1 DEF RInv, TablesOK
  <2>4. RevisionsGrow
    BY <1>1, <1>5, <2>1, <2>2 DEF RevisionsGrow, Usable, Grown
  <2> QED BY <1>1, <1>3, <1>4, <1>5, <2>2, <2>3, <2>4, WriterStep DEF Grows
<1>6. CASE /\ w.table = "decision" /\ decision[w.id].dated
           /\ DecisionOK(w.id, new) /\ Grown(decision[w.id], new)
           /\ decision' = [decision EXCEPT ![w.id] = new] /\ project' = project
  <2>1. w.id \in Decisions /\ decision[w.id] # None /\ new \in DecisionRow /\ new # None
    BY <1>1, <1>6, ProjectsAssumption DEF WriteOK, DecisionOK
  <2>2. \A v \in Decisions : decision'[v] = IF v = w.id THEN new ELSE decision[v]
    BY <1>6, <2>1 DEF RInv, TablesOK
  <2>3. TablesOK'
    BY <1>1, <1>6, <2>1 DEF RInv, TablesOK
  <2>4. RevisionsGrow
    BY <1>1, <1>6, <2>1, <2>2 DEF RevisionsGrow, Usable, Grown
  <2> QED BY <1>1, <1>3, <1>4, <1>6, <2>2, <2>3, <2>4, WriterStep DEF Grows
<1> QED BY <1>2, <1>5, <1>6 DEF new

LEMMA AbandonR ==
    ASSUME RInv, NEW c \in Clients, Abandon(c)
    PROVE  RInv' /\ Grows
<1> USE DEF Abandon
<1>1. Bounded'
  BY BoundedSettle DEF RInv
<1>2. \A d \in Clients : pending'[d] = pending[d] \/ pending'[d] = None
  BY DEF RInv, TablesOK
<1> QED BY <1>1, <1>2, QuietStep DEF tables, RInv, TablesOK

(* What other services and the items' own write. *)
Owned(row, active, enabled, dated) ==
    [row EXCEPT !.active = active, !.enabled = enabled, !.dated = dated]

LEMMA OwnedIs ==
    ASSUME NEW row \in OutsideRow, NEW a \in BOOLEAN, NEW on \in BOOLEAN, NEW dated \in BOOLEAN
    PROVE  LET new == Owned(row, a, on, dated)
           IN  new \in OutsideRow /\ new.active = a /\ new.dated = dated /\ new.secret = row.secret
<1>1. CASE a = TRUE /\ on = TRUE /\ dated = TRUE
  BY <1>1 DEF Owned, OutsideRow
<1>2. CASE a = TRUE /\ on = TRUE /\ dated = FALSE
  BY <1>2 DEF Owned, OutsideRow
<1>3. CASE a = TRUE /\ on = FALSE /\ dated = TRUE
  BY <1>3 DEF Owned, OutsideRow
<1>4. CASE a = TRUE /\ on = FALSE /\ dated = FALSE
  BY <1>4 DEF Owned, OutsideRow
<1>5. CASE a = FALSE /\ on = TRUE /\ dated = TRUE
  BY <1>5 DEF Owned, OutsideRow
<1>6. CASE a = FALSE /\ on = TRUE /\ dated = FALSE
  BY <1>6 DEF Owned, OutsideRow
<1>7. CASE a = FALSE /\ on = FALSE /\ dated = TRUE
  BY <1>7 DEF Owned, OutsideRow
<1>8. CASE a = FALSE /\ on = FALSE /\ dated = FALSE
  BY <1>8 DEF Owned, OutsideRow
<1> QED BY <1>1, <1>2, <1>3, <1>4, <1>5, <1>6, <1>7, <1>8

LEMMA ChangeOutsideR ==
    ASSUME RInv, NEW x \in Outside, NEW a \in BOOLEAN, NEW on \in BOOLEAN, ChangeOutside(x, a, on)
    PROVE  RInv' /\ Grows
<1>1. /\ outside[x].active /\ Room /\ (x \in Memos => outside[x].dated)
      /\ commits' = commits + 1 /\ UNCHANGED <<project, decision, item, experience, pending>>
  BY DEF ChangeOutside
<1>2. PICK dated \in BOOLEAN : outside' = [outside EXCEPT ![x] = Owned(outside[x], a, on, dated)]
  BY DEF ChangeOutside, Owned, RInv, TablesOK
<1> DEFINE new == Owned(outside[x], a, on, dated)
<1>3. new \in OutsideRow /\ new.secret = outside[x].secret
  BY OwnedIs DEF RInv, TablesOK
<1> HIDE DEF new
<1>4. outside' = [outside EXCEPT ![x] = new]
  BY <1>2 DEF new
<1>5. \A y \in Outside : outside'[y] = IF y = x THEN new ELSE outside[y]
  BY <1>4 DEF RInv, TablesOK
<1>6. outside' \in [Outside -> OutsideRow]
  BY <1>3, <1>4 DEF RInv, TablesOK
<1>7. RevisionsGrow
  BY <1>1, <1>3, <1>5 DEF RevisionsGrow, Grown, Usable, Outside
<1> QED BY <1>1, <1>6, <1>7, OwnStep DEF RInv, TablesOK

Worked(row, status, decisions, linked, active, rev, dated) ==
    [row EXCEPT !.status = status, !.decisions = decisions, !.linked = linked,
                !.active = active, !.rev = rev, !.dated = dated]

LEMMA WorkedIs ==
    ASSUME NEW row \in ItemRow, NEW s \in ItemStatuses, NEW ds \in SUBSET Decisions,
           NEW xs \in SUBSET Policies, NEW a \in BOOLEAN, NEW n \in Nat, NEW dated \in BOOLEAN
    PROVE  LET new == Worked(row, s, ds, xs, a, n, dated)
           IN  /\ new \in ItemRow /\ new.status = s /\ new.decisions = ds /\ new.linked = xs
               /\ new.active = a /\ new.rev = n /\ new.secret = row.secret
<1>1. CASE a = TRUE /\ dated = TRUE
  BY <1>1 DEF Worked, ItemRow
<1>2. CASE a = TRUE /\ dated = FALSE
  BY <1>2 DEF Worked, ItemRow
<1>3. CASE a = FALSE /\ dated = TRUE
  BY <1>3 DEF Worked, ItemRow
<1>4. CASE a = FALSE /\ dated = FALSE
  BY <1>4 DEF Worked, ItemRow
<1> QED BY <1>1, <1>2, <1>3, <1>4

(* What a change of an item comes to. *)
Reworked(i, s, ds, xs, a, new) ==
    /\ item' = [item EXCEPT ![i] = new]
    /\ new.status = s /\ new.decisions = ds /\ new.linked = xs /\ new.active = a
    /\ new.rev = item[i].rev + 1 /\ new.secret = item[i].secret
    /\ ItemLinksOk(i, new)

LEMMA ChangeItemIs ==
    ASSUME RInv, NEW i \in Items, NEW s \in ItemStatuses, NEW ds \in SUBSET Decisions,
           NEW xs \in SUBSET Policies, NEW a \in BOOLEAN, ChangeItem(i, s, ds, xs, a)
    PROVE  \E new \in ItemRow : Reworked(i, s, ds, xs, a, new)
<1> DEFINE row == [item[i] EXCEPT !.status = s, !.decisions = ds, !.linked = xs,
                                  !.active = a, !.rev = @ + 1]
<1>1. /\ ItemLinksOk(i, row)
      /\ \E dated \in BOOLEAN : item' = [item EXCEPT ![i] = [row EXCEPT !.dated = dated]]
  BY DEF ChangeItem
<1>2. item[i] \in ItemRow /\ item[i].rev + 1 \in Nat
  BY DEF RInv, TablesOK, ItemRow
<1>3. PICK dated \in BOOLEAN : item' = [item EXCEPT ![i] = [row EXCEPT !.dated = dated]]
  BY <1>1
<1> DEFINE new == Worked(item[i], s, ds, xs, a, item[i].rev + 1, dated)
<1>4. [row EXCEPT !.dated = dated] = new
  BY <1>2 DEF Worked, ItemRow
<1>5. row.status = s /\ row.decisions = ds /\ row.linked = xs
  BY <1>2 DEF ItemRow
<1> HIDE DEF row
<1>6. item' = [item EXCEPT ![i] = new]
  BY <1>3, <1>4
<1>7. /\ new \in ItemRow /\ new.status = s /\ new.decisions = ds /\ new.linked = xs
      /\ new.active = a /\ new.rev = item[i].rev + 1 /\ new.secret = item[i].secret
  BY <1>2, WorkedIs
<1> HIDE DEF new
<1>8. ItemLinksOk(i, new)
  BY <1>1, <1>5, <1>7 DEF ItemLinksOk, Blockers
<1> QED BY <1>6, <1>7, <1>8 DEF Reworked

LEMMA ChangeItemR ==
    ASSUME RInv, NEW i \in Items, NEW s \in ItemStatuses, NEW ds \in SUBSET Existing(decision),
           NEW xs \in SUBSET Policies, NEW a \in BOOLEAN, ChangeItem(i, s, ds, xs, a)
    PROVE  RInv' /\ Grows
<1>1. ds \in SUBSET Decisions /\ Found(ds)
  BY DEF RInv, TablesOK, Existing, Found
<1>2. Room /\ commits' = commits + 1 /\ UNCHANGED <<project, decision, experience, outside, pending>>
  BY DEF ChangeItem
<1>3. PICK new \in ItemRow : Reworked(i, s, ds, xs, a, new)
  BY <1>1, ChangeItemIs
<1>4. ItemOK(new)
  BY <1>1, <1>3 DEF Reworked, ItemOK, ItemLinksOk
<1>5. \A j \in Items : item'[j] = IF j = i THEN new ELSE item[j]
  BY <1>3 DEF Reworked, RInv, TablesOK
<1>6. item' \in [Items -> ItemRow]
  BY <1>3 DEF Reworked, RInv, TablesOK
<1>7. item[i].rev < new.rev
  BY <1>3 DEF Reworked, RInv, TablesOK, ItemRow
<1>8. RevisionsGrow
  BY <1>2, <1>3, <1>5, <1>7 DEF Reworked, RevisionsGrow, Grown, Usable
<1> QED BY <1>2, <1>4, <1>5, <1>6, <1>8, OwnStep DEF RInv, TablesOK

(* The next experience is the least identifier that is free, so what it    *)
(* corrects is earlier.                                                    *)
LEMMA RecordExperienceR ==
    ASSUME RInv, NEW x \in Unused(experience), NEW e \in ExperienceRow, RecordExperience(x, e)
    PROVE  RInv' /\ Grows
<1>1. /\ x \in Experiences /\ experience[x] = None
      /\ \A y \in Experiences : experience[y] = None => x <= y
  BY DEF Unused, RInv, TablesOK
<1>2. /\ Room /\ ExperienceLinksOk(e) /\ experience' = [experience EXCEPT ![x] = e]
      /\ commits' = commits + 1 /\ UNCHANGED <<project, decision, item, outside, pending>>
  BY DEF RecordExperience
<1>3. e # None
  BY ProjectsAssumption
<1>4. experience' \in [Experiences -> ExperienceRow \union {None}]
  BY <1>1, <1>2 DEF RInv, TablesOK
<1>5. \A y \in Experiences : experience'[y] = IF y = x THEN e ELSE experience[y]
  BY <1>1, <1>2 DEF RInv, TablesOK
<1>6. RevisionsGrow
  BY <1>2 DEF RevisionsGrow, Grown, Usable
<1>7. ExperienceOK(x)'
  <2> DEFINE p == e.supersedes
  <2>1. \A z \in Experiences : z < x => experience'[z] # None
    BY <1>1, <1>5, ProjectsAssumption
  <2>2. ASSUME p # None PROVE p < x /\ experience'[p] # None /\ experience'[p].project = e.project
    <3>1. p \in Experiences /\ experience[p] # None /\ experience[p].project = e.project
      BY <1>2, <2>2 DEF ExperienceLinksOk, SupersedesOk, ExperienceRow, Optional
    <3>2. p # x /\ ~(x < p)
      BY <1>1, <3>1 DEF RInv, ExperienceOK
    <3>3. p \in Nat /\ x \in Nat
      BY <1>1, <3>1, ProjectsAssumption
    <3>4. p < x
      BY <3>2, <3>3
    <3> QED BY <1>1, <1>5, <3>1, <3>2, <3>4
  <2>3. /\ ~project[e.project].secret
        /\ e.item # None => e.project = Home /\ ~item[e.item].secret
        /\ \A d \in e.related : decision[d] # None /\ ~decision[d].secret
    BY <1>2 DEF ExperienceLinksOk
  <2> QED BY <1>1, <1>2, <1>5, <2>1, <2>2, <2>3 DEF ExperienceOK
<1> QED BY <1>1, <1>2, <1>4, <1>5, <1>6, <1>7, OwnStep DEF RInv, TablesOK

LEMMA ExperienceNextIs ==
    ASSUME RInv, ExperienceNext(Assertions, Items, Decisions, BOOLEAN)
    PROVE  \E x \in Unused(experience), e \in ExperienceRow : RecordExperience(x, e)
<1>1. PICK x \in Unused(experience), a \in Assertions, actor \in Actors, failed \in BOOLEAN,
           i \in Optional(Items), ds \in SUBSET (Decisions \intersect Existing(decision)),
           w \in Projs, p \in Optional(Existing(experience)) :
         \/ RecordExperience(x, Experience(w, i, ds, a, actor, failed, p))
         \/ CorrectExperience(x, Experience(w, i, ds, a, actor, failed, p))
  BY DEF ExperienceNext
<1> DEFINE e == Experience(w, i, ds, a, actor, failed, p)
<1>2. p \in Optional(Experiences)
  BY DEF RInv, TablesOK, Optional, Existing
<1>3. e \in ExperienceRow
  BY <1>2 DEF Experience, ExperienceRow
<1> HIDE DEF e
<1>4. RecordExperience(x, e)
  BY <1>1 DEF e, CorrectExperience
<1> QED BY <1>3, <1>4

LEMMA ProjectsNextR == RInv /\ [ProjectsNext]_projectVars => RInv' /\ Grows
<1> SUFFICES ASSUME RInv, [ProjectsNext]_projectVars PROVE RInv' /\ Grows
  OBVIOUS
<1>1. ASSUME NEW c \in Clients, NEW w \in Projs,
             NEW ds \in SUBSET Existing(decision), NEW xs \in SUBSET Outside,
             UpdateProject(c, w, ds, xs)
      PROVE  RInv' /\ Grows
  <2> DEFINE row == [project[w] EXCEPT !.decisions = ds, !.linked = xs]
  <2>1. project[w] \in ProjectRow /\ ds \subseteq Decisions
    BY DEF RInv, TablesOK, Existing
  <2>2. row \in ProjectRow /\ row.decisions = ds /\ row.secret = project[w].secret
    BY <2>1 DEF ProjectRow
  <2>3. ProjectOK(row)
    BY <2>1, <2>2 DEF ProjectOK, Existing, Found
  <2>4. ChangeProject(c, w, row)
    BY <1>1 DEF UpdateProject
  <2> HIDE DEF row
  <2> QED BY <2>2, <2>3, <2>4, ChangeProjectR
<1>2. ASSUME NEW c \in Clients, NEW w \in Projs, ArchiveProject(c, w) PROVE RInv' /\ Grows
  <2> DEFINE row == [project[w] EXCEPT !.active = FALSE]
  <2>1. ProjectOK(project[w])
    BY DEF RInv, LinksOK
  <2>2. row \in ProjectRow /\ row.decisions = project[w].decisions /\ row.secret = project[w].secret
    BY <2>1 DEF ProjectRow, ProjectOK
  <2>3. ChangeProject(c, w, row)
    BY <1>2 DEF ArchiveProject
  <2> HIDE DEF row
  <2>4. ProjectOK(row)
    BY <2>1, <2>2 DEF ProjectOK
  <2> QED BY <2>2, <2>3, <2>4, ChangeProjectR
<1>3. ASSUME NEW c \in Clients, NEW d \in Existing(decision), NEW s \in Statuses,
             NEW p \in Optional(Existing(decision)), NEW w \in Optional(Projs), NEW xs \in SUBSET Memos,
             UpdateDecision(c, d, s, p, w, xs)
      PROVE  RInv' /\ Grows
  <2> DEFINE row == [decision[d] EXCEPT !.status = s, !.supersedes = p, !.project = w, !.linked = xs]
  <2>1. d \in Decisions /\ decision[d] \in DecisionRow /\ p \in Optional(Decisions)
    BY DEF RInv, TablesOK, Existing, Optional
  <2>2. row \in DecisionRow /\ row.supersedes = p /\ row.secret = decision[d].secret
    BY <2>1 DEF DecisionRow
  <2>3. ChangeDecision(c, d, row) /\ DecisionValid(d, row)
    BY <1>3 DEF UpdateDecision
  <2> HIDE DEF row
  <2>4. p # d /\ (p # None => decision[p] # None)
    BY <2>2, <2>3 DEF DecisionValid, DecisionLinksOk, DecisionParses
  <2>5. DecisionOK(d, row)
    BY <2>2, <2>4 DEF DecisionOK, LinkFound
  <2> QED BY <2>1, <2>2, <2>3, <2>5, ChangeDecisionR
<1>4. ASSUME NEW c \in Clients, NEW d \in Existing(decision), ArchiveDecision(c, d)
      PROVE  RInv' /\ Grows
  <2> DEFINE row == [decision[d] EXCEPT !.active = FALSE]
  <2>1. d \in Decisions /\ DecisionOK(d, decision[d])
    BY DEF RInv, LinksOK, TablesOK, Existing
  <2>2. row \in DecisionRow /\ row.supersedes = decision[d].supersedes /\ row.secret = decision[d].secret
    BY <2>1 DEF DecisionRow, DecisionOK
  <2>3. ChangeDecision(c, d, row)
    BY <1>4 DEF ArchiveDecision
  <2> HIDE DEF row
  <2>4. DecisionOK(d, row)
    BY <2>1, <2>2 DEF DecisionOK, LinkFound
  <2> QED BY <2>1, <2>2, <2>3, <2>4, ChangeDecisionR
<1>5. CASE UNCHANGED projectVars
  <2>1. InFlight' = InFlight
    BY <1>5 DEF projectVars, InFlight
  <2>2. Bounded'
    BY <1>5, <2>1 DEF projectVars, RInv, Bounded
  <2> QED BY <1>5, <2>2, QuietStep DEF projectVars, tables, RInv, TablesOK
<1>6. CASE RecordsNext(Projs, Outside, BOOLEAN)
  <2>1. Outside \intersect Memos = Memos
    BY DEF Outside
  <2>2. ASSUME NEW d \in Unused(decision), NEW s \in Statuses, NEW p \in Optional(Existing(decision)),
               NEW w \in Optional(Projs), NEW xs \in SUBSET (Outside \intersect Memos),
               NEW secret \in BOOLEAN, CreateDecision(d, s, p, w, xs, secret)
        PROVE  RInv' /\ Grows
    BY <2>1, <2>2, CreateDecisionR
  <2> QED BY <1>1, <1>2, <1>3, <1>4, <1>6, <2>1, <2>2, CommitRecordR, AbandonR, ChangeOutsideR
          DEF RecordsNext
<1>7. CASE ItemsNext(ItemStatuses, Policies)
  BY <1>7, ChangeItemR DEF ItemsNext
<1>8. CASE ExperienceNext(Assertions, Items, Decisions, BOOLEAN)
  BY <1>8, ExperienceNextIs, RecordExperienceR
<1> QED BY <1>5, <1>6, <1>7, <1>8 DEF ProjectsNext
-----------------------------------------------------------------------------
(* What RInv means for reading: which records parse, and what of their     *)
(* links can fail at all.                                                  *)
Readings ==
    /\ \A w \in Projs : ProjectParses(w) <=> project[w].dated
    /\ \A d \in Decisions : decision[d] # None =>
          (DecisionParses(d, decision[d]) <=> decision[d].dated)
    /\ \A w \in Projs : ProjectReadable(w) <=>
          /\ project[w].dated
          /\ \A d \in project[w].decisions : decision[d].dated
          /\ \A x \in project[w].linked : Usable(x)
    /\ \A d \in Decisions : decision[d] # None =>
          (DecisionReadable(d) <=>
             /\ decision[d].dated
             /\ decision[d].project # None => project[decision[d].project].dated
             /\ decision[d].supersedes # None => decision[decision[d].supersedes].dated
             /\ \A x \in decision[d].linked : Usable(x))

LEMMA Reading == RInv => Readings
<1> SUFFICES ASSUME RInv PROVE Readings
  OBVIOUS
<1>1. \A w \in Projs : ProjectParses(w) <=> project[w].dated
  BY DEF RInv, TablesOK, ProjectRow, ProjectParses
<1>2. \A d \in Decisions : decision[d] # None => (DecisionParses(d, decision[d]) <=> decision[d].dated)
  BY DEF RInv, LinksOK, DecisionOK, DecisionParses
<1>3. ASSUME NEW w \in Projs
      PROVE  ProjectReadable(w) <=>
                 /\ project[w].dated
                 /\ \A d \in project[w].decisions : decision[d].dated
                 /\ \A x \in project[w].linked : Usable(x)
  <2>1. \A d \in project[w].decisions : d \in Decisions /\ decision[d] # None
    BY DEF RInv, LinksOK, ProjectOK, ProjectRow, Found
  <2> QED BY <1>1, <1>2, <2>1 DEF ProjectReadable, ProjectLinksOk
<1>4. ASSUME NEW d \in Decisions, decision[d] # None
      PROVE  DecisionReadable(d) <=>
                    /\ decision[d].dated
                    /\ decision[d].project # None => project[decision[d].project].dated
                    /\ decision[d].supersedes # None => decision[decision[d].supersedes].dated
                    /\ \A x \in decision[d].linked : Usable(x)
  <2>1. /\ decision[d].project # None => decision[d].project \in Projs
        /\ decision[d].supersedes # None => decision[d].supersedes \in Decisions
                                            /\ decision[decision[d].supersedes] # None
    BY <1>4 DEF RInv, LinksOK, DecisionOK, LinkFound, DecisionRow, Optional
  <2> QED BY <1>1, <1>2, <1>4, <2>1 DEF DecisionReadable, DecisionLinksOk
<1> QED BY <1>1, <1>2, <1>3, <1>4 DEF Readings

LEMMA RecordsRead == RInv => RecordsReadable
<1> SUFFICES ASSUME RInv PROVE RecordsReadable
  OBVIOUS
<1>1. commits \in 0 .. MaxCommits
  BY InFlightFinite, ProjectsAssumption DEF RInv, Bounded, TablesOK
<1>2. ProjectsTypeOK
  BY <1>1 DEF ProjectsTypeOK, RInv, TablesOK, Existing
<1>3. \A w \in Projs : ~ProjectReadable(w) =>
         \/ ~project[w].dated
         \/ \E d \in project[w].decisions : ~decision[d].dated
         \/ \E x \in project[w].linked : ~Usable(x)
  BY Reading DEF Readings
<1>4. ASSUME NEW d \in Existing(decision)
      PROVE  LET row == decision[d]
             IN  ~DecisionReadable(d) =>
                 \/ ~row.dated \/ \E x \in row.linked : ~Usable(x)
                 \/ row.project # None /\ ~project[row.project].dated
                 \/ row.supersedes # None /\ ~decision[row.supersedes].dated
  <2>1. d \in Decisions /\ decision[d] # None
    BY DEF Existing, RInv, TablesOK
  <2> QED BY <2>1, Reading DEF Readings
<1>5. ASSUME NEW i \in Items, ~ItemReadable(i)
      PROVE  \/ ~ProjectLive(Home)
             \/ \E j \in DependsOn[i] \union BlockedBy[i] : ~item[j].active \/ Ended(item[j].status)
             \/ \E d \in item[i].decisions : ~DecisionLive(d)
             \/ \E x \in item[i].linked : ~outside[x].active
  BY <1>5 DEF ItemReadable, ItemLinksOk, Blockers, RInv, LinksOK, ItemOK, Found
<1>6. ASSUME NEW x \in Existing(experience)
      PROVE  LET e == experience[x]
             IN  /\ ~ExperienceReadable(x) =>
                       ~project[e.project].dated \/ (e.item # None /\ ~ItemReadable(e.item))
                 /\ e.supersedes # None => e.supersedes < x /\ experience[e.supersedes].project = e.project
  <2>1. x \in Experiences /\ experience[x] \in ExperienceRow /\ ExperienceOK(x) /\ experience[x] # None
    BY DEF Existing, RInv, TablesOK
  <2>2. ProjectParses(experience[x].project) <=> project[experience[x].project].dated
    BY <2>1, Reading DEF Readings, ExperienceRow
  <2> QED BY <2>1, <2>2 DEF ExperienceOK, ExperienceReadable, ExperienceLinksOk, SupersedesOk
<1> QED BY <1>2, <1>3, <1>4, <1>5, <1>6 DEF RecordsReadable

(* The steps of the writers. *)
LEMMA ProjectsSteps ==
    ASSUME RInv, [ProjectsNext]_projectVars
    PROVE  \/ UNCHANGED projectVars
           \/ \E c \in Clients : \/ \E w \in Projs : \E row : ChangeProject(c, w, row)
                                 \/ \E d \in Existing(decision) : \E row : ChangeDecision(c, d, row)
                                 \/ CommitRecord(c) \/ Abandon(c)
           \/ \E d \in Unused(decision) : \E s, p, w, xs, secret : CreateDecision(d, s, p, w, xs, secret)
           \/ \E x \in Outside, a \in BOOLEAN, on \in BOOLEAN : ChangeOutside(x, a, on)
           \/ \E i \in Items, s \in ItemStatuses, ds \in SUBSET Existing(decision),
                 xs \in SUBSET Policies, a \in BOOLEAN : ChangeItem(i, s, ds, xs, a)
           \/ \E x \in Unused(experience), e \in ExperienceRow : RecordExperience(x, e)
<1>1. CASE RecordsNext(Projs, Outside, BOOLEAN)
  BY <1>1 DEF RecordsNext, UpdateProject, ArchiveProject, UpdateDecision, ArchiveDecision
<1>2. CASE ItemsNext(ItemStatuses, Policies)
  BY <1>2 DEF ItemsNext
<1>3. CASE ExperienceNext(Assertions, Items, Decisions, BOOLEAN)
  BY <1>3, ExperienceNextIs
<1> QED BY <1>1, <1>2, <1>3 DEF ProjectsNext

(* The writes they prepare. *)
LEMMA Prepared ==
    ASSUME RInv, NEW b \in Clients, NEW table, NEW id, NEW row, NEW rev,
           Prepare(b, table, id, row, rev)
    PROVE  \A c \in Clients : \/ pending'[c] = pending[c]
                              \/ pending'[c].table = table /\ pending'[c].id = id
BY DEF Prepare, RInv, TablesOK

(* A project or a decision that cannot be read, and which no client is     *)
(* changing, is beyond every operation.                                    *)
LEMMA Commits ==
    ASSUME RInv, NEW c \in Clients, CommitRecord(c)
    PROVE  /\ \A w \in Projs : Untouched("project", w) => project'[w] = project[w]
           /\ \A d \in Decisions : Untouched("decision", d) => decision'[d] = decision[d]
           /\ \A b \in Clients : pending'[b] = pending[b] \/ pending'[b] = None
<1> DEFINE w == pending[c]
<1>1. w # None /\ pending' = [pending EXCEPT ![c] = None]
  BY CommitRecordIs
<1>2. PICK dated \in BOOLEAN :
         LET new == Stamped(w.row, w.rev + 1, dated)
         IN  \/ /\ w.table = "project"
                /\ project' = [project EXCEPT ![w.id] = new] /\ decision' = decision
             \/ /\ w.table = "decision"
                /\ decision' = [decision EXCEPT ![w.id] = new] /\ project' = project
  BY CommitRecordIs
<1> DEFINE new == Stamped(w.row, w.rev + 1, dated)
<1> HIDE DEF w, new
<1>3. \/ /\ w.table = "project"
         /\ project' = [project EXCEPT ![w.id] = new] /\ decision' = decision
      \/ /\ w.table = "decision"
         /\ decision' = [decision EXCEPT ![w.id] = new] /\ project' = project
  BY <1>2 DEF new
<1>4. \A table, id : Untouched(table, id) => ~(w.table = table /\ w.id = id)
  BY <1>1 DEF Untouched, w
<1>5. \A v \in Projs : Untouched("project", v) => project'[v] = project[v]
  BY <1>3, <1>4 DEF RInv, TablesOK
<1>6. \A d \in Decisions : Untouched("decision", d) => decision'[d] = decision[d]
  BY <1>3, <1>4 DEF RInv, TablesOK
<1>7. \A b \in Clients : pending'[b] = pending[b] \/ pending'[b] = None
  BY <1>1 DEF RInv, TablesOK
<1> QED BY <1>5, <1>6, <1>7

(* No step of a client touches a record that is not readable. *)
LEMMA LeftAlone ==
    ASSUME RInv, [ProjectsNext]_projectVars
    PROVE  /\ \A w \in Projs : ~ProjectReadable(w) /\ Untouched("project", w) =>
                 project'[w] = project[w] /\ Untouched("project", w)'
           /\ \A d \in Existing(decision) : ~DecisionReadable(d) /\ Untouched("decision", d) =>
                 decision'[d] = decision[d] /\ Untouched("decision", d)'
<1> DEFINE Alone ==
       /\ \A w \in Projs : ~ProjectReadable(w) /\ Untouched("project", w) =>
             project'[w] = project[w] /\ Untouched("project", w)'
       /\ \A d \in Existing(decision) : ~DecisionReadable(d) /\ Untouched("decision", d) =>
             decision'[d] = decision[d] /\ Untouched("decision", d)'
<1> SUFFICES Alone
  OBVIOUS
<1>0. Existing(decision) \subseteq Decisions
  BY DEF Existing, RInv, TablesOK
<1>1. ASSUME UNCHANGED <<project, decision>>,
             \A c \in Clients : \/ pending'[c] = pending[c] \/ pending'[c] = None
                                \/ /\ pending'[c].table = "project"
                                   /\ ProjectReadable(pending'[c].id)
                                \/ /\ pending'[c].table = "decision"
                                   /\ DecisionReadable(pending'[c].id)
      PROVE  Alone
  BY <1>1 DEF Untouched
<1>2. ASSUME UNCHANGED <<project, decision, pending>> PROVE Alone
  BY <1>1, <1>2
<1>3. ASSUME NEW c \in Clients, NEW w, NEW row, ChangeProject(c, w, row) PROVE Alone
  <2>1. Prepare(c, "project", w, row, project[w].rev) /\ ProjectReadable(w)
    BY <1>3 DEF ChangeProject
  <2>2. UNCHANGED <<project, decision>>
    BY <2>1 DEF Prepare
  <2> QED BY <1>1, <2>1, <2>2, Prepared
<1>4. ASSUME NEW c \in Clients, NEW d, NEW row, ChangeDecision(c, d, row) PROVE Alone
  <2>1. Prepare(c, "decision", d, row, decision[d].rev) /\ DecisionReadable(d)
    BY <1>4 DEF ChangeDecision
  <2>2. UNCHANGED <<project, decision>>
    BY <2>1 DEF Prepare
  <2> QED BY <1>1, <2>1, <2>2, Prepared
<1>5. ASSUME NEW c \in Clients, CommitRecord(c) PROVE Alone
  BY <1>0, <1>5, Commits DEF Untouched
<1>6. ASSUME NEW c \in Clients, Abandon(c) PROVE Alone
  <2>1. \A b \in Clients : pending'[b] = pending[b] \/ pending'[b] = None
    BY <1>6 DEF Abandon, RInv, TablesOK
  <2> QED BY <1>1, <1>6, <2>1 DEF Abandon
<1>7. ASSUME NEW d \in Unused(decision), NEW s, NEW p, NEW w, NEW xs, NEW secret,
             CreateDecision(d, s, p, w, xs, secret)
      PROVE  Alone
  <2>1. d \in Decisions /\ d \notin Existing(decision)
    BY DEF Unused, Existing, RInv, TablesOK
  <2>2. \A e \in Existing(decision) : decision'[e] = decision[e]
    BY <1>0, <1>7, <2>1 DEF CreateDecision, RInv, TablesOK
  <2> QED BY <1>7, <2>2 DEF CreateDecision, Untouched
<1>8. ASSUME NEW x, NEW a, NEW on, ChangeOutside(x, a, on) PROVE Alone
  BY <1>2, <1>8 DEF ChangeOutside
<1>9. ASSUME NEW i, NEW s, NEW ds, NEW xs, NEW a, ChangeItem(i, s, ds, xs, a) PROVE Alone
  BY <1>2, <1>9 DEF ChangeItem
<1>10. ASSUME NEW x, NEW e, RecordExperience(x, e) PROVE Alone
  BY <1>2, <1>10 DEF RecordExperience
<1>11. CASE UNCHANGED projectVars
  BY <1>2, <1>11 DEF projectVars
<1> HIDE DEF Alone
<1> QED BY <1>3, <1>4, <1>5, <1>6, <1>7, <1>8, <1>9, <1>10, <1>11, ProjectsSteps

LEMMA OwnWrites ==
    ASSUME RInv, [ProjectsNext]_projectVars
    PROVE  \A c \in Clients : \/ pending'[c] = pending[c] \/ pending'[c] = None
                              \/ pending'[c].table \in {"project", "decision"}
<1>1. ASSUME NEW c \in Clients, NEW w, NEW row, ChangeProject(c, w, row)
      PROVE  \A b \in Clients : pending'[b] = pending[b] \/ pending'[b].table = "project"
  BY <1>1, Prepared DEF ChangeProject
<1>2. ASSUME NEW c \in Clients, NEW d, NEW row, ChangeDecision(c, d, row)
      PROVE  \A b \in Clients : pending'[b] = pending[b] \/ pending'[b].table = "decision"
  BY <1>2, Prepared DEF ChangeDecision
<1>3. ASSUME NEW c \in Clients, Abandon(c)
      PROVE  \A b \in Clients : pending'[b] = pending[b] \/ pending'[b] = None
  BY <1>3 DEF Abandon, RInv, TablesOK
<1>4. CASE UNCHANGED pending
  BY <1>4
<1> QED BY <1>1, <1>2, <1>3, <1>4, Commits, ProjectsSteps
        DEF projectVars, CreateDecision, ChangeOutside, ChangeItem, RecordExperience

(* What cannot be read and does not change still cannot be read. *)
LEMMA StaysUnreadable ==
    ASSUME RInv, RInv', RevisionsGrow
    PROVE  /\ \A w \in Projs : ~ProjectReadable(w) /\ project'[w] = project[w] => ~ProjectReadable(w)'
           /\ \A d \in Existing(decision) :
                 ~DecisionReadable(d) /\ decision'[d] = decision[d] => ~DecisionReadable(d)'
<1>1. Readings'
  BY Reading, PTL
<1>2. ASSUME NEW w \in Projs, ~ProjectReadable(w), project'[w] = project[w]
      PROVE  ~ProjectReadable(w)'
  <2>1. project[w].decisions \subseteq Decisions /\ project[w].linked \subseteq Outside
        /\ \A d \in project[w].decisions : decision[d] # None
    BY DEF RInv, LinksOK, ProjectOK, ProjectRow, Found
  <2>2. ~(/\ project[w].dated
          /\ \A d \in project[w].decisions : decision[d].dated
          /\ \A x \in project[w].linked : Usable(x))
    BY <1>2, Reading DEF Readings
  <2>3. ~(/\ project'[w].dated
          /\ \A d \in project'[w].decisions : decision'[d].dated
          /\ \A x \in project'[w].linked : Usable(x)')
    BY <1>2, <2>1, <2>2 DEF RevisionsGrow
  <2>4. ProjectReadable(w)' <=>
          /\ project'[w].dated
          /\ \A d \in project'[w].decisions : decision'[d].dated
          /\ \A x \in project'[w].linked : Usable(x)'
    BY <1>1 DEF Readings
  <2> QED BY <2>3, <2>4
<1>3. ASSUME NEW d \in Existing(decision), ~DecisionReadable(d), decision'[d] = decision[d]
      PROVE  ~DecisionReadable(d)'
  <2>1. d \in Decisions /\ decision[d] # None /\ decision'[d] # None
    BY <1>3 DEF Existing, RInv, TablesOK, RevisionsGrow
  <2>2. /\ decision[d].linked \subseteq Outside
        /\ decision[d].project # None => decision[d].project \in Projs
        /\ decision[d].supersedes # None => decision[d].supersedes \in Decisions
                                            /\ decision[decision[d].supersedes] # None
    BY <2>1 DEF RInv, LinksOK, DecisionOK, LinkFound, DecisionRow, Optional, Outside
  <2>3. ~(/\ decision[d].dated
          /\ decision[d].project # None => project[decision[d].project].dated
          /\ decision[d].supersedes # None => decision[decision[d].supersedes].dated
          /\ \A x \in decision[d].linked : Usable(x))
    BY <1>3, <2>1, Reading DEF Readings
  <2>4. ~(/\ decision'[d].dated
          /\ decision'[d].project # None => project'[decision'[d].project].dated
          /\ decision'[d].supersedes # None => decision'[decision'[d].supersedes].dated
          /\ \A x \in decision'[d].linked : Usable(x)')
    BY <1>3, <2>2, <2>3 DEF RevisionsGrow
  <2>5. DecisionReadable(d)' <=>
          /\ decision'[d].dated
          /\ decision'[d].project # None => project'[decision'[d].project].dated
          /\ decision'[d].supersedes # None => decision'[decision'[d].supersedes].dated
          /\ \A x \in decision'[d].linked : Usable(x)'
    BY <1>1, <2>1 DEF Readings
  <2> QED BY <2>4, <2>5
<1> QED BY <1>2, <1>3

LEMMA StrandedStays == RInv /\ [ProjectsNext]_projectVars => RecordsStranded
<1> SUFFICES ASSUME RInv, [ProjectsNext]_projectVars PROVE RecordsStranded
  OBVIOUS
<1>1. RInv' /\ RevisionsGrow
  BY ProjectsNextR DEF Grows
<1> QED BY <1>1, LeftAlone, StaysUnreadable DEF RecordsStranded

(* Projects, decisions, items and experience, for any number of clients    *)
(* who check outside their transactions (_project_from_record,             *)
(* _validated_decision_values, _work_item_from_record,                     *)
(* _project_experience_from_record): a record becomes unreadable for one   *)
(* of few reasons, a change dated before the creation of what it names or  *)
(* something archived or ended, and a project or a decision then for ever. *)
THEOREM ProjectsAlwaysSound == ProjectsSpec => ProjectsSound
<1>1. RInv /\ [ProjectsNext]_projectVars => [RecordsStranded]_projectVars
  BY StrandedStays
<1>2. RInv /\ [ProjectsNext]_projectVars => RInv'
  BY ProjectsNextR
<1> QED BY <1>1, <1>2, InitR, RecordsRead, PTL DEF ProjectsSpec, ProjectsSound
-----------------------------------------------------------------------------
(* The writers together: projects, items, experience, checkpoints.         *)
LEMMA RoomR ==
    ASSUME RInv, Room, UNCHANGED <<tables, pending>>, commits' = commits + 1
    PROVE  RInv' /\ Grows
<1>1. Bounded'
  BY RoomToCommit DEF RInv
<1> QED BY <1>1, QuietStep DEF RInv, TablesOK

LEMMA CpNextW ==
    ASSUME RInv, CpNext(Projs, BOOLEAN)
    PROVE  RInv' /\ Grows /\ UNCHANGED tables
<1>1. ASSUME NEW k, NEW w, NEW l, NEW secret, Propose(k, w, l, secret)
      PROVE  RInv' /\ Grows /\ UNCHANGED tables
  BY <1>1, RoomR DEF Propose, tables
<1>2. ASSUME UNCHANGED projectVars PROVE RInv' /\ Grows /\ UNCHANGED tables
  BY <1>2, ProjectsNextR DEF projectVars, tables
<1>3. ASSUME NEW c \in Clients, NEW v, Room, v.table = "checkpoint",
             pending' = [pending EXCEPT ![c] = v], commits' = commits, UNCHANGED tables
      PROVE  RInv' /\ Grows /\ UNCHANGED tables
  <2>1. Bounded'
    BY <1>3, RoomToPrepare DEF RInv
  <2>2. \A d \in Clients : pending'[d] = pending[d] \/ WriteOK(pending'[d])
    BY <1>3 DEF RInv, TablesOK, WriteOK
  <2> QED BY <1>3, <2>1, <2>2, QuietStep DEF RInv, TablesOK
<1>4. ASSUME NEW c \in Clients, pending[c] # None, pending' = [pending EXCEPT ![c] = None],
             commits' \in {commits, commits + 1}, UNCHANGED tables
      PROVE  RInv' /\ Grows /\ UNCHANGED tables
  <2>1. Bounded'
    BY <1>4, BoundedSettle DEF RInv
  <2>2. \A d \in Clients : pending'[d] = pending[d] \/ pending'[d] = None
    BY <1>4 DEF RInv, TablesOK
  <2> QED BY <1>4, <2>1, <2>2, QuietStep DEF RInv, TablesOK
<1>5. ASSUME NEW c \in Clients, Capture(c) PROVE RInv' /\ Grows /\ UNCHANGED tables
  <2> DEFINE x == reading[c]
  <2>1. PICK r \in x.todo :
          LET got == [q \in (DOMAIN x.got) \union {r} |-> IF q = r THEN RevisionOf(r) ELSE x.got[q]]
          IN  \/ UNCHANGED pending
              \/ /\ Room
                 /\ pending' = [pending EXCEPT ![c] =
                       [table |-> "checkpoint", id |-> x.id, rev |-> x.row.rev,
                        row |-> [x.row EXCEPT !.state = "confirmed", !.basis = got]]]
    BY <1>5 DEF Capture
  <2>2. UNCHANGED tables /\ commits' = commits
    BY <1>5 DEF Capture, tables
  <2> HIDE DEF x
  <2> QED BY <1>2, <1>3, <2>1, <2>2 DEF projectVars, tables
<1>6. ASSUME NEW c \in Clients, NEW k, SupersedeCp(c, k) \/ ArchiveCp(c, k)
      PROVE  RInv' /\ Grows /\ UNCHANGED tables
  <2>1. PICK row : ChangeCp(c, k, row)
    BY <1>6 DEF SupersedeCp, ArchiveCp
  <2> QED BY <1>3, <2>1 DEF ChangeCp, Prepare, tables
<1>7. ASSUME NEW c \in Clients, CommitCp(c) \/ (Abandon(c) /\ UNCHANGED cpVars)
      PROVE  RInv' /\ Grows /\ UNCHANGED tables
  BY <1>4, <1>7 DEF CommitCp, Abandon, tables
<1>8. ASSUME NEW c \in Clients, NEW k,
             BeginConfirm(c, k) \/ BeginFreshness(c, k) \/ ReadLink(c) \/ Compare(c) \/ Leave(c)
      PROVE  RInv' /\ Grows /\ UNCHANGED tables
  BY <1>2, <1>8 DEF BeginConfirm, BeginFreshness, Start, ReadLink, Compare, Leave
<1> QED BY <1>1, <1>5, <1>6, <1>7, <1>8 DEF CpNext

LEMMA CheckpointsNextW ==
    RInv /\ [CheckpointsNext]_<<projectVars, cpVars>> => RInv' /\ Grows
<1> SUFFICES ASSUME RInv, [CheckpointsNext]_<<projectVars, cpVars>> PROVE RInv' /\ Grows
  OBVIOUS
<1>1. CASE [ProjectsNext]_projectVars /\ UNCHANGED cpVars
  BY <1>1, ProjectsNextR
<1> QED BY <1>1, CpNextW DEF CheckpointsNext

LEMMA InitW == CheckpointsInit => RInv
BY InitR DEF CheckpointsInit
-----------------------------------------------------------------------------
(* Functions whose domain is a part of a set. *)
LEMMA PartialIs ==
    ASSUME NEW S, NEW T, NEW f \in Partial(S, T)
    PROVE  /\ DOMAIN f \subseteq S /\ \A r \in DOMAIN f : f[r] \in T
           /\ f = [r \in DOMAIN f |-> f[r]]
BY DEF Partial

LEMMA PartialIn ==
    ASSUME NEW S, NEW T, NEW D \in SUBSET S, NEW f \in [D -> T]
    PROVE  f \in Partial(S, T)
BY DEF Partial

LEMMA PartialEmpty ==
    ASSUME NEW S, NEW T
    PROVE  DOMAIN <<>> = {} /\ <<>> \in Partial(S, T)
<1>1. DOMAIN <<>> = {} /\ <<>> \in [{} -> T]
  OBVIOUS
<1> QED BY <1>1, PartialIn

(* The records of a basis, and what a step of the writers does to them. *)
LEMMA StoredIs ==
    /\ \A w : Stored(<<"project", w>>) = project[w]
    /\ \A i : Stored(<<"item", i>>) = item[i]
    /\ \A d : Stored(<<"decision", d>>) = decision[d]
BY DEF Stored

Known(r) ==
    \/ \E w \in Projs : r = <<"project", w>>
    \/ \E i \in Items : r = <<"item", i>>
    \/ \E d \in Decisions : r = <<"decision", d>> /\ decision[d] # None

LEMMA KnownNumbered ==
    ASSUME RInv, NEW r, Known(r)
    PROVE  RevisionOf(r) \in Nat
<1>1. \A w \in Projs : project[w].rev \in Nat
  BY DEF RInv, TablesOK, ProjectRow
<1>2. \A i \in Items : item[i].rev \in Nat
  BY DEF RInv, TablesOK, ItemRow
<1>3. \A d \in Decisions : decision[d] # None => decision[d].rev \in Nat
  BY DEF RInv, TablesOK, DecisionRow
<1> QED BY <1>1, <1>2, <1>3, StoredIs DEF Known, RevisionOf

LEMMA KnownGrows ==
    ASSUME RInv, RInv', Grows, NEW r, Known(r)
    PROVE  /\ Known(r)' /\ RevisionOf(r) \in Nat /\ RevisionOf(r)' \in Nat
           /\ Stored(r)' = Stored(r) \/ RevisionOf(r) < RevisionOf(r)'
<1>1. Known(r)'
  BY DEF Known, Grows, RevisionsGrow
<1>2. CASE \E w \in Projs : r = <<"project", w>>
  <2>1. PICK w \in Projs : r = <<"project", w>>
    BY <1>2
  <2>2. Stored(r) = project[w] /\ Stored(r)' = project'[w]
    BY <2>1 DEF Stored
  <2>3. project[w].rev \in Nat /\ project'[w].rev \in Nat
    BY DEF RInv, TablesOK, ProjectRow
  <2> QED BY <1>1, <2>2, <2>3 DEF RevisionOf, Grows, RevisionsGrow, Grown
<1>3. CASE \E i \in Items : r = <<"item", i>>
  <2>1. PICK i \in Items : r = <<"item", i>>
    BY <1>3
  <2>2. Stored(r) = item[i] /\ Stored(r)' = item'[i]
    BY <2>1 DEF Stored
  <2>3. item[i].rev \in Nat /\ item'[i].rev \in Nat
    BY DEF RInv, TablesOK, ItemRow
  <2> QED BY <1>1, <2>2, <2>3 DEF RevisionOf, Grows, RevisionsGrow, Grown
<1>4. CASE \E d \in Decisions : r = <<"decision", d>> /\ decision[d] # None
  <2>1. PICK d \in Decisions : r = <<"decision", d>> /\ decision[d] # None
    BY <1>4
  <2>2. Stored(r) = decision[d] /\ Stored(r)' = decision'[d]
    BY <2>1 DEF Stored
  <2>3. decision'[d] = decision[d] \/ (decision'[d] # None /\ decision[d].rev < decision'[d].rev)
    BY <2>1 DEF Grows, RevisionsGrow, Grown
  <2>4. decision[d].rev \in Nat /\ decision'[d].rev \in Nat
    BY <2>1, <2>3 DEF RInv, TablesOK, DecisionRow
  <2> QED BY <1>1, <2>2, <2>3, <2>4 DEF RevisionOf
<1> QED BY <1>2, <1>3, <1>4 DEF Known

LEMMA BasisKnown ==
    ASSUME NEW row \in CpRow, \A d \in row.extra : decision[d] # None
    PROVE  \A r \in Basis(row) : Known(r) /\ r \in Refs
<1>1. DOMAIN row.roles \subseteq Items
  BY PartialIs DEF CpRow
<1> QED BY <1>1 DEF Basis, Known, CpRow, Refs

(* A dead link stays dead until its record gets a new revision. *)
LEMMA DeadStays ==
    ASSUME RInv, RInv', Grows, NEW row, NEW r, Known(r), ~LinkLive(row, r)
    PROVE  RevisionOf(r) < RevisionOf(r)' \/ ~LinkLive(row, r)'
<1> SUFFICES ASSUME Stored(r)' = Stored(r), LinkLive(row, r)' PROVE FALSE
  BY KnownGrows
<1>1. CASE \E w \in Projs : r = <<"project", w>>
  <2>1. PICK w \in Projs : r = <<"project", w>>
    BY <1>1
  <2>2. project'[w] = project[w] /\ ProjectReadable(w)'
    BY <2>1 DEF Stored, LinkLive
  <2>3. ProjectReadable(w)
    BY <2>2, StaysUnreadable DEF Grows
  <2> QED BY <2>1, <2>3 DEF LinkLive
<1>2. CASE \E i \in Items : r = <<"item", i>>
  <2>1. PICK i \in Items : r = <<"item", i>>
    BY <1>2
  <2>2. item'[i] = item[i]
    BY <2>1 DEF Stored
  <2> QED BY <2>1, <2>2 DEF LinkLive
<1>3. CASE \E d \in Decisions : r = <<"decision", d>> /\ decision[d] # None
  <2>1. PICK d \in Decisions : r = <<"decision", d>> /\ decision[d] # None
    BY <1>3
  <2>2. decision'[d] = decision[d]
    BY <2>1 DEF Stored
  <2> QED BY <2>1, <2>2 DEF LinkLive
<1> QED BY <1>1, <1>2, <1>3 DEF Known
-----------------------------------------------------------------------------
(* What a step does to a checkpoint: at most one transaction on it, which  *)
(* was prepared from this very row.                                        *)
CpGrows ==
    \A k \in Cps : cp[k] # None =>
       /\ \/ cp'[k] = cp[k]
          \/ cp'[k] # None /\ cp[k].rev < cp'[k].rev /\ CpChange(cp[k], cp'[k])
       /\ cp[k].state # "proposed" => moment'[k] = moment[k]

CpTyped == cp \in [Cps -> CpRow \union {None}]

LEMMA RowParts ==
    ASSUME NEW row \in CpRow
    PROVE  /\ row.rev \in Nat /\ row.extra \subseteq Decisions
           /\ \A r \in DOMAIN row.basis : row.basis[r] \in Nat
           /\ row.basis = [r \in DOMAIN row.basis |-> row.basis[r]]
<1>1. row.rev \in Nat /\ row.extra \subseteq Decisions /\ row.basis \in Partial(Refs, Nat)
  BY DEF CpRow
<1>2. ASSUME NEW S, NEW f \in Partial(S, Nat)
      PROVE  (\A r \in DOMAIN f : f[r] \in Nat) /\ f = [r \in DOMAIN f |-> f[r]]
  BY <1>2, PartialIs
<1> QED BY <1>1, <1>2

LEMMA RowBasis ==
    ASSUME NEW row, RowOK(row)
    PROVE  /\ row \in CpRow
           /\ \A r \in Basis(row) : Known(r) /\ r \in Refs
           /\ row.state # "proposed" =>
                 /\ DOMAIN row.basis = Basis(row)
                 /\ \A r \in Basis(row) : row.basis[r] \in Nat /\ row.basis[r] <= RevisionOf(r)
<1>1. row \in CpRow /\ \A d \in row.extra : decision[d] # None
  BY DEF RowOK
<1> QED BY <1>1, BasisKnown, RowParts DEF RowOK

LEMMA RowStays ==
    ASSUME RInv, RInv', Grows, NEW row, RowOK(row)
    PROVE  RowOK(row)'
<1>1. row \in CpRow /\ \A r \in Basis(row) : Known(r)
  BY RowBasis
<1>2. \A d \in row.extra : decision'[d] # None
  BY <1>1, RowParts DEF RowOK, Grows, RevisionsGrow
<1>3. \A r \in Basis(row) : RevisionOf(r) \in Nat /\ RevisionOf(r)' \in Nat /\ RevisionOf(r) <= RevisionOf(r)'
  <2>1. ASSUME NEW r \in Basis(row)
        PROVE  RevisionOf(r) \in Nat /\ RevisionOf(r)' \in Nat /\ RevisionOf(r) <= RevisionOf(r)'
    <3>1. Stored(r)' = Stored(r) => RevisionOf(r)' = RevisionOf(r)
      BY DEF RevisionOf
    <3> QED BY <1>1, <2>1, <3>1, KnownGrows
  <2> QED BY <2>1
<1>4. ASSUME row.state # "proposed", NEW r \in Basis(row) PROVE row.basis[r] <= RevisionOf(r)'
  BY <1>3, <1>4, RowBasis
<1> QED BY <1>1, <1>2, <1>4 DEF RowOK

(* A revision that is known does not fall. *)
LEMMA Rises ==
    ASSUME RInv, RInv', Grows, NEW r, Known(r)
    PROVE  RevisionOf(r) \in Nat /\ RevisionOf(r)' \in Nat /\ RevisionOf(r) <= RevisionOf(r)'
<1>1. Stored(r)' = Stored(r) => RevisionOf(r)' = RevisionOf(r)
  BY DEF RevisionOf
<1> QED BY <1>1, KnownGrows

LEMMA ConfirmedStays ==
    ASSUME RInv, RInv', Grows, NEW k, NEW row, RowOK(row), ConfirmedAt(k, row),
           moment'[k] = moment[k]
    PROVE  ConfirmedAt(k, row)'
<1>1. ASSUME NEW r \in Basis(row)
      PROVE  row.basis[r] <= moment'[k][r] /\ moment'[k][r] <= RevisionOf(r)'
  <2>1. moment[k][r] \in Nat /\ row.basis[r] <= moment[k][r] /\ moment[k][r] <= RevisionOf(r)
    BY DEF ConfirmedAt
  <2>2. Known(r)
    BY RowBasis
  <2> QED BY <2>1, <2>2, Rises
<1> QED BY <1>1 DEF ConfirmedAt

(* What made a checkpoint stale goes on doing so. *)
LEMMA LostStays ==
    ASSUME RInv, RInv', Grows, NEW row, RowOK(row), row.state # "proposed", Lost(row)
    PROVE  Lost(row)'
<1>1. PICK r \in Basis(row) : RevisionOf(r) # row.basis[r] \/ ~LinkLive(row, r)
  BY DEF Lost
<1>2. Known(r) /\ row.basis[r] \in Nat /\ row.basis[r] <= RevisionOf(r)
  BY RowBasis
<1>3. RevisionOf(r) \in Nat /\ RevisionOf(r)' \in Nat /\ RevisionOf(r) <= RevisionOf(r)'
  BY <1>2, Rises
<1>4. CASE RevisionOf(r) # row.basis[r]
  <2>1. RevisionOf(r)' # row.basis[r]
    BY <1>2, <1>3, <1>4
  <2> QED BY <2>1 DEF Lost
<1>5. CASE ~LinkLive(row, r)
  <2>1. RevisionOf(r) < RevisionOf(r)' \/ ~LinkLive(row, r)'
    BY <1>2, <1>5, DeadStays
  <2>2. RevisionOf(r)' # row.basis[r] \/ ~LinkLive(row, r)'
    BY <1>2, <1>3, <2>1
  <2> QED BY <2>2 DEF Lost
<1> QED BY <1>1, <1>4, <1>5

LEMMA SameBasis ==
    ASSUME NEW row, NEW new, SameWork(row, new)
    PROVE  /\ Basis(new) = Basis(row)
           /\ \A r : LinkLive(new, r) <=> LinkLive(row, r)
           /\ new.basis = row.basis => (Lost(new) <=> Lost(row))
<1>1. Basis(new) = Basis(row)
  BY DEF SameWork, Basis
<1>2. \A r : LinkLive(new, r) <=> LinkLive(row, r)
  BY DEF SameWork, LinkLive
<1> QED BY <1>1, <1>2 DEF Lost

LEMMA CpStays ==
    ASSUME RInv, RInv', Grows, NEW k, CpOK(k), cp'[k] = cp[k], moment'[k] = moment[k],
           k \in stale' => k \in stale
    PROVE  CpOK(k)'
<1>1. PICK row : row = cp[k]
  OBVIOUS
<1>2. CASE row = None
  BY <1>1, <1>2 DEF CpOK
<1>3. CASE row # None
  <2>1. RowOK(row) /\ (row.state # "proposed" => ConfirmedAt(k, row))
        /\ (k \in stale => row.state # "proposed" /\ Lost(row))
    BY <1>1, <1>3 DEF CpOK
  <2>2. RowOK(row)'
    BY <2>1, RowStays
  <2>3. row.state # "proposed" => ConfirmedAt(k, row)'
    BY <2>1, ConfirmedStays
  <2>4. k \in stale' => row.state # "proposed" /\ Lost(row)'
    BY <2>1, LostStays
  <2> QED BY <1>1, <1>3, <2>2, <2>3, <2>4 DEF CpOK
<1> QED BY <1>2, <1>3

LEMMA CpWriteStays ==
    ASSUME RInv, RInv', Grows, CpGrows, CpTyped, CpTyped', NEW w, CpWrite(w)
    PROVE  CpWrite(w)'
<1> SUFFICES ASSUME w.table = "checkpoint" PROVE CpWrite(w)'
  BY DEF CpWrite
<1>1. /\ w.id \in Cps /\ cp[w.id] # None /\ RowOK(w.row) /\ w.rev \in Nat
      /\ w.rev <= cp[w.id].rev
  BY DEF CpWrite
<1>2. RowOK(w.row)'
  BY <1>1, RowStays
<1>3. /\ cp'[w.id] # None
      /\ cp'[w.id] = cp[w.id] \/ cp[w.id].rev < cp'[w.id].rev
  BY <1>1 DEF CpGrows
<1>4. cp[w.id].rev \in Nat /\ cp'[w.id].rev \in Nat
  BY <1>1, <1>3, RowParts DEF CpTyped
<1>5. w.rev <= cp'[w.id].rev /\ (w.rev = cp'[w.id].rev => cp'[w.id] = cp[w.id])
  BY <1>1, <1>3, <1>4
<1>6. w.rev = cp'[w.id].rev => CpChange(cp'[w.id], w.row)
  BY <1>5 DEF CpWrite
<1> QED BY <1>1, <1>2, <1>3, <1>5, <1>6 DEF CpWrite, CpChange, SameWork

LEMMA WitnessStays ==
    ASSUME RInv, RInv', Grows, NEW x, RowOK(x.row), x.began \in [Basis(x.row) -> Nat],
           \A r \in Basis(x.row) : x.began[r] <= RevisionOf(r), Witnessed(x)
    PROVE  Witnessed(x)'
<1>1. PICK r \in Basis(x.row) :
         \/ RevisionOf(r) > x.began[r]
         \/ x.began[r] > x.row.basis[r] /\ x.phase = "revisions" /\ r \in x.todo
         \/ ~LinkLive(x.row, r) /\ (x.phase = "links" => r \in x.todo)
  BY DEF Witnessed
<1>2. Known(r) /\ x.began[r] \in Nat /\ x.began[r] <= RevisionOf(r)
  BY RowBasis
<1>3. RevisionOf(r) \in Nat /\ RevisionOf(r)' \in Nat /\ RevisionOf(r) <= RevisionOf(r)'
  BY <1>2, Rises
<1>4. ~LinkLive(x.row, r) => RevisionOf(r) < RevisionOf(r)' \/ ~LinkLive(x.row, r)'
  BY <1>2, DeadStays
<1>5. \/ RevisionOf(r)' > x.began[r]
      \/ x.began[r] > x.row.basis[r] /\ x.phase = "revisions" /\ r \in x.todo
      \/ ~LinkLive(x.row, r)' /\ (x.phase = "links" => r \in x.todo)
  BY <1>1, <1>2, <1>3, <1>4
<1> QED BY <1>5 DEF Witnessed

LEMMA WalkStays ==
    ASSUME RInv, RInv', Grows, CpGrows, CpTyped, CpTyped', NEW x, WalkOK(x)
    PROVE  WalkOK(x)'
<1>1. x \in Walk /\ RowOK(x.row) /\ cp[x.id] # None /\ x.id \in Cps /\ x.row \in CpRow
  BY DEF WalkOK, Walk
<1>2. RowOK(x.row)' /\ \A r \in Basis(x.row) : Known(r)
  BY <1>1, RowStays, RowBasis
<1>3. /\ cp'[x.id] # None
      /\ \/ cp'[x.id] = cp[x.id]
         \/ cp[x.id].rev < cp'[x.id].rev /\ CpChange(cp[x.id], cp'[x.id])
      /\ cp[x.id].state # "proposed" => moment'[x.id] = moment[x.id]
  BY <1>1 DEF CpGrows
<1>4. cp[x.id].rev \in Nat /\ cp'[x.id].rev \in Nat /\ x.row.rev \in Nat
  BY <1>1, <1>3, RowParts DEF CpTyped
<1>5. /\ x.row.rev <= cp'[x.id].rev
      /\ x.row.rev = cp'[x.id].rev => x.row = cp'[x.id]
  BY <1>3, <1>4 DEF WalkOK
<1>6. \A r \in Basis(x.row) : /\ RevisionOf(r) \in Nat /\ RevisionOf(r)' \in Nat
                              /\ RevisionOf(r) <= RevisionOf(r)'
  BY <1>2, Rises
<1>7. ASSUME x.op = "confirm" PROVE Confirming(x)'
  <2>1. Confirming(x)
    BY <1>7 DEF WalkOK
  <2>2. \A r \in DOMAIN x.got : r \in Basis(x.row)
    BY <2>1 DEF Confirming
  <2>3. \A r \in DOMAIN x.got : x.got[r] \in Nat
    <3>1. x.got \in Partial(Refs, Nat)
      BY <1>1 DEF Walk
    <3>2. ASSUME NEW f \in Partial(Refs, Nat) PROVE \A r \in DOMAIN f : f[r] \in Nat
      BY <3>2, PartialIs
    <3> QED BY <3>1, <3>2
  <2>4. \A r \in DOMAIN x.got : x.got[r] <= RevisionOf(r)'
    BY <1>6, <2>1, <2>2, <2>3 DEF Confirming
  <2> QED BY <2>1, <2>4 DEF Confirming
<1>8. ASSUME x.op # "confirm" PROVE Freshening(x)'
  <2>1. Freshening(x)
    BY <1>8 DEF WalkOK
  <2>2. /\ cp'[x.id].state # "proposed" /\ SameWork(x.row, cp'[x.id])
        /\ cp'[x.id].basis = x.row.basis /\ moment'[x.id] = moment[x.id]
    BY <1>3, <2>1 DEF Freshening, CpChange, SameWork
  <2>3. ConfirmedAt(x.id, x.row)'
    BY <1>1, <2>1, <2>2, ConfirmedStays DEF Freshening
  <2>4. x.phase \in {"revisions", "links"} =>
          /\ x.began \in [Basis(x.row) -> Nat]
          /\ \A r \in Basis(x.row) : x.row.basis[r] <= x.began[r] /\ x.began[r] <= RevisionOf(r)'
          /\ x.after => Witnessed(x)'
    <3>1. SUFFICES ASSUME x.phase \in {"revisions", "links"}
                   PROVE  /\ x.began \in [Basis(x.row) -> Nat]
                          /\ \A r \in Basis(x.row) : /\ x.row.basis[r] <= x.began[r]
                                                     /\ x.began[r] <= RevisionOf(r)'
                          /\ x.after => Witnessed(x)'
      OBVIOUS
    <3>2. /\ x.began \in [Basis(x.row) -> Nat]
          /\ \A r \in Basis(x.row) : x.row.basis[r] <= x.began[r] /\ x.began[r] <= RevisionOf(r)
          /\ x.after => Witnessed(x)
      BY <2>1, <3>1 DEF Freshening
    <3>3. \A r \in Basis(x.row) : x.began[r] <= RevisionOf(r)'
      BY <1>6, <3>2
    <3>4. x.after => Witnessed(x)'
      BY <1>1, <3>2, WitnessStays
    <3> QED BY <3>2, <3>3, <3>4
  <2> QED BY <2>1, <2>2, <2>3, <2>4 DEF Freshening, SameWork
<1> QED BY <1>1, <1>2, <1>3, <1>5, <1>7, <1>8 DEF WalkOK

(* What a step has to show. *)
LEMMA CpStep ==
    ASSUME CpInv, RInv', Grows, CpGrows, CpTyped', DOMAIN moment' = Cps, stale' \subseteq Cps,
           DOMAIN reading' = Clients,
           \A k \in Cps : \/ /\ cp'[k] = cp[k] /\ moment'[k] = moment[k]
                             /\ k \in stale' => k \in stale
                          \/ CpOK(k)',
           \A c \in Clients : pending'[c] # None => pending'[c] = pending[c] \/ CpWrite(pending'[c]),
           \A c \in Clients : reading'[c] # None => reading'[c] = reading[c] \/ WalkOK(reading'[c])
    PROVE  CpInv'
<1>1. RInv /\ CpTyped
  BY DEF CpInv, CpTyped
<1>2. \A k \in Cps : CpOK(k)'
  BY <1>1, CpStays DEF CpInv
<1>3. ASSUME NEW c \in Clients, pending'[c] # None PROVE CpWrite(pending[c])'
  <2>1. PICK v : v = pending'[c]
    OBVIOUS
  <2>2. CpWrite(v)
    BY <1>3, <2>1 DEF CpInv
  <2> QED BY <1>1, <2>1, <2>2, CpWriteStays
<1>4. ASSUME NEW c \in Clients, reading'[c] # None PROVE WalkOK(reading[c])'
  <2>1. PICK v : v = reading'[c]
    OBVIOUS
  <2>2. WalkOK(v)
    BY <1>4, <2>1 DEF CpInv
  <2> QED BY <1>1, <2>1, <2>2, WalkStays
<1> QED BY <1>2, <1>3, <1>4 DEF CpInv, CpTyped

LEMMA InitCp == CheckpointsInit => CpInv
<1> SUFFICES ASSUME CheckpointsInit PROVE CpInv
  OBVIOUS
<1>1. RInv
  BY InitW
<1> QED BY <1>1 DEF CheckpointsInit, ProjectsInit, CpInit, CpInv, CpOK
-----------------------------------------------------------------------------
(* The steps.                                                              *)
LEMMA CpElsewhere ==
    ASSUME CpInv, RInv', Grows, UNCHANGED <<cp, moment, stale, reading>>,
           \A c \in Clients : pending'[c] # None =>
                                pending'[c] = pending[c] \/ pending'[c].table # "checkpoint"
    PROVE  CpInv'
<1>1. CpGrows
  BY DEF CpGrows
<1>2. \A c \in Clients : pending'[c] # None => pending'[c] = pending[c] \/ CpWrite(pending'[c])
  BY DEF CpWrite
<1> QED BY <1>1, <1>2, CpStep DEF CpInv, CpTyped

LEMMA ProposeCp ==
    ASSUME CpInv, RInv', Grows, NEW k \in Unused(cp), NEW w \in Projs, NEW l \in Layouts,
           NEW secret \in BOOLEAN, Propose(k, w, l, secret)
    PROVE  CpInv'
<1> DEFINE row == [project |-> w, roles |-> l.roles, extra |-> l.extra,
                   state |-> "proposed", basis |-> <<>>, active |-> TRUE, secret |-> secret,
                   dated |-> TRUE, rev |-> 1]
<1>1. k \in Cps /\ cp[k] = None /\ DOMAIN cp = Cps
  BY DEF Unused, CpInv
<1>2. row \in CpRow /\ row # None
  <2>1. l.roles \in Partial(Items, DOMAIN RoleStatus) /\ l.extra \in SUBSET Decisions
    BY CheckpointsAssumption
  <2>2. <<>> \in Partial(Refs, Nat)
    BY PartialEmpty
  <2>3. row \in CpRow
    BY <2>1, <2>2 DEF CpRow, Confirmations
  <2> QED BY <2>3, CheckpointsAssumption
<1>3. /\ cp' = [cp EXCEPT ![k] = row]
      /\ \A d \in row.extra : decision[d] # None
      /\ UNCHANGED <<decision, pending, moment, stale, reading>>
  BY DEF Propose
<1>4. row.state = "proposed" /\ DOMAIN row.basis = {}
  BY PartialEmpty
<1> HIDE DEF row
<1>5. RowOK(row)'
  BY <1>2, <1>3, <1>4 DEF RowOK
<1>6. cp'[k] = row /\ k \notin stale
  BY <1>1, <1>3 DEF CpInv, CpOK
<1>7. CpOK(k)'
  BY <1>3, <1>4, <1>5, <1>6 DEF CpOK
<1>8. \A j \in Cps \ {k} : cp'[j] = cp[j]
  BY <1>1, <1>3
<1>9. CpTyped' /\ CpGrows
  <2>1. CpTyped'
    BY <1>1, <1>2, <1>3 DEF CpInv, CpTyped
  <2> QED BY <2>1, <1>1, <1>3, <1>8 DEF CpGrows
<1> QED BY <1>3, <1>7, <1>8, <1>9, CpStep DEF CpInv

(* A client that only goes on in its walk. *)
LEMMA WalkStep ==
    ASSUME CpInv, RInv', Grows, UNCHANGED <<pending, cp, moment>>, NEW c \in Clients, NEW v,
           reading' = [reading EXCEPT ![c] = v], v = None \/ WalkOK(v),
           \/ stale' = stale
           \/ /\ WalkOK(v) /\ stale' = stale \union {v.id} /\ v.op = "freshness"
              /\ Lost(v.row)
    PROVE  CpInv'
<1>1. CpGrows /\ CpTyped' /\ CpTyped
  BY DEF CpGrows, CpInv, CpTyped
<1>2. \A d \in Clients : reading'[d] # None => reading'[d] = reading[d] \/ WalkOK(reading'[d])
  BY DEF CpInv
<1>3. CASE stale' = stale
  BY <1>1, <1>2, <1>3, CpStep DEF CpInv
<1>4. CASE WalkOK(v) /\ stale' = stale \union {v.id} /\ v.op = "freshness" /\ Lost(v.row)
  <2>1. v.id \in Cps /\ Freshening(v) /\ cp[v.id] # None
    BY <1>4 DEF WalkOK, Walk
  <2>2. /\ cp[v.id].state # "proposed" /\ SameWork(v.row, cp[v.id])
        /\ cp[v.id].basis = v.row.basis
    BY <2>1 DEF Freshening
  <2>3. PICK row : row = cp[v.id]
    OBVIOUS
  <2>4. CpOK(v.id) /\ Lost(row)
    BY <1>4, <2>1, <2>2, <2>3, SameBasis DEF CpInv
  <2>5. CpOK(v.id)'
    <3>1. RowOK(row) /\ ConfirmedAt(v.id, row)
      BY <2>1, <2>2, <2>3, <2>4 DEF CpOK
    <3>2. RowOK(row)' /\ ConfirmedAt(v.id, row)' /\ Lost(row)'
      BY <2>2, <2>3, <2>4, <3>1, RowStays, ConfirmedStays, LostStays DEF CpInv
    <3>3. cp'[v.id] = row /\ row # None /\ row.state # "proposed"
      BY <2>1, <2>2, <2>3
    <3> QED BY <3>2, <3>3 DEF CpOK
  <2>6. \A k \in Cps : \/ cp'[k] = cp[k] /\ moment'[k] = moment[k] /\ (k \in stale' => k \in stale)
                       \/ CpOK(k)'
    BY <1>4, <2>5
  <2>7. stale' \subseteq Cps /\ DOMAIN reading' = Clients /\ DOMAIN moment' = Cps
    BY <1>4, <2>1 DEF CpInv
  <2> QED BY <1>1, <1>2, <2>6, <2>7, CpStep DEF CpInv
<1> QED BY <1>3, <1>4

LEMMA WalkFields ==
    ASSUME NEW x \in Walk
    PROVE  /\ x.id \in Cps /\ x.row \in CpRow /\ x.todo \subseteq Refs
           /\ x.op \in {"confirm", "freshness"} /\ x.after \in BOOLEAN
           /\ x.began \in Partial(Refs, Nat) /\ x.got \in Partial(Refs, Nat)
           /\ \A r \in DOMAIN x.began : x.began[r] \in Nat
           /\ x.began = [r \in DOMAIN x.began |-> x.began[r]]
           /\ \A r \in DOMAIN x.got : x.got[r] \in Nat
<1>1. /\ x.id \in Cps /\ x.row \in CpRow /\ x.todo \subseteq Refs
      /\ x.op \in {"confirm", "freshness"} /\ x.after \in BOOLEAN
      /\ x.began \in Partial(Refs, Nat) /\ x.got \in Partial(Refs, Nat)
  BY DEF Walk
<1>2. ASSUME NEW f \in Partial(Refs, Nat)
      PROVE  (\A r \in DOMAIN f : f[r] \in Nat) /\ f = [r \in DOMAIN f |-> f[r]]
  BY <1>2, PartialIs
<1> QED BY <1>1, <1>2

LEMMA StartCp ==
    ASSUME CpInv, RInv', Grows, NEW c \in Clients, NEW k \in Existing(cp),
           BeginConfirm(c, k) \/ BeginFreshness(c, k)
    PROVE  CpInv'
<1> DEFINE row == cp[k]
<1>1. k \in Cps /\ row # None /\ RowOK(row) /\ (row.state # "proposed" => ConfirmedAt(k, row))
      /\ (k \in stale => Lost(row))
  BY DEF Existing, CpInv, CpOK
<1>2. PICK op, phase :
        /\ Start(c, k, op, phase)
        /\ \/ op = "confirm" /\ phase = "links" /\ row.state = "proposed" /\ row.active
           \/ op = "freshness" /\ phase = "revisions" /\ row.state = "confirmed"
  BY DEF BeginConfirm, BeginFreshness
<1> DEFINE v == [op |-> op, id |-> k, row |-> row, phase |-> phase, todo |-> Basis(row),
                 got |-> <<>>, after |-> k \in stale, began |-> Revisions(Basis(row)),
                 moved |-> FALSE]
<1>3. reading' = [reading EXCEPT ![c] = v] /\ UNCHANGED <<pending, cp, moment, stale>>
  BY <1>2 DEF Start, projectVars
<1>4. row \in CpRow /\ \A r \in Basis(row) : Known(r) /\ r \in Refs /\ RevisionOf(r) \in Nat
  BY <1>1, RowBasis, KnownNumbered DEF CpInv
<1>5. /\ Revisions(Basis(row)) \in [Basis(row) -> Nat]
      /\ \A r \in Basis(row) : Revisions(Basis(row))[r] = RevisionOf(r)
  BY <1>4 DEF Revisions
<1>6. Revisions(Basis(row)) \in Partial(Refs, Nat) /\ <<>> \in Partial(Refs, Nat) /\ DOMAIN <<>> = {}
  BY <1>4, <1>5, PartialIn, PartialEmpty
<1>7. /\ v.op = op /\ v.id = k /\ v.row = row /\ v.phase = phase /\ v.todo = Basis(row)
      /\ v.got = <<>> /\ v.after = (k \in stale) /\ v.began = Revisions(Basis(row))
  OBVIOUS
<1>8. v \in Walk
  BY <1>1, <1>2, <1>4, <1>6 DEF Walk
<1> HIDE DEF v
<1>9. ASSUME op = "confirm" PROVE Confirming(v)
  BY <1>2, <1>6, <1>7, <1>9 DEF Confirming
<1>10. ASSUME op # "confirm" PROVE Freshening(v)
  <2>1. /\ op = "freshness" /\ phase = "revisions" /\ row.state = "confirmed"
        /\ ConfirmedAt(k, row)
    BY <1>1, <1>2, <1>10
  <2>2. \A r \in Basis(row) : row.basis[r] \in Nat /\ row.basis[r] <= RevisionOf(r)
    BY <1>1, <2>1, RowBasis
  <2>3. ASSUME k \in stale PROVE Witnessed(v)
    <3>1. PICK r \in Basis(row) : RevisionOf(r) # row.basis[r] \/ ~LinkLive(row, r)
      BY <1>1, <2>3 DEF Lost
    <3>2. CASE RevisionOf(r) # row.basis[r]
      <4>1. v.began[r] > row.basis[r]
        BY <1>4, <1>5, <1>7, <2>2, <3>2
      <4> QED BY <1>7, <2>1, <4>1 DEF Witnessed
    <3>3. CASE ~LinkLive(row, r)
      BY <1>7, <2>1, <3>3 DEF Witnessed
    <3> QED BY <3>1, <3>2, <3>3
  <2>4. /\ v.began \in [Basis(row) -> Nat]
        /\ \A r \in Basis(row) : row.basis[r] <= v.began[r] /\ v.began[r] <= RevisionOf(r)
    BY <1>4, <1>5, <1>7, <2>2
  <2> HIDE DEF row
  <2>5. SameWork(row, cp[k]) /\ cp[k].basis = row.basis /\ cp[k].state # "proposed"
    <3>1. row = cp[k]
      BY DEF row
    <3> QED BY <2>1, <3>1 DEF SameWork
  <2> QED BY <1>7, <2>1, <2>3, <2>4, <2>5 DEF Freshening
<1>11. WalkOK(v)
  <2>1. row.rev <= row.rev
    <3>1. row.rev \in Nat
      BY <1>4 DEF CpRow
    <3> QED BY <3>1
  <2>2. cp[v.id] = v.row /\ v.row = row
    BY <1>7
  <2>3. op = "confirm" => Confirming(v)
    BY <1>9
  <2>4. op # "confirm" => Freshening(v)
    BY <1>10
  <2> HIDE DEF row
  <2> QED BY <1>1, <1>7, <1>8, <2>1, <2>2, <2>3, <2>4 DEF WalkOK
<1> QED BY <1>3, <1>11, WalkStep

(* The answer of a reading. *)
LEMMA AnswerCp ==
    ASSUME CpInv, RInv', Grows, UNCHANGED <<pending, cp, moment>>, NEW c \in Clients, reading[c] # None,
           NEW verdict \in {"current", "stale"}, Answer(c, verdict),
           reading[c].op = "freshness",
           verdict = "stale" => Lost(reading[c].row),
           verdict = "current" =>
              /\ reading[c].row.basis = moment[reading[c].id]
              /\ reading[c].after => Revisions(Basis(reading[c].row)) # reading[c].began
    PROVE  CpInv'
<1>1. PICK x : x = reading[c] /\ WalkOK(x)
  BY DEF CpInv
<1>2. x \in Walk /\ x.op = "freshness" /\ Freshening(x)
  BY <1>1 DEF WalkOK
<1> DEFINE moved == Revisions(Basis(x.row)) # x.began
           v == [x EXCEPT !.phase = verdict, !.todo = {}, !.moved = moved]
<1>3. /\ v.op = x.op /\ v.id = x.id /\ v.row = x.row /\ v.phase = verdict /\ v.todo = {}
      /\ v.after = x.after /\ v.moved = moved
  BY <1>2 DEF Walk
<1>4. v \in Walk
  BY <1>2 DEF Walk
<1>5. /\ reading' = [reading EXCEPT ![c] = v]
      /\ stale' = IF verdict = "stale" THEN stale \union {v.id} ELSE stale
  BY <1>1, <1>3 DEF Answer
<1>6. verdict = "current" => v.row.basis = moment[v.id] /\ (v.after => v.moved)
  BY <1>1, <1>3
<1> HIDE DEF v, moved
<1>7. Freshening(v)
  BY <1>2, <1>3, <1>6 DEF Freshening, ConfirmedAt
<1>8. WalkOK(v)
  BY <1>1, <1>2, <1>3, <1>4, <1>7 DEF WalkOK
<1> QED BY <1>1, <1>2, <1>3, <1>5, <1>8, WalkStep
LEMMA ReadLinkCp ==
    ASSUME CpInv, RInv', Grows, NEW c \in Clients, ReadLink(c)
    PROVE  CpInv'
<1>1. PICK x : x = reading[c] /\ WalkOK(x) /\ reading[c] # None /\ x.phase = "links"
  BY DEF ReadLink, CpInv
<1>2. x \in Walk /\ RowOK(x.row) /\ x.todo \subseteq Basis(x.row)
  BY <1>1 DEF WalkOK
<1>3. /\ x.op = "confirm" => Confirming(x)
      /\ x.op # "confirm" => x.op = "freshness" /\ Freshening(x)
  BY <1>1, <1>2, WalkFields DEF WalkOK
<1>4. UNCHANGED <<pending, cp, moment>>
  BY DEF ReadLink, Finish, Answer, projectVars
<1>5. PICK r \in x.todo :
        IF ~LinkLive(x.row, r) THEN IF x.op = "confirm" THEN Finish(c) ELSE Answer(c, "stale")
        ELSE IF x.todo # {r} THEN
           reading' = [reading EXCEPT ![c].todo = @ \ {r}] /\ UNCHANGED <<moment, stale>>
        ELSE IF x.op = "freshness" THEN Answer(c, "current")
        ELSE /\ reading' = [reading EXCEPT ![c].phase = "capture", ![c].todo = Basis(x.row)]
             /\ UNCHANGED <<moment, stale>>
  BY <1>1 DEF ReadLink, NextLinks
<1>6. CASE ~LinkLive(x.row, r) /\ x.op = "confirm"
  <2>1. reading' = [reading EXCEPT ![c] = None] /\ stale' = stale
    BY <1>5, <1>6 DEF Finish
  <2> QED BY <1>4, <2>1, WalkStep
<1>7. CASE ~LinkLive(x.row, r) /\ x.op # "confirm"
  <2>1. Lost(x.row)
    BY <1>2, <1>7 DEF Lost
  <2>2. Answer(c, "stale") /\ x.op = "freshness"
    BY <1>3, <1>5, <1>7
  <2> QED BY <1>1, <1>4, <2>1, <2>2, AnswerCp
<1>8. CASE LinkLive(x.row, r) /\ x.todo # {r}
  <2> DEFINE v == [x EXCEPT !.todo = @ \ {r}]
  <2>1. reading' = [reading EXCEPT ![c] = v] /\ stale' = stale
    BY <1>1, <1>5, <1>8
  <2>2. /\ v.op = x.op /\ v.id = x.id /\ v.row = x.row /\ v.phase = "links" /\ v.todo = x.todo \ {r}
        /\ v.got = x.got /\ v.after = x.after /\ v.began = x.began /\ v.moved = x.moved
    BY <1>1, <1>2 DEF Walk
  <2>3. v \in Walk
    BY <1>2 DEF Walk
  <2> HIDE DEF v
  <2>4. x.op = "confirm" => Confirming(v)
    BY <1>1, <1>3, <2>2 DEF Confirming
  <2>5. Witnessed(x) => Witnessed(v)
    BY <1>1, <1>8, <2>2 DEF Witnessed
  <2>6. x.op # "confirm" => Freshening(v)
    BY <1>1, <1>3, <2>2, <2>5 DEF Freshening, ConfirmedAt
  <2>7. WalkOK(v)
    BY <1>1, <2>2, <2>3, <2>4, <2>6 DEF WalkOK
  <2> QED BY <1>4, <2>1, <2>7, WalkStep
<1>9. CASE LinkLive(x.row, r) /\ x.todo = {r} /\ x.op = "freshness"
  <2>1. Answer(c, "current")
    BY <1>5, <1>9
  <2>2. x.row.basis = moment[x.id] /\ x.began \in [Basis(x.row) -> Nat] /\ (x.after => Witnessed(x))
    BY <1>1, <1>3, <1>9 DEF Freshening
  <2>3. ASSUME x.after PROVE Revisions(Basis(x.row)) # x.began
    <3>1. PICK q \in Basis(x.row) : RevisionOf(q) > x.began[q]
      BY <1>1, <1>9, <2>2, <2>3 DEF Witnessed
    <3>2. x.began[q] \in Nat /\ RevisionOf(q) \in Nat
      <4>1. Known(q)
        BY <1>2, RowBasis
      <4> QED BY <2>2, <4>1, KnownNumbered DEF CpInv
    <3>3. Revisions(Basis(x.row))[q] = RevisionOf(q)
      BY DEF Revisions
    <3> QED BY <3>1, <3>2, <3>3
  <2> QED BY <1>1, <1>4, <1>9, <2>1, <2>2, <2>3, AnswerCp
<1>10. CASE LinkLive(x.row, r) /\ x.todo = {r} /\ x.op # "freshness"
  <2> DEFINE v == [x EXCEPT !.phase = "capture", !.todo = Basis(x.row)]
  <2>1. reading' = [reading EXCEPT ![c] = v] /\ stale' = stale
    BY <1>1, <1>5, <1>10
  <2>2. /\ v.op = x.op /\ v.id = x.id /\ v.row = x.row /\ v.phase = "capture"
        /\ v.todo = Basis(x.row) /\ v.got = x.got
    BY <1>1, <1>2 DEF Walk
  <2>3. Basis(x.row) \subseteq Refs
    BY <1>2, RowBasis
  <2>4. v \in Walk
    BY <1>2, <2>3 DEF Walk
  <2> HIDE DEF v
  <2>5. x.op = "confirm"
    BY <1>3, <1>10
  <2>6. Confirming(v)
    BY <1>1, <1>3, <2>2, <2>5 DEF Confirming
  <2>7. WalkOK(v)
    BY <1>1, <2>2, <2>4, <2>5, <2>6 DEF WalkOK
  <2> QED BY <1>4, <2>1, <2>7, WalkStep
<1> QED BY <1>6, <1>7, <1>8, <1>9, <1>10

LEMMA CompareCp ==
    ASSUME CpInv, RInv', Grows, NEW c \in Clients, Compare(c)
    PROVE  CpInv'
<1>1. PICK x : x = reading[c] /\ WalkOK(x) /\ reading[c] # None /\ x.phase = "revisions"
  BY DEF Compare, CpInv
<1>2. x \in Walk /\ RowOK(x.row) /\ x.todo \subseteq Basis(x.row)
  BY <1>1 DEF WalkOK
<1>3. x.op = "freshness" /\ x.op # "confirm" /\ Freshening(x)
  BY <1>1, <1>2, WalkFields DEF WalkOK, Confirming
<1>4. UNCHANGED <<pending, cp, moment>>
  BY DEF Compare, Answer, projectVars
<1>5. PICK r \in x.todo :
        IF ~SameRevision(x.row, r) THEN Answer(c, "stale")
        ELSE /\ reading' = IF x.todo # {r} THEN [reading EXCEPT ![c].todo = @ \ {r}]
                           ELSE [reading EXCEPT ![c].phase = "links", ![c].todo = Basis(x.row)]
             /\ UNCHANGED <<moment, stale>>
  BY <1>1 DEF Compare
<1>6. CASE ~SameRevision(x.row, r)
  <2>1. Lost(x.row)
    BY <1>2, <1>6 DEF Lost, SameRevision
  <2> QED BY <1>1, <1>3, <1>4, <1>5, <1>6, <2>1, AnswerCp
<1>7. CASE SameRevision(x.row, r)
  <2> DEFINE last == x.todo = {r}
             v == [x EXCEPT !.phase = IF last THEN "links" ELSE "revisions",
                            !.todo = IF last THEN Basis(x.row) ELSE x.todo \ {r}]
  <2>1. reading' = [reading EXCEPT ![c] = v] /\ stale' = stale
    <3>1. CASE last
      BY <1>1, <1>2, <1>5, <1>7, <3>1 DEF Walk
    <3>2. CASE ~last
      <4>1. v = [x EXCEPT !.todo = x.todo \ {r}]
        BY <1>1, <1>2, <3>2 DEF Walk
      <4>2. reading' = [reading EXCEPT ![c] = [x EXCEPT !.todo = x.todo \ {r}]] /\ stale' = stale
        BY <1>1, <1>5, <1>7, <3>2
      <4> QED BY <4>1, <4>2
    <3> QED BY <3>1, <3>2
  <2>2. /\ v.op = x.op /\ v.id = x.id /\ v.row = x.row /\ v.got = x.got /\ v.after = x.after
        /\ v.began = x.began /\ v.moved = x.moved
        /\ v.phase = (IF last THEN "links" ELSE "revisions")
        /\ v.todo = IF last THEN Basis(x.row) ELSE x.todo \ {r}
    BY <1>1, <1>2 DEF Walk
  <2>3. Basis(x.row) \subseteq Refs
    BY <1>2, RowBasis
  <2>4. v \in Walk
    BY <1>2, <2>3 DEF Walk
  <2> HIDE DEF v
  <2>5. /\ ConfirmedAt(x.id, x.row) /\ x.began \in [Basis(x.row) -> Nat]
        /\ \A q \in Basis(x.row) : x.row.basis[q] <= x.began[q] /\ x.began[q] <= RevisionOf(q)
        /\ x.after => Witnessed(x)
        /\ \A q \in Basis(x.row) \ x.todo : x.row.basis[q] = moment[x.id][q]
    BY <1>1, <1>3 DEF Freshening
  <2>6. \A q \in Basis(x.row) : x.row.basis[q] \in Nat /\ RevisionOf(q) \in Nat
    <3>1. x.row.state # "proposed"
      BY <1>3 DEF Freshening
    <3> QED BY <1>2, <3>1, RowBasis, KnownNumbered DEF CpInv
  <2>7. r \in Basis(x.row) /\ x.row.basis[r] = RevisionOf(r)
    BY <1>2, <1>7 DEF SameRevision
  <2>8. x.row.basis[r] = moment[x.id][r] /\ ~(x.began[r] > x.row.basis[r])
    BY <2>5, <2>6, <2>7 DEF ConfirmedAt
  <2>9. x.after => Witnessed(v)
    <3>1. ASSUME Witnessed(x) PROVE Witnessed(v)
      <4>1. PICK q \in Basis(x.row) :
              \/ RevisionOf(q) > x.began[q]
              \/ x.began[q] > x.row.basis[q] /\ x.phase = "revisions" /\ q \in x.todo
              \/ ~LinkLive(x.row, q) /\ (x.phase = "links" => q \in x.todo)
        BY <3>1 DEF Witnessed
      <4>2. CASE RevisionOf(q) > x.began[q]
        BY <2>2, <4>1, <4>2 DEF Witnessed
      <4>3. CASE x.began[q] > x.row.basis[q] /\ q \in x.todo
        <5>1. q # r /\ ~last /\ q \in x.todo \ {r}
          BY <2>8, <4>3
        <5> QED BY <2>2, <4>1, <4>3, <5>1 DEF Witnessed
      <4>4. CASE ~LinkLive(x.row, q)
        BY <2>2, <4>1, <4>4 DEF Witnessed
      <4> QED BY <4>1, <4>2, <4>3, <4>4
    <3> QED BY <2>5, <3>1
  <2>10. last => x.row.basis = moment[x.id]
    <3>1. SUFFICES ASSUME last PROVE x.row.basis = moment[x.id]
      OBVIOUS
    <3>2. \A q \in Basis(x.row) : x.row.basis[q] = moment[x.id][q]
      BY <2>5, <2>8, <3>1
    <3>3. /\ DOMAIN x.row.basis = Basis(x.row)
          /\ x.row.basis = [q \in DOMAIN x.row.basis |-> x.row.basis[q]]
      BY <1>2, <1>3, RowBasis, RowParts DEF Freshening
    <3>4. moment[x.id] \in [Basis(x.row) -> Nat]
      BY <2>5 DEF ConfirmedAt
    <3> QED BY <3>2, <3>3, <3>4
  <2>11. ~last => \A q \in Basis(x.row) \ v.todo : x.row.basis[q] = moment[x.id][q]
    BY <2>2, <2>5, <2>8
  <2>12. Freshening(v)
    <3>1. /\ v.phase # "capture" /\ v.row.state = "confirmed" /\ ConfirmedAt(v.id, v.row)
          /\ cp[v.id].state # "proposed" /\ SameWork(v.row, cp[v.id]) /\ cp[v.id].basis = v.row.basis
      BY <1>3, <2>2, <2>5 DEF Freshening
    <3>2. /\ v.phase = "revisions" => ~last
          /\ v.phase \in {"links", "current"} => last
          /\ ~(v.phase = "current")
      BY <2>2
    <3> HIDE DEF last
    <3> QED BY <2>2, <2>5, <2>9, <2>10, <2>11, <3>1, <3>2 DEF Freshening
  <2>13. WalkOK(v)
    BY <1>1, <1>2, <1>3, <2>2, <2>4, <2>12 DEF WalkOK
  <2> QED BY <1>4, <2>1, <2>13, WalkStep
<1> QED BY <1>6, <1>7

LEMMA CaptureCp ==
    ASSUME CpInv, RInv', Grows, NEW c \in Clients, Capture(c)
    PROVE  CpInv'
<1>1. PICK x : x = reading[c] /\ WalkOK(x) /\ reading[c] # None /\ x.phase = "capture"
  BY DEF Capture, CpInv
<1>2. x \in Walk /\ RowOK(x.row) /\ x.todo \subseteq Basis(x.row)
  BY <1>1 DEF WalkOK
<1>3. x.op = "confirm" /\ Confirming(x)
  BY <1>1, <1>2, WalkFields DEF WalkOK, Freshening
<1>4. UNCHANGED <<cp, moment, stale>>
  BY DEF Capture
<1>5. /\ DOMAIN x.got = Basis(x.row) \ x.todo
      /\ \A q \in DOMAIN x.got : x.got[q] \in Nat /\ x.got[q] <= RevisionOf(q)
  BY <1>1, <1>2, <1>3, WalkFields DEF Confirming
<1> DEFINE Got(r) == [q \in (DOMAIN x.got) \union {r} |-> IF q = r THEN RevisionOf(r) ELSE x.got[q]]
<1>6. PICK r \in x.todo :
        IF x.todo # {r}
        THEN /\ reading' = [reading EXCEPT ![c].todo = @ \ {r}, ![c].got = Got(r)]
             /\ UNCHANGED pending
        ELSE /\ pending' = [pending EXCEPT ![c] =
                   [table |-> "checkpoint", id |-> x.id, rev |-> x.row.rev,
                    row |-> [x.row EXCEPT !.state = "confirmed", !.basis = Got(r)]]]
             /\ reading' = [reading EXCEPT ![c] = None]
  BY <1>1 DEF Capture
<1> DEFINE got == Got(r)
<1>7. \A q \in Basis(x.row) : Known(q) /\ q \in Refs /\ RevisionOf(q) \in Nat
  BY <1>2, RowBasis, KnownNumbered DEF CpInv
<1>8. /\ DOMAIN got = Basis(x.row) \ (x.todo \ {r})
      /\ \A q \in DOMAIN got : got[q] \in Nat /\ got[q] <= RevisionOf(q)
  BY <1>2, <1>5, <1>7
<1>9. got \in Partial(Refs, Nat)
  <2>1. got \in [DOMAIN got -> Nat] /\ DOMAIN got \subseteq Refs
    BY <1>7, <1>8
  <2> HIDE DEF Got
  <2> QED BY <2>1, PartialIn
<1>10. CASE x.todo # {r}
  <2> DEFINE v == [x EXCEPT !.todo = @ \ {r}, !.got = got]
  <2> HIDE DEF Got
  <2>1. reading' = [reading EXCEPT ![c] = v] /\ UNCHANGED pending
    BY <1>1, <1>6, <1>10
  <2>2. /\ v.op = x.op /\ v.id = x.id /\ v.row = x.row /\ v.phase = "capture"
        /\ v.todo = x.todo \ {r} /\ v.got = got
    BY <1>1, <1>2 DEF Walk
  <2>3. v \in Walk
    BY <1>2, <1>9 DEF Walk
  <2> HIDE DEF v
  <2>4. Confirming(v)
    BY <1>3, <1>8, <2>2 DEF Confirming
  <2>5. WalkOK(v)
    BY <1>1, <1>2, <1>3, <2>2, <2>3, <2>4 DEF WalkOK
  <2> QED BY <1>4, <2>1, <2>5, WalkStep
<1>11. CASE x.todo = {r}
  <2> DEFINE row == [x.row EXCEPT !.state = "confirmed", !.basis = got]
             w == [table |-> "checkpoint", id |-> x.id, rev |-> x.row.rev, row |-> row]
  <2> HIDE DEF Got
  <2>1. pending' = [pending EXCEPT ![c] = w] /\ reading' = [reading EXCEPT ![c] = None]
    BY <1>1, <1>6, <1>11
  <2>2. x.row \in CpRow /\ x.id \in Cps /\ x.row.rev \in Nat
    BY <1>2, WalkFields, RowParts
  <2>3. /\ row.state = "confirmed" /\ row.basis = got /\ row.project = x.row.project
        /\ row.roles = x.row.roles /\ row.extra = x.row.extra
    BY <2>2 DEF CpRow
  <2>4. row \in CpRow
    BY <1>9, <2>2 DEF CpRow, Confirmations
  <2> HIDE DEF row
  <2>5. SameWork(x.row, row) /\ Basis(row) = Basis(x.row)
    BY <2>3, SameBasis DEF SameWork
  <2>6. RowOK(row)
    BY <1>2, <1>8, <1>11, <2>3, <2>4, <2>5 DEF RowOK
  <2>7. CpWrite(w)
    <3>1. w.table = "checkpoint" /\ w.id = x.id /\ w.rev = x.row.rev /\ w.row = row
      OBVIOUS
    <3>2. /\ cp[x.id] # None /\ x.row.rev <= cp[x.id].rev
          /\ x.row.rev = cp[x.id].rev => x.row = cp[x.id]
      BY <1>1 DEF WalkOK
    <3>3. x.row.active /\ x.row.state = "proposed"
      BY <1>3 DEF Confirming
    <3>4. CpChange(x.row, row)
      BY <2>3, <2>5, <3>3 DEF CpChange
    <3> HIDE DEF w
    <3> QED BY <2>2, <2>6, <3>1, <3>2, <3>4 DEF CpWrite
  <2>8. \A d \in Clients : pending'[d] # None => pending'[d] = pending[d] \/ CpWrite(pending'[d])
    <3> HIDE DEF w
    <3> QED BY <2>1, <2>7 DEF CpInv, RInv, TablesOK
  <2>9. \A d \in Clients : reading'[d] # None => reading'[d] = reading[d]
    BY <2>1 DEF CpInv
  <2>10. CpGrows /\ CpTyped' /\ DOMAIN reading' = Clients
    BY <1>4, <2>1 DEF CpGrows, CpInv, CpTyped
  <2> HIDE DEF w
  <2> QED BY <1>4, <2>8, <2>9, <2>10, CpStep DEF CpInv
<1> QED BY <1>10, <1>11
LEMMA ChangeCpCp ==
    ASSUME CpInv, RInv', Grows, NEW c \in Clients, NEW k \in Existing(cp),
           SupersedeCp(c, k) \/ ArchiveCp(c, k)
    PROVE  CpInv'
<1> DEFINE row == cp[k]
<1>1. k \in Cps /\ row # None /\ RowOK(row) /\ row \in CpRow /\ row.rev \in Nat
  <2>1. k \in Cps /\ row # None /\ RowOK(row)
    BY DEF Existing, CpInv, CpOK
  <2> QED BY <2>1, RowBasis, RowParts
<1>2. PICK state \in Confirmations, active \in BOOLEAN :
        /\ ChangeCp(c, k, [row EXCEPT !.state = state, !.active = active])
        /\ row.active
        /\ \/ state = row.state
           \/ row.state = "confirmed" /\ state = "superseded"
  <2>1. CASE SupersedeCp(c, k)
    <3>1. row.active \in BOOLEAN /\ row.state = "confirmed"
      BY <1>1, <2>1 DEF CpRow, SupersedeCp
    <3>2. [row EXCEPT !.state = "superseded"] = [row EXCEPT !.state = "superseded", !.active = row.active]
      BY <1>1 DEF CpRow
    <3> QED BY <2>1, <3>1, <3>2 DEF SupersedeCp, ChangeCp, Confirmations
  <2>2. CASE ArchiveCp(c, k)
    <3>1. row.state \in Confirmations
      BY <1>1 DEF CpRow
    <3>2. [row EXCEPT !.active = FALSE] = [row EXCEPT !.state = row.state, !.active = FALSE]
      BY <1>1 DEF CpRow
    <3> QED BY <2>2, <3>1, <3>2 DEF ArchiveCp, ChangeCp
  <2> QED BY <2>1, <2>2
<1> DEFINE new == [row EXCEPT !.state = state, !.active = active]
           w == [table |-> "checkpoint", id |-> k, row |-> new, rev |-> row.rev]
<1>3. pending' = [pending EXCEPT ![c] = w] /\ UNCHANGED <<cp, moment, stale, reading>>
  BY <1>2 DEF ChangeCp, Prepare, cpVars
<1>4. /\ new.state = state /\ new.basis = row.basis /\ new.project = row.project
      /\ new.roles = row.roles /\ new.extra = row.extra
  BY <1>1 DEF CpRow
<1>5. new \in CpRow
  BY <1>1 DEF CpRow
<1> HIDE DEF new
<1>6. SameWork(row, new) /\ Basis(new) = Basis(row)
  BY <1>4, SameBasis DEF SameWork
<1>7. RowOK(new)
  <2>1. state = "proposed" <=> row.state = "proposed"
    BY <1>2
  <2> QED BY <1>1, <1>4, <1>5, <1>6, <2>1 DEF RowOK
<1>8. CpChange(row, new)
  BY <1>2, <1>4, <1>6 DEF CpChange
<1>9. CpWrite(w)
  <2>1. w.table = "checkpoint" /\ w.id = k /\ w.rev = row.rev /\ w.row = new
    OBVIOUS
  <2>2. row.rev <= row.rev
    BY <1>1
  <2> HIDE DEF w
  <2> QED BY <1>1, <1>7, <1>8, <2>1, <2>2 DEF CpWrite
<1> HIDE DEF w
<1>10. \A d \in Clients : pending'[d] # None => pending'[d] = pending[d] \/ CpWrite(pending'[d])
  BY <1>3, <1>9 DEF CpInv, RInv, TablesOK
<1>11. CpGrows /\ CpTyped'
  BY <1>3 DEF CpGrows, CpInv, CpTyped
<1> QED BY <1>3, <1>10, <1>11, CpStep DEF CpInv

LEMMA StampedCp ==
    ASSUME NEW row \in CpRow, NEW n \in Nat, NEW dated \in BOOLEAN
    PROVE  LET new == Stamped(row, n + 1, dated)
           IN  /\ new \in CpRow /\ new.rev = n + 1 /\ new.state = row.state /\ new.basis = row.basis
               /\ new.project = row.project /\ new.roles = row.roles /\ new.extra = row.extra
<1>1. n + 1 \in Nat
  OBVIOUS
<1>2. CASE dated = TRUE
  BY <1>1, <1>2 DEF Stamped, CpRow
<1>3. CASE dated = FALSE
  BY <1>1, <1>3 DEF Stamped, CpRow
<1> QED BY <1>2, <1>3

(* The commit of a prepared write, which compares the revision it was      *)
(* prepared from.                                                          *)
LEMMA CommitCpIs ==
    ASSUME CpInv, NEW c \in Clients, CommitCp(c)
    PROVE  LET k == pending[c].id
           IN  /\ k \in Cps /\ cp[k] # None /\ cp[k] \in CpRow
               /\ cp'[k] # None /\ RowOK(cp'[k]) /\ cp'[k] \in CpRow
               /\ cp[k].rev < cp'[k].rev /\ CpChange(cp[k], cp'[k])
               /\ Basis(cp'[k]) = Basis(cp[k])
               /\ \A j \in Cps \ {k} : cp'[j] = cp[j] /\ moment'[j] = moment[j]
               /\ moment'[k] = IF cp[k].state = "proposed" /\ cp'[k].state = "confirmed"
                               THEN Revisions(Basis(cp'[k])) ELSE moment[k]
               /\ CpTyped' /\ DOMAIN moment' = Cps
<1> DEFINE w == pending[c]
           k == w.id
           row == w.row
<1>0. PICK dated \in BOOLEAN : cp' = [cp EXCEPT ![k] = Stamped(row, w.rev + 1, dated)]
  BY DEF CommitCp, Stamped
<1> DEFINE new == Stamped(row, w.rev + 1, dated)
<1>1. w # None /\ w.table = "checkpoint" /\ CpWrite(w) /\ cp[k].rev = w.rev
  BY DEF CommitCp, CpUnchanged, CpInv
<1>2. /\ k \in Cps /\ cp[k] # None /\ w.rev \in Nat /\ RowOK(row) /\ CpChange(cp[k], row)
      /\ cp[k] \in CpRow
  BY <1>1 DEF CpWrite, CpInv
<1>3. row \in CpRow
  BY <1>2 DEF RowOK
<1>4. /\ new.rev = w.rev + 1 /\ new.state = row.state /\ new.basis = row.basis
      /\ new.project = row.project /\ new.roles = row.roles /\ new.extra = row.extra
  BY <1>2, <1>3, StampedCp
<1>5. new \in CpRow /\ new # None
  <2>1. new \in CpRow
    BY <1>2, <1>3, StampedCp
  <2> QED BY <2>1, CheckpointsAssumption
<1>6. /\ cp' = [cp EXCEPT ![k] = new]
      /\ moment' = IF cp[k].state = "proposed" /\ row.state = "confirmed"
                   THEN [moment EXCEPT ![k] = Revisions(Basis(row))] ELSE moment
  BY <1>0 DEF CommitCp
<1>7. cp \in [Cps -> CpRow \union {None}] /\ DOMAIN moment = Cps
  BY DEF CpInv
<1> HIDE DEF new, row, k
<1>8. cp'[k] = new /\ \A j \in Cps \ {k} : cp'[j] = cp[j]
  BY <1>2, <1>6, <1>7
<1>9. /\ moment'[k] = IF cp[k].state = "proposed" /\ row.state = "confirmed"
                      THEN Revisions(Basis(row)) ELSE moment[k]
      /\ \A j \in Cps \ {k} : moment'[j] = moment[j]
      /\ DOMAIN moment' = Cps
  BY <1>2, <1>6, <1>7
<1>10. SameWork(row, new) /\ Basis(new) = Basis(row)
  BY <1>4, SameBasis DEF SameWork
<1>11. RowOK(new)
  BY <1>2, <1>4, <1>5, <1>10 DEF RowOK
<1>12. CpChange(cp[k], new) /\ Basis(new) = Basis(cp[k])
  <2>1. CpChange(cp[k], new)
    BY <1>2, <1>4 DEF CpChange, SameWork
  <2> QED BY <2>1, SameBasis DEF CpChange
<1>13. CpTyped'
  BY <1>5, <1>6, <1>7 DEF CpTyped
<1>14. cp[k].rev < new.rev
  BY <1>1, <1>2, <1>4
<1>15. pending[c].id = k
  BY DEF k
<1> QED BY <1>2, <1>4, <1>5, <1>8, <1>9, <1>10, <1>11, <1>12, <1>13, <1>14, <1>15

LEMMA CommitCpCp ==
    ASSUME CpInv, RInv', Grows, NEW c \in Clients, CommitCp(c)
    PROVE  CpInv'
<1>1. PICK k, new : k = pending[c].id /\ new = cp'[k]
  OBVIOUS
<1>2. /\ k \in Cps /\ cp[k] # None /\ cp[k] \in CpRow
      /\ new # None /\ RowOK(new) /\ new \in CpRow
      /\ cp[k].rev < new.rev /\ CpChange(cp[k], new)
      /\ Basis(new) = Basis(cp[k])
      /\ \A j \in Cps \ {k} : cp'[j] = cp[j] /\ moment'[j] = moment[j]
      /\ moment'[k] = IF cp[k].state = "proposed" /\ new.state = "confirmed"
                      THEN Revisions(Basis(new)) ELSE moment[k]
      /\ CpTyped' /\ DOMAIN moment' = Cps
  BY <1>1, CommitCpIs
<1>3. UNCHANGED <<tables, stale, reading>>
      /\ pending' = [pending EXCEPT ![c] = None]
  BY DEF CommitCp, tables
<1>4. CpGrows
  <2>1. cp[k].state # "proposed" => moment'[k] = moment[k]
    BY <1>2
  <2> QED BY <1>1, <1>2, <2>1 DEF CpGrows
<1>5. RowOK(new)'
  BY <1>2, RowStays DEF CpInv
<1>6. ASSUME new.state # "proposed" PROVE ConfirmedAt(k, new)'
  <2>1. \A r \in Basis(new) : /\ new.basis[r] \in Nat /\ new.basis[r] <= RevisionOf(r)
                              /\ RevisionOf(r) \in Nat /\ RevisionOf(r)' = RevisionOf(r)
    <3>1. \A r \in Basis(new) : new.basis[r] \in Nat /\ new.basis[r] <= RevisionOf(r) /\ Known(r)
      BY <1>2, <1>6, RowBasis
    <3>2. \A r : RevisionOf(r)' = RevisionOf(r)
      BY <1>3 DEF RevisionOf, Stored, tables
    <3> QED BY <3>1, <3>2, KnownNumbered DEF CpInv
  <2>2. CASE cp[k].state = "proposed"
    <3>1. new.state = "confirmed"
      BY <1>2, <1>6, <2>2 DEF CpChange
    <3>2. moment'[k] = Revisions(Basis(new))
      BY <1>2, <2>2, <3>1
    <3>3. Revisions(Basis(new)) = [r \in Basis(new) |-> RevisionOf(r)]
      BY DEF Revisions
    <3>4. \A r \in Basis(new) : moment'[k][r] = RevisionOf(r)
      BY <3>2, <3>3
    <3>5. moment'[k] \in [Basis(new) -> Nat]
      BY <2>1, <3>2, <3>3
    <3>6. \A r \in Basis(new) : new.basis[r] <= moment'[k][r] /\ moment'[k][r] <= RevisionOf(r)'
      BY <2>1, <3>4
    <3> QED BY <3>5, <3>6 DEF ConfirmedAt
  <2>3. CASE cp[k].state # "proposed"
    <3>1. ConfirmedAt(k, cp[k]) /\ moment'[k] = moment[k]
      BY <1>2, <2>3 DEF CpInv, CpOK
    <3>2. new.basis = cp[k].basis
      BY <1>2, <2>3 DEF CpChange
    <3>3. \A r \in Basis(new) : new.basis[r] <= moment'[k][r] /\ moment'[k][r] <= RevisionOf(r)'
      BY <1>2, <2>1, <3>1, <3>2 DEF ConfirmedAt
    <3>4. moment'[k] \in [Basis(new) -> Nat]
      BY <1>2, <3>1 DEF ConfirmedAt
    <3> QED BY <3>3, <3>4 DEF ConfirmedAt
  <2> QED BY <2>2, <2>3
<1>7. ASSUME k \in stale PROVE new.state # "proposed" /\ Lost(new)'
  <2>1. cp[k].state # "proposed" /\ Lost(cp[k])
    BY <1>2, <1>7 DEF CpInv, CpOK
  <2>2. SameWork(cp[k], new) /\ new.basis = cp[k].basis /\ new.state # "proposed"
    BY <1>2, <2>1 DEF CpChange
  <2>3. PICK old : old = cp[k]
    OBVIOUS
  <2>4. Lost(new)
    BY <2>1, <2>2, <2>3, SameBasis
  <2>5. Lost(new)'
    BY <1>2, <2>2, <2>4, LostStays DEF CpInv
  <2> QED BY <2>2, <2>5
<1>8. CpOK(k)'
  BY <1>1, <1>2, <1>3, <1>5, <1>6, <1>7 DEF CpOK
<1>9. \A j \in Cps : \/ cp'[j] = cp[j] /\ moment'[j] = moment[j] /\ (j \in stale' => j \in stale)
                     \/ CpOK(j)'
  BY <1>2, <1>3, <1>8
<1>10. \A d \in Clients : pending'[d] # None => pending'[d] = pending[d]
  BY <1>3 DEF CpInv, RInv, TablesOK
<1>11. reading' = reading /\ stale' \subseteq Cps /\ DOMAIN reading' = Clients
  BY <1>3 DEF CpInv
<1> QED BY <1>2, <1>4, <1>9, <1>10, <1>11, CpStep

LEMMA CheckpointsNextCp ==
    CpInv /\ [CheckpointsNext]_<<projectVars, cpVars>> => CpInv'
<1> SUFFICES ASSUME CpInv, [CheckpointsNext]_<<projectVars, cpVars>> PROVE CpInv'
  OBVIOUS
<1>1. RInv' /\ Grows
  BY CheckpointsNextW DEF CpInv
<1>2. CASE [ProjectsNext]_projectVars /\ UNCHANGED cpVars
  <2>1. \A c \in Clients : pending'[c] # None =>
                             pending'[c] = pending[c] \/ pending'[c].table # "checkpoint"
    <3>1. \A c \in Clients : \/ pending'[c] = pending[c] \/ pending'[c] = None
                              \/ pending'[c].table \in {"project", "decision"}
      BY <1>2, OwnWrites DEF CpInv
    <3> QED BY <3>1
  <2> QED BY <1>1, <1>2, <2>1, CpElsewhere DEF cpVars
<1>3. CASE CpNext(Projs, BOOLEAN)
  <2>1. ASSUME NEW c \in Clients, Leave(c) PROVE CpInv'
    <3>1. \A d \in Clients : reading'[d] # None => reading'[d] = reading[d]
      BY <2>1 DEF Leave, Finish, CpInv
    <3>2. /\ UNCHANGED <<pending, cp, moment, stale>>
          /\ reading' = [reading EXCEPT ![c] = None]
      BY <2>1 DEF Leave, Finish, projectVars
    <3> QED BY <1>1, <3>2, WalkStep
  <2>2. ASSUME NEW c \in Clients, Abandon(c), UNCHANGED cpVars PROVE CpInv'
    <3>1. \A d \in Clients : pending'[d] # None => pending'[d] = pending[d]
      BY <2>2 DEF Abandon, CpInv, RInv, TablesOK
    <3> QED BY <1>1, <2>2, <3>1, CpElsewhere DEF cpVars
  <2> QED BY <1>1, <1>3, <2>1, <2>2, ProposeCp, StartCp, ReadLinkCp, CompareCp, CaptureCp,
             ChangeCpCp, CommitCpCp DEF CpNext
<1> QED BY <1>2, <1>3 DEF CheckpointsNext, projectVars

LEMMA CpFresh == CpInv => FreshnessSound
<1> SUFFICES ASSUME CpInv PROVE FreshnessSound
  OBVIOUS
<1>1. ASSUME NEW k \in Existing(cp)
      PROVE  cp[k].state \in Confirmations /\ DOMAIN cp[k].basis \in {{}, Basis(cp[k])}
  <2>1. RowOK(cp[k])
    BY <1>1 DEF Existing, CpInv, CpOK
  <2> QED BY <2>1 DEF RowOK, CpRow
<1>2. CpTypeOK
  BY <1>1 DEF CpTypeOK, CpInv, CpOK, Existing
<1>3. ASSUME NEW c \in Clients, reading[c] # None, reading[c].phase = "current"
      PROVE  /\ reading[c].row.basis = moment[reading[c].id]
             /\ reading[c].after => reading[c].moved
  <2>1. WalkOK(reading[c]) /\ ~Confirming(reading[c])
    BY <1>3 DEF CpInv, Confirming
  <2>2. Freshening(reading[c])
    BY <2>1 DEF WalkOK
  <2> QED BY <1>3, <2>2 DEF Freshening
<1> QED BY <1>2, <1>3 DEF FreshnessSound

LEMMA CpFrozen == CpInv /\ [CheckpointsNext]_<<projectVars, cpVars>> => [ConfirmedFrozen]_cp
<1> SUFFICES ASSUME CpInv, CheckpointsNext, cp' # cp PROVE ConfirmedFrozen
  BY DEF cpVars
<1>1. CASE \E k \in Unused(cp), w \in Projs, l \in Layouts, secret \in BOOLEAN : Propose(k, w, l, secret)
  BY <1>1 DEF Propose, Unused, Existing, ConfirmedFrozen, CpInv
<1>2. ASSUME NEW c \in Clients, CommitCp(c) PROVE ConfirmedFrozen
  <2>1. PICK k : k = pending[c].id
    OBVIOUS
  <2>2. CpChange(cp[k], cp'[k]) /\ \A j \in Cps \ {k} : cp'[j] = cp[j]
    BY <1>2, <2>1, CommitCpIs
  <2>3. \A j \in Existing(cp) : j \in Cps
    BY DEF Existing, CpInv
  <2> QED BY <2>2, <2>3 DEF ConfirmedFrozen, CpChange, SameWork
<1>3. CASE ~(\E c \in Clients : CommitCp(c)) /\ CpNext(Projs, BOOLEAN)
  BY <1>1, <1>3 DEF CpNext, BeginConfirm, BeginFreshness, Start, SupersedeCp, ArchiveCp, ChangeCp,
     ReadLink, Capture, Compare, Leave, Abandon, cpVars
<1> QED BY <1>2, <1>3 DEF CheckpointsNext, cpVars

(* Any number of clients confirm, supersede, archive and read checkpoints, *)
(* one query at a time, while others change the records they rest on       *)
(* (_derive_freshness, _capture_basis_revisions, _update_checkpoint): a    *)
(* reading says "current" only of a basis that was true at the moment of   *)
(* its confirmation, and again only if it moved, and a confirmed basis is  *)
(* never rewritten.                                                        *)
THEOREM CheckpointsAlwaysSound == CheckpointsSpec => CheckpointsSound
BY InitCp, CheckpointsNextCp, CpFresh, CpFrozen, PTL DEF CheckpointsSpec, CheckpointsSound
-----------------------------------------------------------------------------
(* Exports.  What an export has read bounds what it will read.             *)
LEMMA PutRevision ==
    ASSUME NEW f, NEW r, NEW v, f \in Partial(Everything, Nat), r \in Everything, v \in Nat
    PROVE  /\ Put(f, r, v) \in Partial(Everything, Nat)
           /\ DOMAIN Put(f, r, v) = (DOMAIN f) \union {r}
           /\ Put(f, r, v)[r] = v
           /\ \A q \in DOMAIN f \ {r} : Put(f, r, v)[q] = f[q]
<1>1. DOMAIN f \subseteq Everything /\ \A q \in DOMAIN f : f[q] \in Nat
  BY DEF Partial
<1>2. (DOMAIN f) \union {r} \in SUBSET Everything /\ Put(f, r, v) \in [(DOMAIN f) \union {r} -> Nat]
  BY <1>1 DEF Put
<1>3. Put(f, r, v) \in Partial(Everything, Nat)
  BY <1>2 DEF Partial
<1> QED BY <1>3 DEF Put

LEMMA PutListing ==
    ASSUME NEW f \in Partial(Everything, Listing), NEW r \in Everything, NEW v \in Listing
    PROVE  /\ Put(f, r, v) \in Partial(Everything, Listing)
           /\ DOMAIN Put(f, r, v) = (DOMAIN f) \union {r}
           /\ Put(f, r, v)[r] = v
           /\ \A q \in DOMAIN f \ {r} : Put(f, r, v)[q] = f[q]
<1>1. DOMAIN f \subseteq Everything /\ f \in [DOMAIN f -> Listing] /\ \A q \in DOMAIN f : f[q] \in Listing
  BY DEF Partial
<1>2. (DOMAIN f) \union {r} \in SUBSET Everything
  BY <1>1
<1>3. Put(f, r, v) \in [(DOMAIN f) \union {r} -> Listing]
  BY <1>1 DEF Put
<1>4. Put(f, r, v) \in Partial(Everything, Listing)
  BY <1>2, <1>3 DEF Partial
<1>5. /\ DOMAIN Put(f, r, v) = (DOMAIN f) \union {r}
      /\ Put(f, r, v)[r] = v
      /\ \A q \in DOMAIN f \ {r} : Put(f, r, v)[q] = f[q]
  BY DEF Put
<1> QED BY <1>4, <1>5

LEMMA EverythingKnown ==
    ASSUME RInv
    PROVE  \A r \in Everything : Known(r) /\ r \in Refs /\ RevisionOf(r) \in Nat
<1>1. \A r \in Everything : Known(r) /\ r \in Refs
  BY DEF Everything, Known, Refs
<1> QED BY <1>1, KnownNumbered

LEMMA BundleFields ==
    ASSUME NEW x \in BundleRow
    PROVE  /\ x.kind = "bundle" /\ x.path \in Paths /\ x.todo \subseteq Everything
           /\ x.listed \in Partial(Everything, Listing) /\ x.got \in Partial(Everything, Nat)
           /\ DOMAIN x.listed \subseteq Everything /\ DOMAIN x.got \subseteq Everything
           /\ \A r \in DOMAIN x.listed : x.listed[r] \in Listing /\ x.listed[r].rev \in Nat
           /\ \A r \in DOMAIN x.got : x.got[r] \in Nat
           /\ \A r \in Everything : x.low[r] \in Nat
<1>1. /\ x.kind = "bundle" /\ x.path \in Paths /\ x.todo \subseteq Everything
      /\ x.listed \in Partial(Everything, Listing) /\ x.got \in Partial(Everything, Nat)
      /\ x.low \in [Everything -> Nat]
  BY DEF BundleRow
<1>2. DOMAIN x.listed \subseteq Everything /\ \A r \in DOMAIN x.listed : x.listed[r] \in Listing
  BY <1>1, PartialIs
<1>3. DOMAIN x.got \subseteq Everything /\ \A r \in DOMAIN x.got : x.got[r] \in Nat
  BY <1>1, PartialIs
<1> QED BY <1>1, <1>2, <1>3 DEF Listing

LEMMA BundleStays ==
    ASSUME RInv, RInv', Grows, NEW x, BundleOK(x)
    PROVE  BundleOK(x)'
<1>1. x \in BundleRow
  BY DEF BundleOK
<1>2. \A r \in Everything : /\ RevisionOf(r) \in Nat /\ RevisionOf(r)' \in Nat
                            /\ RevisionOf(r) <= RevisionOf(r)'
  BY EverythingKnown, Rises
<1>3. \A r \in Everything : x.low[r] <= RevisionOf(r)'
  BY <1>1, <1>2, BundleFields DEF BundleOK
<1>4. \A r \in DOMAIN x.listed : x.low[r] <= x.listed[r].rev /\ x.listed[r].rev <= RevisionOf(r)'
  <2>1. ASSUME NEW r \in DOMAIN x.listed
        PROVE  x.low[r] <= x.listed[r].rev /\ x.listed[r].rev <= RevisionOf(r)'
    <3>1. r \in Everything /\ x.listed[r].rev \in Nat
      BY <1>1, BundleFields
    <3>2. x.low[r] <= x.listed[r].rev /\ x.listed[r].rev <= RevisionOf(r)
      BY DEF BundleOK
    <3> QED BY <1>2, <3>1, <3>2
  <2> QED BY <2>1
<1>5. \A r \in DOMAIN x.got : x.listed[r].rev <= x.got[r] /\ x.got[r] <= RevisionOf(r)'
  <2>1. ASSUME NEW r \in DOMAIN x.got
        PROVE  x.listed[r].rev <= x.got[r] /\ x.got[r] <= RevisionOf(r)'
    <3>1. r \in Everything /\ x.got[r] \in Nat
      BY <1>1, BundleFields
    <3>2. x.listed[r].rev <= x.got[r] /\ x.got[r] <= RevisionOf(r)
      BY DEF BundleOK
    <3> QED BY <1>2, <3>1, <3>2
  <2> QED BY <2>1
<1> QED BY <1>1, <1>3, <1>4, <1>5 DEF BundleOK

LEMMA EscapeStays ==
    ASSUME RInv, RInv', Grows, commits' = commits => talk' = talk, NEW x, EscapeOK(x)
    PROVE  EscapeOK(x)'
<1>1. x \in EscapeRow /\ x.revision \in Nat /\ x.revision <= commits
  BY DEF EscapeOK, EscapeRow
<1>2. /\ commits \in Nat /\ commits' \in {commits, commits + 1}
      /\ commits' = commits => project' = project
  BY DEF RInv, TablesOK, Grows, tables
<1>3. x.revision <= commits' /\ (commits' = x.revision => commits' = commits)
  BY <1>1, <1>2
<1>4. commits' = commits => project' = project
  BY <1>2
<1>5. commits' = x.revision => commits = x.revision /\ project' = project /\ talk' = talk
  BY <1>3, <1>4
<1> QED BY <1>1, <1>3, <1>5 DEF EscapeOK, Talked

LEMMA ExportStays ==
    ASSUME RInv, RInv', Grows, commits' = commits => talk' = talk, NEW x, ExportOK(x)
    PROVE  ExportOK(x)'
BY BundleStays, EscapeStays DEF ExportOK

(* What a step has to show: a new export is sound, a new file is sound,    *)
(* and nobody starts to work on an output that is there.                   *)
LEMMA EStep ==
    ASSUME EInv, RInv', Grows, commits' = commits => talk' = talk, talk' \subseteq Sayings,
           DOMAIN exporting' = Exporters, DOMAIN file' = Paths,
           \A e \in Exporters : exporting'[e] # None =>
              exporting'[e] = exporting[e] \/ ExportOK(exporting'[e]),
           \A p \in Paths : file'[p] # None => file'[p] = file[p] \/ FileOK(file'[p]),
           \A p \in Paths :
              \/ /\ file'[p] = file[p]
                 /\ \A d \in Exporters : exporting'[d] # None /\ exporting'[d].path = p =>
                       \/ exporting[d] # None /\ exporting[d].path = p
                       \/ file[p] = None
              \/ RivalsKnown(p)'
    PROVE  EInv'
<1>1. ASSUME NEW e \in Exporters, exporting'[e] # None PROVE ExportOK(exporting[e])'
  <2>1. PICK v : v = exporting'[e]
    OBVIOUS
  <2>2. ExportOK(v)
    BY <1>1, <2>1 DEF EInv
  <2> QED BY <2>1, <2>2, ExportStays DEF EInv
<1>2. \A p \in Paths : file'[p] # None => FileOK(file[p])'
  <2>1. ASSUME NEW p \in Paths, file'[p] # None PROVE FileOK(file[p])'
    <3>1. PICK f : f = file'[p]
      OBVIOUS
    <3>2. FileOK(f)
      BY <2>1, <3>1 DEF EInv
    <3> QED BY <3>1, <3>2 DEF FileOK, BundleSound, EscapeSound
  <2> QED BY <2>1
<1>3. \A p \in Paths : RivalsKnown(p)'
  BY DEF EInv, RivalsKnown
<1> QED BY <1>1, <1>2, <1>3 DEF EInv

LEMMA StillW ==
    ASSUME RInv, UNCHANGED <<projectVars, cpVars>>
    PROVE  RInv' /\ Grows
BY CheckpointsNextW

(* An exporter goes on, or begins where there is no output.                *)
LEMMA ExporterMoves ==
    ASSUME EInv, UNCHANGED <<projectVars, cpVars, talk, file>>, NEW e \in Exporters, NEW v,
           exporting' = [exporting EXCEPT ![e] = v],
           \/ v = None
           \/ /\ ExportOK(v)
              /\ \/ exporting[e] # None /\ exporting[e].path = v.path
                 \/ file[v.path] = None
    PROVE  EInv'
<1>1. RInv' /\ Grows
  BY StillW DEF EInv
<1>2. /\ exporting'[e] = v /\ DOMAIN exporting' = Exporters
      /\ \A d \in Exporters \ {e} : exporting'[d] = exporting[d]
  BY DEF EInv
<1>3. \A d \in Exporters : exporting'[d] # None => exporting'[d] = exporting[d] \/ ExportOK(exporting'[d])
  BY <1>2
<1>4. \A p \in Paths, d \in Exporters : exporting'[d] # None /\ exporting'[d].path = p =>
         (exporting[d] # None /\ exporting[d].path = p) \/ file[p] = None
  BY <1>2
<1> QED BY <1>1, <1>2, <1>3, <1>4, EStep DEF EInv

(* An exporter changes the file at its path: it removes it, or puts its    *)
(* own there, and is then done or has not finished it.                     *)
LEMMA ExporterWrites ==
    ASSUME EInv, UNCHANGED <<projectVars, cpVars, talk>>, NEW e \in Exporters, NEW v,
           exporting[e] # None, exporting[e].path \in Paths,
           exporting' = [exporting EXCEPT ![e] = v],
           v = None \/ (ExportOK(v) /\ exporting[e].path = v.path),
           \/ file' = file
           \/ file' = [file EXCEPT ![exporting[e].path] = None]
           \/ \E finished \in BOOLEAN :
                 /\ file' = [file EXCEPT ![exporting[e].path] = Publication(e, finished)]
                 /\ FileOK(Publication(e, finished))
                 /\ finished => v = None
    PROVE  EInv'
<1>1. RInv' /\ Grows
  BY StillW DEF EInv
<1>2. /\ exporting'[e] = v /\ DOMAIN exporting' = Exporters
      /\ \A d \in Exporters \ {e} : exporting'[d] = exporting[d]
  BY DEF EInv
<1>3. \A d \in Exporters : exporting'[d] # None => exporting'[d] = exporting[d] \/ ExportOK(exporting'[d])
  BY <1>2
<1>4. PICK q : q = exporting[e].path /\ q \in Paths
  OBVIOUS
<1>5. DOMAIN file' = Paths /\ \A p \in Paths \ {q} : file'[p] = file[p]
  BY <1>4 DEF EInv
<1>6. \A p \in Paths : file'[p] # None => file'[p] = file[p] \/ FileOK(file'[p])
  BY <1>4, <1>5 DEF EInv
<1>7. \A p \in Paths, d \in Exporters : exporting'[d] # None /\ exporting'[d].path = p =>
         exporting[d] # None /\ exporting[d].path = p
  BY <1>2
<1>8. file'[q] = file[q] \/ RivalsKnown(q)'
  <2>1. CASE file' = file
    BY <2>1
  <2>2. CASE file' = [file EXCEPT ![q] = None]
    BY <1>4, <2>2 DEF EInv, RivalsKnown
  <2>3. ASSUME NEW finished \in BOOLEAN,
               file' = [file EXCEPT ![q] = Publication(e, finished)],
               finished => v = None
        PROVE  RivalsKnown(q)'
    <3>1. file'[q] = Publication(e, finished)
      BY <1>4, <2>3 DEF EInv
    <3>2. file'[q].finished = finished
      BY <3>1 DEF Publication
    <3>3. file'[q].rivals = {d \in Exporters \ {e} : exporting[d] # None /\ exporting[d].path = q}
      BY <1>4, <3>1 DEF Publication
    <3>4. finished => \A d \in Exporters : exporting'[d] # None /\ exporting'[d].path = q =>
                         d \in file'[q].rivals
      BY <1>2, <2>3, <3>3
    <3> QED BY <3>2, <3>4 DEF RivalsKnown
  <2> QED BY <1>4, <2>1, <2>2, <2>3
<1> QED BY <1>1, <1>2, <1>3, <1>5, <1>6, <1>7, <1>8, EStep DEF EInv
LEMMA ExportKind ==
    ASSUME EInv, NEW e \in Exporters, exporting[e] # None
    PROVE  LET x == exporting[e]
           IN  /\ x.path \in Paths
               /\ x.kind \in {"bundle", "package", "escape"}
               /\ x.kind = "bundle" => BundleOK(x) /\ x \in BundleRow
               /\ x.kind = "package" => x \in PackageRow
               /\ x.kind = "escape" => EscapeOK(x) /\ x \in EscapeRow
               /\ x.phase \in {"status", "members", "manifest"} => x.kind = "bundle"
               /\ x.phase = "published" => x.kind = "package"
<1> DEFINE x == exporting[e]
<1>1. ExportOK(x)
  BY DEF EInv
<1> HIDE DEF x
<1>2. CASE x.kind = "bundle" /\ BundleOK(x)
  <2>1. x \in BundleRow
    BY <1>2 DEF BundleOK
  <2>2. x.path \in Paths /\ x.phase \in {"status", "members", "manifest", "verified"}
    BY <2>1 DEF BundleRow
  <2> QED BY <1>2, <2>1, <2>2 DEF x
<1>3. CASE x.kind = "package" /\ x \in PackageRow
  <2>1. x.path \in Paths /\ x.phase \in {"verified", "published"}
    BY <1>3 DEF PackageRow
  <2> QED BY <1>3, <2>1 DEF x
<1>4. CASE x.kind = "escape" /\ EscapeOK(x)
  <2>1. x \in EscapeRow
    BY <1>4 DEF EscapeOK
  <2>2. x.path \in Paths /\ x.phase \in EscapePhase
    BY <2>1 DEF EscapeRow
  <2> QED BY <1>4, <2>1, <2>2 DEF x, EscapePhase
<1> QED BY <1>1, <1>2, <1>3, <1>4 DEF ExportOK

LEMMA BeginBundleE ==
    ASSUME EInv, NEW e \in Exporters, NEW w \in Projs, NEW p \in Paths, BeginBundle(e, w, p), talk' = talk
    PROVE  EInv'
<1> DEFINE v == [kind |-> "bundle", path |-> p, project |-> w, phase |-> "status",
                 todo |-> {<<"project", w>>}, listed |-> <<>>, got |-> <<>>,
                 low |-> Revisions(Everything), high |-> None]
<1>1. /\ exporting' = [exporting EXCEPT ![e] = v] /\ file[p] = None
      /\ UNCHANGED <<projectVars, cpVars, file>>
  BY DEF BeginBundle, OutputFree
<1>2. /\ Revisions(Everything) \in [Everything -> Nat]
      /\ \A r \in Everything : Revisions(Everything)[r] = RevisionOf(r) /\ RevisionOf(r) \in Nat
  BY EverythingKnown DEF Revisions, EInv
<1>3. <<>> \in Partial(Everything, Listing) /\ <<>> \in Partial(Everything, Nat) /\ DOMAIN <<>> = {}
  BY PartialEmpty
<1>4. v \in BundleRow
  <2>1. <<"project", w>> \in Everything
    BY DEF Everything
  <2> QED BY <1>2, <1>3, <2>1 DEF BundleRow
<1>5. /\ v.kind = "bundle" /\ v.path = p /\ v.phase = "status" /\ v.listed = <<>> /\ v.got = <<>>
      /\ v.low = Revisions(Everything)
  OBVIOUS
<1> HIDE DEF v
<1>6. BundleOK(v)
  BY <1>2, <1>3, <1>4, <1>5 DEF BundleOK
<1>7. ExportOK(v)
  BY <1>5, <1>6 DEF ExportOK
<1> QED BY <1>1, <1>5, <1>7, ExporterMoves

LEMMA ReadStatusE ==
    ASSUME EInv, NEW e \in Exporters, ReadStatus(e), talk' = talk
    PROVE  EInv'
<1>1. PICK x : x = exporting[e] /\ exporting[e] # None /\ x.phase = "status" /\ x.todo # {}
  BY DEF ReadStatus
<1>2. x.kind = "bundle" /\ BundleOK(x) /\ x \in BundleRow
  BY <1>1, ExportKind
<1>3. UNCHANGED <<projectVars, cpVars, talk, file>>
  BY DEF ReadStatus
<1>4. \A r \in Everything : RevisionOf(r) \in Nat
  BY EverythingKnown DEF EInv
<1>5. ASSUME NEW todo \in SUBSET Everything, NEW listed \in Partial(Everything, Listing),
             \A r \in DOMAIN listed : x.low[r] <= listed[r].rev /\ listed[r].rev <= RevisionOf(r),
             exporting' = [exporting EXCEPT ![e] = [x EXCEPT !.todo = todo, !.listed = listed]]
      PROVE  EInv'
  <2> DEFINE v == [x EXCEPT !.todo = todo, !.listed = listed]
  <2>1. /\ v.kind = "bundle" /\ v.path = x.path /\ v.phase = "status" /\ v.listed = listed
        /\ v.got = x.got /\ v.low = x.low
    BY <1>1, <1>2 DEF BundleRow
  <2>2. v \in BundleRow
    BY <1>2 DEF BundleRow
  <2>3. exporting' = [exporting EXCEPT ![e] = v]
    BY <1>5
  <2> HIDE DEF v
  <2>4. BundleOK(v)
    BY <1>1, <1>2, <1>5, <2>1, <2>2 DEF BundleOK
  <2>5. ExportOK(v)
    BY <2>1, <2>4 DEF ExportOK
  <2> QED BY <1>1, <1>3, <2>1, <2>3, <2>5, ExporterMoves
<1>6. ASSUME NEW r \in Everything, NEW section \in ItemStatuses \union {"project"},
             NEW todo \in SUBSET Everything,
             exporting' = [exporting EXCEPT ![e] = [x EXCEPT !.todo = todo,
                !.listed = Put(x.listed, r, [section |-> section, rev |-> RevisionOf(r)])]]
      PROVE  EInv'
  <2> DEFINE entry == [section |-> section, rev |-> RevisionOf(r)]
             listed == Put(x.listed, r, entry)
  <2>1. entry \in Listing /\ entry.rev = RevisionOf(r) /\ x.listed \in Partial(Everything, Listing)
    BY <1>2, <1>4, BundleFields DEF Listing
  <2>2. exporting' = [exporting EXCEPT ![e] = [x EXCEPT !.todo = todo, !.listed = listed]]
    BY <1>6
  <2> HIDE DEF entry
  <2>3. /\ listed \in Partial(Everything, Listing) /\ DOMAIN listed = (DOMAIN x.listed) \union {r}
        /\ listed[r] = entry /\ \A q \in DOMAIN x.listed \ {r} : listed[q] = x.listed[q]
    BY <2>1, PutListing
  <2> HIDE DEF listed
  <2>4. x.low[r] <= RevisionOf(r) /\ RevisionOf(r) <= RevisionOf(r)
    BY <1>2, <1>4 DEF BundleOK
  <2>5. \A q \in DOMAIN listed : x.low[q] <= listed[q].rev /\ listed[q].rev <= RevisionOf(q)
    BY <1>2, <2>1, <2>3, <2>4 DEF BundleOK
  <2> QED BY <1>5, <2>2, <2>3, <2>5
<1>7. PICK r \in x.todo :
        IF r[1] = "project"
        THEN IF ProjectLive(r[2]) /\ ~project[r[2]].secret
             THEN exporting' = [exporting EXCEPT
                     ![e].todo = {<<"item", i>> : i \in Items},
                     ![e].listed = Put(@, r, [section |-> "project", rev |-> RevisionOf(r)])]
             ELSE Give(e)
        ELSE exporting' = [exporting EXCEPT
                     ![e].todo = @ \ {r},
                     ![e].listed = IF Selected(r[2])
                                   THEN Put(@, r, [section |-> item[r[2]].status,
                                                   rev |-> RevisionOf(r)])
                                   ELSE @]
  BY <1>1 DEF ReadStatus
<1>8. r \in Everything /\ x.todo \subseteq Everything /\ x.listed \in Partial(Everything, Listing)
  BY <1>2, BundleFields
<1>9. CASE Give(e)
  BY <1>3, <1>9, ExporterMoves DEF Give
<1>10. CASE r[1] = "project" /\ ~Give(e)
  <2>1. {<<"item", i>> : i \in Items} \in SUBSET Everything
    BY DEF Everything
  <2>2. exporting' = [exporting EXCEPT ![e] = [x EXCEPT !.todo = {<<"item", i>> : i \in Items},
                !.listed = Put(x.listed, r, [section |-> "project", rev |-> RevisionOf(r)])]]
    BY <1>1, <1>7, <1>10
  <2> QED BY <1>6, <1>8, <2>1, <2>2
<1>11. CASE r[1] # "project"
  <2>1. PICK i \in Items : r = <<"item", i>>
    BY <1>8, <1>11 DEF Everything
  <2>2. r[2] = i /\ item[i].status \in ItemStatuses
    BY <2>1 DEF EInv, RInv, TablesOK, ItemRow
  <2>3. CASE Selected(r[2])
    <3>1. exporting' = [exporting EXCEPT ![e] = [x EXCEPT !.todo = x.todo \ {r},
             !.listed = Put(x.listed, r, [section |-> item[i].status, rev |-> RevisionOf(r)])]]
      BY <1>1, <1>7, <1>11, <2>2, <2>3
    <3>2. x.todo \ {r} \in SUBSET Everything
      BY <1>8
    <3> QED BY <1>6, <1>8, <2>2, <3>1, <3>2
  <2>4. CASE ~Selected(r[2])
    <3>1. exporting' = [exporting EXCEPT ![e] = [x EXCEPT !.todo = x.todo \ {r}, !.listed = x.listed]]
      BY <1>1, <1>7, <1>11, <2>4
    <3>2. x.todo \ {r} \in SUBSET Everything
      BY <1>8
    <3>3. \A q \in DOMAIN x.listed : x.low[q] <= x.listed[q].rev /\ x.listed[q].rev <= RevisionOf(q)
      BY <1>2 DEF BundleOK
    <3> QED BY <1>5, <1>8, <3>1, <3>2, <3>3
  <2> QED BY <2>3, <2>4
<1> QED BY <1>7, <1>9, <1>10, <1>11

(* A bundle goes on to a phase, with what it has to have there. *)
LEMMA BundleMoves ==
    ASSUME EInv, UNCHANGED <<projectVars, cpVars, talk, file>>, NEW e \in Exporters,
           exporting[e] # None, exporting[e].kind = "bundle", NEW v,
           exporting' = [exporting EXCEPT ![e] = v], v.path = exporting[e].path, BundleOK(v)
    PROVE  EInv'
<1>1. v.kind = "bundle"
  BY BundleFields DEF BundleOK
<1>2. ExportOK(v)
  BY <1>1 DEF ExportOK
<1> QED BY <1>2, ExporterMoves

LEMMA StatusBuiltE ==
    ASSUME EInv, NEW e \in Exporters, StatusBuilt(e), talk' = talk
    PROVE  EInv'
<1>1. PICK x : x = exporting[e] /\ exporting[e] # None /\ x.phase = "status"
  BY DEF StatusBuilt
<1>2. x.kind = "bundle" /\ BundleOK(x) /\ x \in BundleRow
  BY <1>1, ExportKind
<1> DEFINE v == [x EXCEPT !.phase = "members", !.todo = DOMAIN x.listed]
<1>3. Moved(x, "members", DOMAIN x.listed) = v
  <2>1. [x EXCEPT !.phase = "members", !.todo = DOMAIN x.listed, !.high = x.high] = v
    BY <1>2 DEF BundleRow
  <2> QED BY <2>1 DEF Moved, RevisionRead
<1>4. exporting' = [exporting EXCEPT ![e] = v] /\ UNCHANGED <<projectVars, cpVars, talk, file>>
  BY <1>1, <1>3 DEF StatusBuilt
<1>5. /\ v.path = x.path /\ v.phase = "members" /\ v.todo = DOMAIN x.listed /\ v.listed = x.listed
      /\ v.got = x.got /\ v.low = x.low
  BY <1>2 DEF BundleRow
<1>6. v \in BundleRow
  BY <1>2, BundleFields DEF BundleRow
<1> HIDE DEF v
<1>7. BundleOK(v)
  BY <1>1, <1>2, <1>5, <1>6 DEF BundleOK
<1> QED BY <1>1, <1>2, <1>4, <1>5, <1>7, BundleMoves

LEMMA WriteBundleE ==
    ASSUME EInv, NEW e \in Exporters, WriteBundle(e), talk' = talk
    PROVE  EInv'
<1>1. PICK x : x = exporting[e] /\ exporting[e] # None /\ x.phase = "members" /\ x.todo = {}
  BY DEF WriteBundle
<1>2. x.kind = "bundle" /\ BundleOK(x) /\ x \in BundleRow
  BY <1>1, ExportKind
<1> DEFINE high == Revisions(Everything)
           v == [x EXCEPT !.phase = "manifest", !.todo = {}, !.high = high]
<1>3. Moved(x, "manifest", {}) = v
  BY DEF Moved, RevisionRead
<1>4. exporting' = [exporting EXCEPT ![e] = v] /\ UNCHANGED <<projectVars, cpVars, talk, file>>
  BY <1>1, <1>3 DEF WriteBundle
<1>5. high \in [Everything -> Nat] /\ \A r \in Everything : high[r] = RevisionOf(r)
  BY EverythingKnown DEF Revisions, EInv
<1> HIDE DEF high
<1>6. /\ v.path = x.path /\ v.phase = "manifest" /\ v.todo = {} /\ v.listed = x.listed
      /\ v.got = x.got /\ v.low = x.low /\ v.high = high
  BY <1>2 DEF BundleRow
<1>7. v \in BundleRow
  BY <1>2, <1>5 DEF BundleRow
<1> HIDE DEF v
<1>8. \A r \in DOMAIN x.got : x.got[r] <= high[r]
  BY <1>2, <1>5, BundleFields DEF BundleOK
<1>9. DOMAIN x.got = DOMAIN x.listed
  BY <1>1, <1>2 DEF BundleOK
<1>10. BundleOK(v)
  BY <1>2, <1>5, <1>6, <1>7, <1>8, <1>9 DEF BundleOK
<1> QED BY <1>1, <1>2, <1>4, <1>6, <1>10, BundleMoves

LEMMA ReadMemberE ==
    ASSUME EInv, NEW e \in Exporters, ReadMember(e), talk' = talk
    PROVE  EInv'
<1>1. PICK x : x = exporting[e] /\ exporting[e] # None /\ x.phase = "members"
  BY DEF ReadMember
<1>2. x.kind = "bundle" /\ BundleOK(x) /\ x \in BundleRow
  BY <1>1, ExportKind
<1>3. UNCHANGED <<projectVars, cpVars, talk, file>>
  BY DEF ReadMember
<1>4. PICK r \in x.todo :
        \/ Give(e)
        \/ exporting' = [exporting EXCEPT ![e].todo = @ \ {r}, ![e].got = Put(@, r, RevisionOf(r))]
  BY <1>1 DEF ReadMember, NextLinks
<1>5. CASE Give(e)
  BY <1>3, <1>5, ExporterMoves DEF Give
<1>6. CASE exporting' = [exporting EXCEPT ![e].todo = @ \ {r}, ![e].got = Put(@, r, RevisionOf(r))]
  <2> DEFINE got == Put(x.got, r, RevisionOf(r))
             v == [x EXCEPT !.todo = x.todo \ {r}, !.got = got]
  <2>1. exporting' = [exporting EXCEPT ![e] = v]
    BY <1>1, <1>6
  <2>2. /\ r \in Everything /\ RevisionOf(r) \in Nat /\ x.got \in Partial(Everything, Nat)
        /\ r \in DOMAIN x.listed /\ x.listed[r].rev <= RevisionOf(r)
    BY <1>1, <1>2, BundleFields, EverythingKnown DEF BundleOK, EInv
  <2>3. /\ got \in Partial(Everything, Nat) /\ DOMAIN got = (DOMAIN x.got) \union {r}
        /\ got[r] = RevisionOf(r) /\ \A q \in DOMAIN x.got \ {r} : got[q] = x.got[q]
    BY <2>2, PutRevision
  <2> HIDE DEF got
  <2>4. /\ v.path = x.path /\ v.phase = "members" /\ v.todo = x.todo \ {r}
        /\ v.listed = x.listed /\ v.got = got /\ v.low = x.low
    BY <1>1, <1>2 DEF BundleRow
  <2>5. v \in BundleRow
    BY <1>2, <2>3 DEF BundleRow
  <2> HIDE DEF v
  <2>6. \A q \in DOMAIN got : x.listed[q].rev <= got[q] /\ got[q] <= RevisionOf(q)
    BY <1>2, <2>2, <2>3 DEF BundleOK
  <2>7. x.todo \ {r} \subseteq DOMAIN x.listed /\ DOMAIN got = DOMAIN x.listed \ (x.todo \ {r})
    BY <1>1, <1>2, <2>2, <2>3 DEF BundleOK
  <2>8. BundleOK(v)
    BY <1>2, <2>4, <2>5, <2>6, <2>7 DEF BundleOK
  <2> QED BY <1>1, <1>2, <1>3, <2>1, <2>4, <2>8, BundleMoves
<1> QED BY <1>4, <1>5, <1>6

LEMMA VerifyBundleE ==
    ASSUME EInv, NEW e \in Exporters, VerifyBundle(e), talk' = talk
    PROVE  EInv'
<1>1. PICK x : x = exporting[e] /\ exporting[e] # None /\ x.phase = "manifest"
  BY DEF VerifyBundle
<1>2. x.kind = "bundle" /\ BundleOK(x) /\ x \in BundleRow
  BY <1>1, ExportKind
<1> DEFINE v == [x EXCEPT !.phase = "verified"]
<1>3. exporting' = [exporting EXCEPT ![e] = v] /\ UNCHANGED <<projectVars, cpVars, talk, file>>
  BY <1>1 DEF VerifyBundle
<1>4. /\ v.path = x.path /\ v.phase = "verified" /\ v.listed = x.listed /\ v.got = x.got
      /\ v.low = x.low /\ v.high = x.high
  BY <1>2 DEF BundleRow
<1>5. v \in BundleRow
  BY <1>2 DEF BundleRow
<1> HIDE DEF v
<1>6. BundleOK(v)
  BY <1>1, <1>2, <1>4, <1>5 DEF BundleOK
<1> QED BY <1>1, <1>2, <1>3, <1>4, <1>6, BundleMoves

LEMMA WritePackageE ==
    ASSUME EInv, NEW e \in Exporters, NEW p \in Paths, WritePackage(e, p), talk' = talk
    PROVE  EInv'
<1> DEFINE v == [kind |-> "package", path |-> p, project |-> None, phase |-> "verified",
                 todo |-> {}, listed |-> <<>>, got |-> <<>>, low |-> <<>>, high |-> <<>>]
<1>1. v \in PackageRow /\ v.kind = "package" /\ v.path = p
  BY DEF PackageRow
<1>2. /\ exporting' = [exporting EXCEPT ![e] = v] /\ file[p] = None
      /\ UNCHANGED <<projectVars, cpVars, talk, file>>
  BY DEF WritePackage, OutputFree
<1> HIDE DEF v
<1>3. ExportOK(v)
  BY <1>1 DEF ExportOK
<1> QED BY <1>1, <1>2, <1>3, ExporterMoves

LEMMA PublicationIs ==
    ASSUME NEW e, NEW finished
    PROVE  /\ Publication(e, finished).bundle = exporting[e]
           /\ Publication(e, finished).finished = finished
BY DEF Publication

LEMMA PublishBundleE ==
    ASSUME EInv, NEW e \in Exporters, PublishBundle(e), talk' = talk
    PROVE  EInv'
<1>1. PICK x : x = exporting[e] /\ exporting[e] # None /\ x.phase = "verified" /\ x.kind = "bundle"
  BY DEF PublishBundle
<1>2. BundleOK(x) /\ x \in BundleRow /\ x.path \in Paths
  BY <1>1, ExportKind
<1>3. BundleSound(x)
  <2>1. DOMAIN x.got = DOMAIN x.listed
    BY <1>1, <1>2 DEF BundleOK
  <2> QED BY <1>1, <1>2, <2>1 DEF BundleOK, BundleSound
<1>4. FileOK(Publication(e, TRUE))
  BY <1>1, <1>3, PublicationIs DEF FileOK
<1>5. /\ file' = [file EXCEPT ![exporting[e].path] = Publication(e, TRUE)]
      /\ exporting' = [exporting EXCEPT ![e] = None]
      /\ UNCHANGED <<projectVars, cpVars, talk>>
  BY DEF PublishBundle
<1> QED BY <1>1, <1>2, <1>4, <1>5, ExporterWrites

LEMMA PublishPackageE ==
    ASSUME EInv, NEW e \in Exporters, PublishPackage(e), talk' = talk
    PROVE  EInv'
<1>1. PICK x : x = exporting[e] /\ exporting[e] # None /\ x.kind = "package"
  BY DEF PublishPackage
<1>2. x \in PackageRow /\ x.path \in Paths
  BY <1>1, ExportKind
<1> DEFINE v == [x EXCEPT !.phase = "published"]
<1>3. v \in PackageRow /\ v.kind = "package" /\ v.path = x.path
  BY <1>2 DEF PackageRow
<1>4. /\ file' = [file EXCEPT ![exporting[e].path] = Publication(e, FALSE)]
      /\ exporting' = [exporting EXCEPT ![e] = v]
      /\ UNCHANGED <<projectVars, cpVars, talk>>
  BY <1>1 DEF PublishPackage
<1> HIDE DEF v
<1>5. ExportOK(v)
  BY <1>3 DEF ExportOK
<1>6. FileOK(Publication(e, FALSE))
  BY <1>1, PublicationIs DEF FileOK
<1> QED BY <1>1, <1>2, <1>3, <1>4, <1>5, <1>6, ExporterWrites

LEMMA SyncPackageE ==
    ASSUME EInv, NEW e \in Exporters, SyncPackage(e), talk' = talk
    PROVE  EInv'
<1>1. exporting[e] # None /\ exporting[e].kind = "package" /\ exporting[e].path \in Paths
  BY ExportKind DEF SyncPackage
<1>2. FileOK(Publication(e, TRUE))
  BY <1>1, PublicationIs DEF FileOK
<1>3. /\ \/ file' = file
         \/ file' = [file EXCEPT ![exporting[e].path] = Publication(e, TRUE)]
      /\ exporting' = [exporting EXCEPT ![e] = None]
      /\ UNCHANGED <<projectVars, cpVars, talk>>
  BY DEF SyncPackage
<1> QED BY <1>1, <1>2, <1>3, ExporterWrites

LEMMA BundleNextE ==
    ASSUME EInv, BundleNext, UNCHANGED escapeVars
    PROVE  EInv'
<1>1. talk' = talk
  BY DEF escapeVars
<1>2. ASSUME NEW e \in Exporters, FailExport(e) PROVE EInv'
  <2>1. exporting[e] # None /\ exporting[e].path \in Paths
    BY <1>2, ExportKind DEF FailExport
  <2>2. /\ file' = file \/ file' = [file EXCEPT ![exporting[e].path] = None]
        /\ exporting' = [exporting EXCEPT ![e] = None]
        /\ UNCHANGED <<projectVars, cpVars, talk>>
    BY <1>1, <1>2 DEF FailExport
  <2> QED BY <2>1, <2>2, ExporterWrites
<1>3. ASSUME NEW e \in Exporters, CrashExport(e) PROVE EInv'
  BY <1>1, <1>3, ExporterMoves DEF CrashExport
<1> QED BY <1>1, <1>2, <1>3, BeginBundleE, ReadStatusE, StatusBuiltE, ReadMemberE, WriteBundleE,
           VerifyBundleE, WritePackageE, PublishBundleE, PublishPackageE, SyncPackageE
           DEF BundleNext
-----------------------------------------------------------------------------
(* The escape, one step of it after the other.                             *)
LEMMA EscapeIs ==
    ASSUME EInv, NEW e \in Exporters, exporting[e] # None, exporting[e].kind = "escape"
    PROVE  LET x == exporting[e]
           IN  /\ EscapeOK(x) /\ x \in EscapeRow /\ x.path \in Paths
               /\ x.revision \in Nat /\ x.said \subseteq Sayings /\ x.todo \subseteq Projs
               /\ x.began.talk \subseteq Sayings
<1>1. EscapeOK(exporting[e]) /\ exporting[e] \in EscapeRow /\ exporting[e].path \in Paths
  BY ExportKind
<1>2. \A x \in EscapeRow : /\ x.revision \in Nat /\ x.said \subseteq Sayings /\ x.todo \subseteq Projs
                           /\ x.began.talk \subseteq Sayings
  BY DEF EscapeRow, Moment
<1> QED BY <1>1, <1>2

LEMMA EscapeMoves ==
    ASSUME EInv, NEW e \in Exporters, exporting[e] # None, exporting[e].kind = "escape", NEW v,
           Advance(e, v), v.path = exporting[e].path, EscapeOK(v)
    PROVE  EInv'
<1>1. v.kind = "escape"
  BY DEF EscapeOK, EscapeRow
<1>2. ExportOK(v)
  BY <1>1 DEF ExportOK
<1>3. exporting' = [exporting EXCEPT ![e] = v] /\ UNCHANGED <<projectVars, cpVars, talk, file>>
  BY DEF Advance, others
<1> QED BY <1>2, <1>3, ExporterMoves

LEMMA EscapeFailsE ==
    ASSUME EInv, NEW e \in Exporters, EscapeFails(e)
    PROVE  EInv'
<1>1. exporting[e] # None /\ exporting[e].path \in Paths
  BY EscapeIs DEF EscapeFails
<1>2. /\ file' = [file EXCEPT ![exporting[e].path] = None]
      /\ exporting' = [exporting EXCEPT ![e] = None]
      /\ UNCHANGED <<projectVars, cpVars, talk>>
  BY DEF EscapeFails, others
<1> QED BY <1>1, <1>2, ExporterWrites

LEMMA NowIsAMoment ==
    ASSUME EInv
    PROVE  /\ [project |-> project, talk |-> talk] \in Moment
           /\ commits \in Nat
BY DEF EInv, RInv, TablesOK, Moment

LEMMA BeginEscapeE ==
    ASSUME EInv, NEW e \in Exporters, NEW p \in Paths, BeginEscape(e, p)
    PROVE  EInv'
<1> DEFINE began == [project |-> project, talk |-> talk]
           v == [kind |-> "escape", path |-> p, phase |-> "package", revision |-> commits,
                 package |-> None, said |-> {}, todo |-> {}, got |-> <<>>, began |-> began]
<1>1. began \in Moment /\ commits \in Nat /\ began.project = project /\ began.talk = talk
  BY NowIsAMoment
<1>2. exporting' = [exporting EXCEPT ![e] = v] /\ file[p] = None
      /\ UNCHANGED <<projectVars, cpVars, talk, file>>
  BY DEF BeginEscape, OutputFree, others
<1> HIDE DEF began
<1>3. <<>> \in Partial(Projs, Nat) /\ DOMAIN <<>> = {}
  BY PartialEmpty
<1>4. v \in EscapeRow
  BY <1>1, <1>3 DEF EscapeRow, EscapePhase
<1>5. /\ v.kind = "escape" /\ v.path = p /\ v.phase = "package" /\ v.revision = commits
      /\ v.got = <<>> /\ v.began = began
  OBVIOUS
<1> HIDE DEF v
<1>6. commits <= commits
  BY <1>1
<1>7. EscapeOK(v)
  <2>1. Talked(v)
    BY <1>5 DEF Talked
  <2> QED BY <1>1, <1>3, <1>4, <1>5, <1>6, <2>1 DEF EscapeOK
<1>8. ExportOK(v)
  BY <1>5, <1>7 DEF ExportOK
<1> QED BY <1>2, <1>5, <1>8, ExporterMoves

LEMMA EscapePackageE ==
    ASSUME EInv, NEW e \in Exporters, EscapePackage(e)
    PROVE  EInv'
<1>1. PICK x : x = exporting[e] /\ exporting[e] # None /\ x.kind = "escape" /\ x.phase = "package"
  BY DEF EscapePackage, Escaping
<1>2. EscapeOK(x) /\ x \in EscapeRow
  BY <1>1, EscapeIs
<1> DEFINE now == [project |-> project, talk |-> talk]
           v == [x EXCEPT !.package = now, !.phase = "conversations"]
<1>3. CASE commits = x.revision /\ PackageValid(Records) /\ TalkPackaged
  <2>1. Advance(e, v)
    BY <1>1, <1>3 DEF EscapePackage
  <2>2. now \in Moment /\ now.project = project /\ now.talk = talk
    BY NowIsAMoment
  <2>3. x.began.project = project /\ x.began.talk = talk /\ x.began \in Moment
    BY <1>2, <1>3 DEF EscapeOK, EscapeRow
  <2>4. x.began = now
    <3>1. x.began = [project |-> x.began.project, talk |-> x.began.talk]
      BY <2>3 DEF Moment
    <3> QED BY <2>3, <3>1
  <2>5. x.began.talk = {} \/ Buildable(x.began.talk)
    BY <1>3, <2>3 DEF TalkPackaged
  <2> HIDE DEF now
  <2>6. /\ v.path = x.path /\ v.phase = "conversations" /\ v.package = now /\ v.began = x.began
        /\ v.revision = x.revision /\ v.got = x.got /\ v.said = x.said
    BY <1>2 DEF EscapeRow
  <2>7. v \in EscapeRow
    BY <1>2, <2>2 DEF EscapeRow, EscapePhase
  <2> HIDE DEF v
  <2>8. EscapeOK(v)
    <3>1. Talked(v)
      BY <2>6 DEF Talked
    <3> QED BY <1>1, <1>2, <2>4, <2>5, <2>6, <2>7, <3>1 DEF EscapeOK
  <2> QED BY <1>1, <2>1, <2>6, <2>8, EscapeMoves
<1>4. CASE ~(commits = x.revision /\ PackageValid(Records) /\ TalkPackaged)
  BY <1>1, <1>4, EscapeFailsE DEF EscapePackage
<1> QED BY <1>3, <1>4

LEMMA ListConversationsE ==
    ASSUME EInv, NEW e \in Exporters, ListConversations(e)
    PROVE  EInv'
<1>1. PICK x : x = exporting[e] /\ exporting[e] # None /\ x.kind = "escape" /\ x.phase = "conversations"
  BY DEF ListConversations, Escaping
<1>2. EscapeOK(x) /\ x \in EscapeRow
  BY <1>1, EscapeIs
<1> DEFINE said == Conversations(talk)
           v == [x EXCEPT !.said = said, !.phase = "events"]
<1>3. Advance(e, v)
  BY <1>1 DEF ListConversations
<1>4. said \subseteq Sayings
  BY DEF Conversations, EInv
<1>5. commits = x.revision => said = Conversations(x.began.talk)
  BY <1>2 DEF EscapeOK
<1> HIDE DEF said
<1>6. /\ v.path = x.path /\ v.phase = "events" /\ v.package = x.package /\ v.began = x.began
      /\ v.revision = x.revision /\ v.got = x.got /\ v.said = said
  BY <1>2 DEF EscapeRow
<1>7. v \in EscapeRow
  BY <1>2, <1>4 DEF EscapeRow, EscapePhase
<1> HIDE DEF v
<1>8. EscapeOK(v)
  BY <1>1, <1>2, <1>5, <1>6, <1>7 DEF EscapeOK, Talked
<1> QED BY <1>1, <1>3, <1>6, <1>8, EscapeMoves

(* Every event of conversations that can be built is an event of one of    *)
(* them.                                                                   *)
LEMMA EventsComplete ==
    ASSUME NEW set, set = {} \/ Buildable(set)
    PROVE  Conversations(set) \union
              {r \in Events(set) : \E q \in Conversations(set) : q.id = r.conversation} = set
<1>1. Conversations(set) \subseteq set /\ Events(set) = set \ Conversations(set)
  BY DEF Conversations, Events
<1>2. \A r \in Events(set) : \E q \in Conversations(set) : q.id = r.conversation
  BY <1>1 DEF Buildable, GraphValid
<1> QED BY <1>1, <1>2

LEMMA ListEventsE ==
    ASSUME EInv, NEW e \in Exporters, ListEvents(e)
    PROVE  EInv'
<1>1. PICK x : x = exporting[e] /\ exporting[e] # None /\ x.kind = "escape" /\ x.phase = "events"
  BY DEF ListEvents, Escaping
<1>2. EscapeOK(x) /\ x \in EscapeRow /\ x.said \subseteq Sayings
  BY <1>1, EscapeIs
<1> DEFINE said == x.said \union {r \in Events(talk) : \E q \in x.said : q.id = r.conversation}
           v == [x EXCEPT !.said = said, !.phase = "projects"]
<1>3. Advance(e, v) \/ EscapeFails(e)
  BY <1>1 DEF ListEvents
<1>4. said \subseteq Sayings
  BY <1>2 DEF Events, EInv
<1>5. commits = x.revision => said = x.began.talk
  <2>1. SUFFICES ASSUME commits = x.revision PROVE said = x.began.talk
    OBVIOUS
  <2>2. x.said = Conversations(x.began.talk) /\ talk = x.began.talk
    BY <1>1, <1>2, <2>1 DEF EscapeOK, Talked
  <2>3. x.began.talk = {} \/ Buildable(x.began.talk)
    BY <1>1, <1>2 DEF EscapeOK
  <2>4. PICK set : set = x.began.talk
    OBVIOUS
  <2> QED BY <2>2, <2>3, <2>4, EventsComplete
<1> HIDE DEF said
<1>6. /\ v.path = x.path /\ v.phase = "projects" /\ v.package = x.package /\ v.began = x.began
      /\ v.revision = x.revision /\ v.got = x.got /\ v.said = said
  BY <1>2 DEF EscapeRow
<1>7. v \in EscapeRow
  BY <1>2, <1>4 DEF EscapeRow, EscapePhase
<1> HIDE DEF v
<1>8. EscapeOK(v)
  BY <1>1, <1>2, <1>5, <1>6, <1>7 DEF EscapeOK, Talked
<1> QED BY <1>1, <1>3, <1>6, <1>8, EscapeMoves, EscapeFailsE

LEMMA ListProjectsE ==
    ASSUME EInv, NEW e \in Exporters, ListProjects(e)
    PROVE  EInv'
<1>1. PICK x : x = exporting[e] /\ exporting[e] # None /\ x.kind = "escape" /\ x.phase = "projects"
  BY DEF ListProjects, Escaping
<1>2. EscapeOK(x) /\ x \in EscapeRow
  BY <1>1, EscapeIs
<1>3. PICK todo \in SUBSET Projs :
          /\ todo = Shared(project)
          /\ commits = x.revision => {} = Shared(x.began.project) \ todo
  BY <1>2 DEF Shared, EscapeOK
<1> DEFINE v == [x EXCEPT !.todo = todo, !.phase = "resume"]
<1>4. Advance(e, v)
  BY <1>1, <1>3 DEF ListProjects
<1>5. /\ v.path = x.path /\ v.phase = "resume" /\ v.package = x.package /\ v.began = x.began
      /\ v.revision = x.revision /\ v.got = x.got /\ v.said = x.said /\ v.todo = todo
  BY <1>2 DEF EscapeRow
<1>6. v \in EscapeRow
  BY <1>2, <1>3 DEF EscapeRow, EscapePhase
<1> HIDE DEF v
<1>7. EscapeOK(v)
  BY <1>1, <1>2, <1>3, <1>5, <1>6 DEF EscapeOK, Talked
<1> QED BY <1>1, <1>4, <1>5, <1>7, EscapeMoves

LEMMA EscapeResumeE ==
    ASSUME EInv, NEW e \in Exporters, EscapeResume(e)
    PROVE  EInv'
<1>1. PICK x : x = exporting[e] /\ exporting[e] # None /\ x.kind = "escape" /\ x.phase = "resume"
  BY DEF EscapeResume, Escaping
<1>2. EscapeOK(x) /\ x \in EscapeRow /\ x.todo \subseteq Projs
  BY <1>1, EscapeIs
<1> DEFINE Got(w) == Put(x.got, w, RevisionOf(<<"project", w>>))
<1>3. PICK w \in x.todo :
        \/ ProjectLive(w) /\ ~project[w].secret /\ Advance(e, [x EXCEPT !.todo = @ \ {w}, !.got = Got(w)])
        \/ EscapeFails(e)
  BY <1>1 DEF EscapeResume
<1>4. CASE ProjectLive(w) /\ ~project[w].secret /\ Advance(e, [x EXCEPT !.todo = @ \ {w}, !.got = Got(w)])
  <2> DEFINE got == Got(w)
             v == [x EXCEPT !.todo = @ \ {w}, !.got = got]
  <2>1. w \in Projs /\ RevisionOf(<<"project", w>>) = project[w].rev
        /\ RevisionOf(<<"project", w>>) \in Nat /\ x.got \in Partial(Projs, Nat)
    BY <1>2, StoredIs DEF RevisionOf, EInv, RInv, TablesOK, ProjectRow, EscapeRow
  <2>2. /\ got \in Partial(Projs, Nat) /\ DOMAIN got = (DOMAIN x.got) \union {w}
        /\ got[w] = RevisionOf(<<"project", w>>) /\ \A q \in DOMAIN x.got \ {w} : got[q] = x.got[q]
    <3>1. PICK f, n : f = x.got /\ n = RevisionOf(<<"project", w>>)
      OBVIOUS
    <3>2. f \in Partial(Projs, Nat) /\ w \in Projs /\ n \in Nat
      BY <2>1, <3>1
    <3>3. /\ Put(f, w, n) \in Partial(Projs, Nat) /\ DOMAIN Put(f, w, n) = (DOMAIN f) \union {w}
          /\ Put(f, w, n)[w] = n /\ \A q \in DOMAIN f \ {w} : Put(f, w, n)[q] = f[q]
      <4>1. DOMAIN f \subseteq Projs /\ \A q \in DOMAIN f : f[q] \in Nat
        BY <3>2 DEF Partial
      <4>2. (DOMAIN f) \union {w} \in SUBSET Projs /\ Put(f, w, n) \in [(DOMAIN f) \union {w} -> Nat]
        BY <3>2, <4>1 DEF Put
      <4>3. Put(f, w, n) \in Partial(Projs, Nat)
        BY <4>2 DEF Partial
      <4> QED BY <4>3 DEF Put
    <3>4. got = Put(f, w, n)
      BY <3>1
    <3> HIDE DEF got
    <3> QED BY <3>1, <3>3, <3>4
  <2> HIDE DEF Got
  <2>3. Advance(e, v)
    BY <1>4
  <2> HIDE DEF got
  <2>4. /\ v.path = x.path /\ v.phase = "resume" /\ v.package = x.package /\ v.began = x.began
        /\ v.revision = x.revision /\ v.got = got /\ v.said = x.said /\ v.todo = x.todo \ {w}
    BY <1>1, <1>2 DEF EscapeRow
  <2>5. v \in EscapeRow
    BY <1>2, <2>2 DEF EscapeRow
  <2> HIDE DEF v
  <2>6. commits = x.revision => DOMAIN got = Shared(x.began.project) \ (x.todo \ {w})
    <3>1. commits = x.revision => w \in Shared(x.began.project)
      BY <1>2, <1>4, <2>1 DEF EscapeOK, Shared
    <3> QED BY <1>1, <1>2, <2>1, <2>2, <3>1 DEF EscapeOK
  <2>7. ASSUME commits = x.revision
        PROVE  \A q \in DOMAIN got : x.began.project[q].active /\ got[q] = x.began.project[q].rev
    <3>1. project = x.began.project
          /\ \A q \in DOMAIN x.got : x.began.project[q].active /\ x.got[q] = x.began.project[q].rev
      BY <1>2, <2>7 DEF EscapeOK
    <3> QED BY <1>4, <2>1, <2>2, <3>1 DEF ProjectLive
  <2>8. EscapeOK(v)
    BY <1>1, <1>2, <2>4, <2>5, <2>6, <2>7 DEF EscapeOK, Talked
  <2> QED BY <1>1, <2>3, <2>4, <2>8, EscapeMoves
<1> QED BY <1>3, <1>4, EscapeFailsE

LEMMA WriteEscapeE ==
    ASSUME EInv, NEW e \in Exporters, WriteEscape(e)
    PROVE  EInv'
<1>1. PICK x : x = exporting[e] /\ exporting[e] # None /\ x.kind = "escape" /\ x.phase = "resume"
               /\ x.todo = {}
  BY DEF WriteEscape, Escaping
<1>2. EscapeOK(x) /\ x \in EscapeRow
  BY <1>1, EscapeIs
<1> DEFINE v == [x EXCEPT !.phase = "written"]
<1>3. Advance(e, v)
  BY <1>1 DEF WriteEscape
<1>4. /\ v.path = x.path /\ v.phase = "written" /\ v.package = x.package /\ v.began = x.began
      /\ v.revision = x.revision /\ v.got = x.got /\ v.said = x.said
  BY <1>2 DEF EscapeRow
<1>5. v \in EscapeRow
  BY <1>2 DEF EscapeRow, EscapePhase
<1> HIDE DEF v
<1>6. commits = x.revision => DOMAIN x.got = Shared(x.began.project)
  BY <1>1, <1>2 DEF EscapeOK
<1>7. EscapeOK(v)
  BY <1>1, <1>2, <1>4, <1>5, <1>6 DEF EscapeOK, Talked
<1> QED BY <1>1, <1>3, <1>4, <1>7, EscapeMoves

LEMMA ReplaceEscapeE ==
    ASSUME EInv, NEW e \in Exporters, ReplaceEscape(e)
    PROVE  EInv'
<1>1. PICK x : x = exporting[e] /\ exporting[e] # None /\ x.kind = "escape" /\ x.phase = "written"
  BY DEF ReplaceEscape, Escaping
<1>2. EscapeOK(x) /\ x \in EscapeRow /\ x.path \in Paths
  BY <1>1, EscapeIs
<1> DEFINE v == [x EXCEPT !.phase = "replaced"]
<1>3. /\ file' = [file EXCEPT ![exporting[e].path] = Publication(e, FALSE)]
      /\ exporting' = [exporting EXCEPT ![e] = v]
      /\ UNCHANGED <<projectVars, cpVars, talk>>
  BY <1>1 DEF ReplaceEscape, others
<1>4. /\ v.kind = "escape" /\ v.path = x.path /\ v.phase = "replaced" /\ v.package = x.package
      /\ v.began = x.began /\ v.revision = x.revision /\ v.got = x.got /\ v.said = x.said
  BY <1>1, <1>2 DEF EscapeRow
<1>5. v \in EscapeRow
  BY <1>2 DEF EscapeRow, EscapePhase
<1> HIDE DEF v
<1>6. EscapeOK(v)
  BY <1>1, <1>2, <1>4, <1>5 DEF EscapeOK, Talked
<1>7. ExportOK(v)
  BY <1>4, <1>6 DEF ExportOK
<1>8. FileOK(Publication(e, FALSE))
  BY <1>1, PublicationIs DEF FileOK
<1> QED BY <1>1, <1>2, <1>3, <1>4, <1>7, <1>8, ExporterWrites

(* The text of what can be built has no line separator. *)
LEMMA BuiltIsPlain ==
    ASSUME NEW set \in SUBSET Sayings, set = {} \/ Buildable(set)
    PROVE  \A r \in set : r.text = "plain"
<1> SUFFICES ASSUME NEW r \in set, r.text # "plain" PROVE FALSE
  OBVIOUS
<1>1. r.text = "separated"
  BY SayingsAssumption
<1>2. LineOf(r) = <<"half", "half">> /\ LineOf(r) = <<r.id>>
  BY <1>1 DEF Buildable, LinesParse, LineOf
<1>3. Len(<<"half", "half">>) = 2 /\ Len(<<r.id>>) = 1
  OBVIOUS
<1> QED BY <1>2, <1>3

LEMMA CompareStatusE ==
    ASSUME EInv, NEW e \in Exporters, CompareStatus(e)
    PROVE  EInv'
<1>1. PICK x : x = exporting[e] /\ exporting[e] # None /\ x.kind = "escape" /\ x.phase = "replaced"
               /\ commits = x.revision
  BY DEF CompareStatus, Escaping, StatusUnchanged
<1>2. EscapeOK(x) /\ x \in EscapeRow /\ x.path \in Paths /\ x.began.talk \subseteq Sayings
  BY <1>1, EscapeIs
<1>3. /\ x.package = x.began /\ (x.began.talk = {} \/ Buildable(x.began.talk))
      /\ DOMAIN x.got = Shared(x.began.project) /\ x.said = x.began.talk
      /\ \A w \in DOMAIN x.got : x.began.project[w].active /\ x.got[w] = x.began.project[w].rev
  BY <1>1, <1>2 DEF EscapeOK, Talked
<1>4. x.got = [w \in Shared(x.began.project) |-> x.began.project[w].rev]
  <2>1. x.got \in Partial(Projs, Nat)
    BY <1>2 DEF EscapeRow
  <2>2. ASSUME NEW f \in Partial(Projs, Nat) PROVE f = [w \in DOMAIN f |-> f[w]]
    BY <2>2, PartialIs
  <2>3. x.got = [w \in DOMAIN x.got |-> x.got[w]]
    BY <2>1, <2>2
  <2> QED BY <1>3, <2>3
<1>5. \A r \in x.began.talk : r.text = "plain"
  <2>1. PICK set : set = x.began.talk
    OBVIOUS
  <2> QED BY <1>2, <1>3, <2>1, BuiltIsPlain
<1>6. EscapeSound(x)
  BY <1>3, <1>4, <1>5 DEF EscapeSound
<1>7. FileOK(Publication(e, TRUE))
  BY <1>1, <1>6, PublicationIs DEF FileOK
<1>8. /\ \/ file' = file
         \/ file' = [file EXCEPT ![exporting[e].path] = Publication(e, TRUE)]
      /\ exporting' = [exporting EXCEPT ![e] = None]
      /\ UNCHANGED <<projectVars, cpVars, talk>>
  BY <1>1 DEF CompareStatus, others
<1> QED BY <1>1, <1>2, <1>7, <1>8, ExporterWrites

LEMMA EscapeNextE == EInv /\ EscapeNext => EInv'
<1> SUFFICES ASSUME EInv, EscapeNext PROVE EInv'
  OBVIOUS
<1>1. ASSUME NEW e \in Exporters, CrashExport(e), UNCHANGED escapeVars PROVE EInv'
  BY <1>1, ExporterMoves DEF CrashExport, escapeVars
<1> QED BY <1>1, BeginEscapeE, EscapePackageE, ListConversationsE, ListEventsE, ListProjectsE,
           EscapeResumeE, WriteEscapeE, ReplaceEscapeE, CompareStatusE, EscapeFailsE DEF EscapeNext
-----------------------------------------------------------------------------
LEMMA InitE == ExportsInit => EInv
<1> SUFFICES ASSUME ExportsInit PROVE EInv
  OBVIOUS
<1>1. RInv
  BY InitW DEF ExportsInit
<1> QED BY <1>1 DEF ExportsInit, BundleInit, EInv, RivalsKnown

LEMMA ExportsNextE == EInv /\ [ExportsNext]_exportsVars => EInv'
<1> SUFFICES ASSUME EInv, [ExportsNext]_exportsVars PROVE EInv'
  OBVIOUS
<1>1. ASSUME RInv', Grows, UNCHANGED bundleVars, talk' \subseteq Sayings, commits' = commits => talk' = talk
      PROVE  EInv'
  BY <1>1, EStep DEF EInv, bundleVars
<1>2. CASE [CheckpointsNext]_<<projectVars, cpVars>> /\ UNCHANGED <<bundleVars, talk>>
  BY <1>1, <1>2, CheckpointsNextW DEF EInv
<1>3. ASSUME NEW r \in Sayings, SaySomething(r) PROVE EInv'
  <2>1. RInv' /\ Grows
    BY <1>3, RoomR DEF SaySomething, EInv, tables
  <2>2. commits' # commits
    BY <1>3 DEF SaySomething, EInv, RInv, TablesOK
  <2>3. talk' \subseteq Sayings
    BY <1>3 DEF SaySomething, EInv
  <2> QED BY <1>1, <1>3, <2>1, <2>2, <2>3 DEF SaySomething
<1> QED BY <1>2, <1>3, BundleNextE, EscapeNextE DEF ExportsNext, exportsVars, escapeVars

(* A bundle is published with contents bounded by two states the           *)
(* repository was in (ResumeBundleService.export): for any number of       *)
(* exporters, writers and records.                                         *)
THEOREM BundlesAlwaysBounded == ExportsSpec => []BundleBounded
<1>1. EInv => BundleBounded
  BY DEF EInv, FileOK, BundleSound, BundleBounded
<1> QED BY <1>1, InitE, ExportsNextE, PTL DEF ExportsSpec

(* A finished escape is of the one moment it began at, whoever wrote and   *)
(* exported meanwhile (export_shutdown_escape_bundle): the revision it     *)
(* compares last is enough, because every transaction counts.              *)
THEOREM EscapesAlwaysOneMoment == ExportsSpec => []EscapeIsOneMoment
<1>1. EInv => EscapeIsOneMoment
  BY DEF EInv, FileOK, EscapeSound, EscapeIsOneMoment
<1> QED BY <1>1, InitE, ExportsNextE, PTL DEF ExportsSpec
-----------------------------------------------------------------------------
(* The five names of a generic export are five.                            *)
LEMMA FiveFiles ==
    /\ DOMAIN FileOrder = 1..5 /\ Len(FileOrder) = 5
    /\ \A i \in 1..5 : FileOrder[i] \in Names
    /\ \A n \in Names : \E i \in 1..5 : n = FileOrder[i]
    /\ \A i, j \in 1..5 : FileOrder[i] = FileOrder[j] => i = j
<1>1. DOMAIN FileOrder = 1..5 /\ Len(FileOrder) = 5
  BY DEF FileOrder
<1>2. \A i, j \in 1..5 : FileOrder[i] = FileOrder[j] => i = j
  <2> SUFFICES ASSUME NEW i \in 1..5, NEW j \in 1..5, FileOrder[i] = FileOrder[j] PROVE i = j
    OBVIOUS
  <2>1. \A k \in 1..5 : k = 1 \/ k = 2 \/ k = 3 \/ k = 4 \/ k = 5
    OBVIOUS
  <2> QED BY <2>1 DEF FileOrder
<1> QED BY <1>1, <1>2 DEF Names

ManagedOK ==
    /\ managed \subseteq (Prefixes \union {"none"}) \X Names \X Publishers
    /\ \A f, g \in managed : f[1] = g[1] /\ f[2] = g[2] => f = g

(* What a call does to the files of the others: nothing. *)
LEMMA PublisherSteps ==
    ASSUME GInv, NEW u \in Publishers, NEW s \in PublishingRow,
           publishing' = [publishing EXCEPT ![u] = s], ManagedOK',
           {f \in managed' : f[3] # u} = {f \in managed : f[3] # u},
           spoiled' \ {u} = spoiled \ {u},
           PublisherOK(u)'
    PROVE  GInv'
<1>1. publishing' \in [Publishers -> PublishingRow]
  BY DEF GInv
<1>2. ASSUME NEW q \in Publishers, q # u PROVE PublisherOK(q)'
  <2>1. publishing'[q] = publishing[q] /\ (q \in spoiled' <=> q \in spoiled) /\ PublisherOK(q)
    BY <1>2 DEF GInv
  <2>2. \A f \in managed' : f[3] = q => f \in managed
    BY <1>2
  <2>3. \A x, n : <<x, n, q>> \in managed' <=> <<x, n, q>> \in managed
    <3> SUFFICES ASSUME NEW x, NEW n PROVE <<x, n, q>> \in managed' <=> <<x, n, q>> \in managed
      OBVIOUS
    <3> DEFINE f == <<x, n, q>>
    <3>1. f[3] = q
      OBVIOUS
    <3> HIDE DEF f
    <3>2. f \in managed' <=> f \in managed
      BY <1>2, <3>1
    <3> QED BY <3>2 DEF f
  <2>4. \A n : Owns(q, n)' <=> Owns(q, n)
    BY <2>1, <2>3 DEF Owns
  <2>5. DoneBy(q)' = DoneBy(q)
    BY <2>1 DEF DoneBy
  <2> QED BY <2>1, <2>2, <2>4, <2>5 DEF PublisherOK
<1> QED BY <1>1, <1>2 DEF GInv, ManagedOK

LEMMA PublisherIs ==
    ASSUME GInv, NEW u \in Publishers
    PROVE  /\ publishing[u] \in PublishingRow /\ PublisherOK(u) /\ ManagedOK
           /\ publishing[u].done \in Seq(Names) /\ Len(publishing[u].done) \in 0..5
           /\ DOMAIN publishing[u].done = 1..Len(publishing[u].done)
<1>1. publishing[u] \in PublishingRow /\ PublisherOK(u) /\ ManagedOK
  BY DEF GInv, ManagedOK
<1>2. PICK d : d = publishing[u].done /\ d \in Seq(Names)
  BY <1>1 DEF PublishingRow
<1>3. Len(d) \in Nat /\ DOMAIN d = 1..Len(d) /\ Len(d) <= 5
  BY <1>1, <1>2, FiveFiles DEF PublisherOK
<1>4. Len(d) \in 0..5
  BY <1>3
<1> QED BY <1>1, <1>2, <1>3, <1>4

LEMMA BeginPublishG ==
    ASSUME GInv, NEW u \in Publishers, NEW x \in Prefixes, BeginPublish(u, x)
    PROVE  GInv'
<1>1. PICK s : s = [prefix |-> x, done |-> <<>>, pc |-> "files"]
  OBVIOUS
<1>2. s \in PublishingRow /\ s.prefix = x /\ s.done = <<>> /\ s.pc = "files"
  BY <1>1 DEF PublishingRow
<1>3. publishing' = [publishing EXCEPT ![u] = s] /\ publishing[u].pc = "idle"
      /\ managed' = managed /\ spoiled' = spoiled
  BY <1>1 DEF BeginPublish
<1>4. publishing'[u] = s
  BY <1>3 DEF GInv
<1>5. \A f \in managed : f[3] # u
  <2> SUFFICES ASSUME NEW f \in managed, f[3] = u PROVE FALSE
    OBVIOUS
  <2>1. f = <<f[1], f[2], u>> /\ f[2] \in Names /\ f[1] = publishing[u].prefix
    BY PublisherIs DEF ManagedOK, PublisherOK
  <2> QED BY <1>3, <2>1, PublisherIs DEF PublisherOK, Owns
<1>6. PublisherOK(u)'
  <2>1. \A n : ~Owns(u, n)'
    BY <1>3, <1>5 DEF Owns
  <2>2. DoneBy(u)' = {}
    BY <1>2, <1>4 DEF DoneBy
  <2> QED BY <1>2, <1>3, <1>4, <1>5, <2>1, <2>2, FiveFiles DEF PublisherOK
<1> QED BY <1>2, <1>3, <1>6, PublisherSteps, PublisherIs DEF ManagedOK

(* A call that only moves on keeps its files. *)
LEMMA MovesOnG ==
    ASSUME GInv, NEW u \in Publishers, NEW pc \in {"files", "cleanup", "done", "failed"},
           publishing' = [publishing EXCEPT ![u].pc = pc], managed' = managed,
           spoiled' \ {u} = spoiled \ {u}, publishing[u].pc # "idle",
           pc # "files",
           pc = "cleanup" => publishing[u].pc = "files",
           pc = "done" => publishing[u].pc = "files" /\ Len(publishing[u].done) = 5,
           pc = "failed" /\ u \notin spoiled' => publishing[u].pc = "cleanup" /\ publishing[u].done = <<>>
                                                 /\ u \notin spoiled
    PROVE  GInv'
<1>1. PICK s, t : t = publishing[u] /\ s = [t EXCEPT !.pc = pc]
  OBVIOUS
<1>2. t \in PublishingRow /\ t.done \in Seq(Names)
  BY <1>1, PublisherIs
<1>3. s \in PublishingRow /\ s.prefix = t.prefix /\ s.done = t.done /\ s.pc = pc
  BY <1>1, <1>2 DEF PublishingRow
<1>4. publishing' = [publishing EXCEPT ![u] = s] /\ publishing'[u] = s
  BY <1>1 DEF GInv
<1>5. \A n : Owns(u, n)' <=> Owns(u, n)
  BY <1>1, <1>3, <1>4 DEF Owns
<1>6. DoneBy(u)' = DoneBy(u)
  BY <1>1, <1>3, <1>4 DEF DoneBy
<1>7. Len(t.done) = 5 => \A n \in Names : n \in DoneBy(u)
  BY <1>1, PublisherIs, FiveFiles DEF PublisherOK, DoneBy
<1>8. t.done = <<>> => \A n \in Names : n \notin DoneBy(u)
  BY <1>1 DEF DoneBy
<1>9. PublisherOK(u) /\ (u \in spoiled => u \in spoiled' \/ pc # "failed")
  BY PublisherIs
<1>10. PublisherOK(u)'
  <2>1. CASE pc = "cleanup"
    BY <1>1, <1>3, <1>4, <1>5, <1>6, <1>9, <2>1 DEF PublisherOK
  <2>2. CASE pc = "done"
    BY <1>1, <1>3, <1>4, <1>5, <1>6, <1>7, <1>9, <2>2 DEF PublisherOK
  <2>3. CASE pc = "failed"
    BY <1>1, <1>3, <1>4, <1>5, <1>6, <1>8, <1>9, <2>3 DEF PublisherOK
  <2> QED BY <2>1, <2>2, <2>3
<1> QED BY <1>3, <1>4, <1>10, PublisherSteps, PublisherIs DEF ManagedOK

LEMMA PublishFileG ==
    ASSUME GInv, NEW u \in Publishers, PublishFile(u)
    PROVE  GInv'
<1>1. PICK t, n : /\ t = publishing[u] /\ n = FileOrder[Len(t.done) + 1]
                  /\ t.pc = "files" /\ Len(t.done) < 5 /\ NameFree(t.prefix, n)
                  /\ managed' = {f \in managed : f[1] # t.prefix \/ f[2] # n} \union {<<t.prefix, n, u>>}
                  /\ publishing' = [publishing EXCEPT ![u].done = Append(@, n)]
                  /\ spoiled' = spoiled
  BY FiveFiles DEF PublishFile
<1>2. /\ t \in PublishingRow /\ t.done \in Seq(Names) /\ Len(t.done) \in 0..4
      /\ DOMAIN t.done = 1..Len(t.done) /\ PublisherOK(u) /\ ManagedOK
  <2>1. Len(t.done) \in 0..5 /\ Len(t.done) < 5
    BY <1>1, PublisherIs
  <2>2. Len(t.done) \in 0..4
    BY <2>1
  <2> QED BY <1>1, <2>2, PublisherIs
<1>3. n \in Names /\ t.prefix \in Prefixes \union {"none"}
  BY <1>1, <1>2, FiveFiles DEF PublishingRow
<1> DEFINE d == Append(t.done, n)
<1>4. /\ d \in Seq(Names) /\ Len(d) = Len(t.done) + 1
      /\ DOMAIN d = 1..Len(d) /\ d[Len(d)] = n
      /\ \A i \in 1..Len(t.done) : d[i] = t.done[i]
  BY <1>2, <1>3
<1>5. PICK s : s = [t EXCEPT !.done = d]
  OBVIOUS
<1>50. publishing' = [publishing EXCEPT ![u] = s]
  BY <1>1, <1>5
<1> HIDE DEF d
<1>6. s \in PublishingRow /\ s.prefix = t.prefix /\ s.done = d /\ s.pc = "files"
  BY <1>1, <1>2, <1>4, <1>5 DEF PublishingRow
<1>7. publishing' = [publishing EXCEPT ![u] = s] /\ publishing'[u] = s
  BY <1>50 DEF GInv
<1>8. \A f \in managed : f[1] = t.prefix /\ f[2] = n => FALSE
  <2> SUFFICES ASSUME NEW f \in managed, f[1] = t.prefix, f[2] = n PROVE FALSE
    OBVIOUS
  <2>1. f = <<t.prefix, n, f[3]>> /\ f[3] \in Publishers
    BY <1>2 DEF ManagedOK
  <2> QED BY <1>1, <2>1 DEF NameFree
<1>9. managed' = managed \union {<<t.prefix, n, u>>}
  BY <1>1, <1>8
<1> DEFINE new == <<t.prefix, n, u>>
<1>10. new[1] = t.prefix /\ new[2] = n /\ new[3] = u
       /\ new \in (Prefixes \union {"none"}) \X Names \X Publishers
  BY <1>3
<1>11. \A m : Owns(u, m)' <=> Owns(u, m) \/ m = n
  <2> SUFFICES ASSUME NEW m PROVE Owns(u, m)' <=> Owns(u, m) \/ m = n
    OBVIOUS
  <2>1. Owns(u, m)' <=> <<t.prefix, m, u>> \in managed'
    BY <1>6, <1>7 DEF Owns
  <2>2. Owns(u, m) <=> <<t.prefix, m, u>> \in managed
    BY <1>1 DEF Owns
  <2>3. <<t.prefix, m, u>> = <<t.prefix, n, u>> <=> m = n
    OBVIOUS
  <2> QED BY <1>9, <2>1, <2>2, <2>3
<1> HIDE DEF new
<1>12. managed' = managed \union {new}
  BY <1>9 DEF new
<1>13. ManagedOK'
  BY <1>2, <1>8, <1>10, <1>12 DEF ManagedOK
<1>14. {f \in managed' : f[3] # u} = {f \in managed : f[3] # u}
  BY <1>10, <1>12
<1>15. \A m : m \in DoneBy(u)' <=> m \in DoneBy(u) \/ m = n
  <2>1. \A m : m \in DoneBy(u) <=> \E i \in 1..Len(t.done) : m = t.done[i]
    BY <1>1, <1>2 DEF DoneBy
  <2>2. \A m : m \in DoneBy(u)' <=> \E i \in 1..(Len(t.done) + 1) : m = d[i]
    BY <1>4, <1>6, <1>7 DEF DoneBy
  <2>3. \A i \in 1..(Len(t.done) + 1) : i \in 1..Len(t.done) \/ i = Len(t.done) + 1
    BY <1>2
  <2>4. \A i \in 1..Len(t.done) : i \in 1..(Len(t.done) + 1)
    BY <1>2
  <2>5. Len(t.done) + 1 \in 1..(Len(t.done) + 1) /\ d[Len(t.done) + 1] = n
    BY <1>2, <1>4
  <2> QED BY <1>4, <2>1, <2>2, <2>3, <2>4, <2>5
<1>16. \A i \in DOMAIN d : d[i] = FileOrder[i]
  <2>1. \A i \in 1..Len(t.done) : d[i] = FileOrder[i]
    <3>1. \A i \in 1..Len(t.done) : t.done[i] = FileOrder[i]
      BY <1>1, <1>2 DEF PublisherOK
    <3> QED BY <1>4, <3>1
  <2>2. d[Len(t.done) + 1] = FileOrder[Len(t.done) + 1]
    BY <1>1, <1>4
  <2>3. \A i \in DOMAIN d : i \in 1..Len(t.done) \/ i = Len(t.done) + 1
    BY <1>2, <1>4
  <2> QED BY <2>1, <2>2, <2>3
<1>17. \A f \in managed' : f[3] = u => f[1] = s.prefix
  BY <1>1, <1>2, <1>6, <1>10, <1>12 DEF PublisherOK
<1>18. PublisherOK(u)'
  BY <1>1, <1>2, <1>4, <1>6, <1>7, <1>11, <1>15, <1>16, <1>17, FiveFiles DEF PublisherOK
<1> QED BY <1>1, <1>6, <1>7, <1>13, <1>14, <1>18, PublisherSteps

LEMMA OneToFive == \A k \in 1..5 : k \in Int /\ 1 <= k /\ k <= 5
OBVIOUS

(* The name the cleanup gives back is the call's own, because whoever had  *)
(* it first still has it.                                                  *)
LEMMA CleanupFileG ==
    ASSUME GInv, NEW u \in Publishers, CleanupFile(u)
    PROVE  GInv'
<1>1. PICK t, n : /\ t = publishing[u] /\ n = t.done[Len(t.done)]
                  /\ t.pc = "cleanup" /\ t.done # <<>>
                  /\ \/ managed' = managed \ {<<t.prefix, n, q>> : q \in Publishers} /\ spoiled' = spoiled
                     \/ managed' = managed /\ spoiled' = spoiled \union {u}
                  /\ publishing' = [publishing EXCEPT ![u].done = SubSeq(@, 1, Len(@) - 1)]
  BY DEF CleanupFile
<1>2. /\ t \in PublishingRow /\ t.done \in Seq(Names) /\ Len(t.done) \in 1..5
      /\ DOMAIN t.done = 1..Len(t.done) /\ PublisherOK(u) /\ ManagedOK
  BY <1>1, PublisherIs
<1>3. n \in Names /\ n = FileOrder[Len(t.done)] /\ n \in DoneBy(u) /\ Owns(u, n)
  <2>1. n \in Names /\ n = FileOrder[Len(t.done)] /\ n \in DoneBy(u)
    BY <1>1, <1>2, FiveFiles DEF PublisherOK, DoneBy
  <2> QED BY <1>1, <1>2, <2>1 DEF PublisherOK
<1> DEFINE d == SubSeq(t.done, 1, Len(t.done) - 1)
<1>4. /\ d \in Seq(Names)
      /\ Len(d) = Len(t.done) - 1 /\ DOMAIN d = 1..Len(d)
      /\ \A i \in 1..Len(d) : d[i] = t.done[i]
  <2>1. PICK q, k : q = t.done /\ q \in Seq(Names) /\ k = Len(q) /\ k \in Int /\ 1 <= k /\ k <= 5
    BY <1>2, OneToFive
  <2> DEFINE e == SubSeq(q, 1, k - 1)
  <2>2. k - 1 \in 0..k /\ k - 1 \in Nat
    BY <2>1
  <2>3. e \in Seq(Names)
    BY <2>1, <2>2
  <2>4. Len(e) = k - 1 /\ \A i \in 1..(k - 1) : e[i] = q[i]
    BY <2>1, <2>2
  <2> QED BY <2>1, <2>3, <2>4
<1>5. PICK s : s = [t EXCEPT !.done = d]
  OBVIOUS
<1>50. publishing' = [publishing EXCEPT ![u] = s]
  BY <1>1, <1>5
<1> HIDE DEF d
<1>6. s \in PublishingRow /\ s.prefix = t.prefix /\ s.done = d /\ s.pc = "cleanup"
  BY <1>1, <1>2, <1>4, <1>5 DEF PublishingRow
<1>7. publishing' = [publishing EXCEPT ![u] = s] /\ publishing'[u] = s
  BY <1>50 DEF GInv
<1>8. \A m : m \in DoneBy(u)' <=> m \in DoneBy(u) /\ m # n
  <2>1. PICK k : k = Len(t.done) /\ k \in Int /\ 1 <= k /\ k <= 5 /\ DOMAIN d = 1..(k - 1)
    BY <1>2, <1>4, OneToFive
  <2>2. \A m : m \in DoneBy(u) <=> \E i \in 1..k : m = FileOrder[i]
    BY <1>1, <1>2, <2>1 DEF DoneBy, PublisherOK
  <2>3. \A m : m \in DoneBy(u)' <=> \E i \in DOMAIN d : m = d[i]
    BY <1>6, <1>7 DEF DoneBy
  <2>4. \A i \in 1..(k - 1) : d[i] = FileOrder[i]
    BY <1>1, <1>2, <1>4, <2>1 DEF PublisherOK
  <2>5. \A i \in 1..(k - 1) : i \in 1..k /\ i \in 1..5 /\ i # k
    BY <2>1
  <2>6. n = FileOrder[k]
    BY <1>3, <2>1
  <2>7. \A i \in 1..(k - 1) : FileOrder[i] # n
    <3>1. k \in 1..5
      BY <1>2, <2>1
    <3> SUFFICES ASSUME NEW i \in 1..(k - 1), FileOrder[i] = n PROVE FALSE
      OBVIOUS
    <3>2. i \in 1..5 /\ i # k
      BY <2>5
    <3> QED BY <2>6, <3>1, <3>2, FiveFiles
  <2>8. \A i \in 1..k : i \in 1..(k - 1) \/ i = k
    BY <2>1
  <2>9. \A m : m \in DoneBy(u)' <=> \E i \in 1..(k - 1) : m = FileOrder[i]
    BY <2>1, <2>3, <2>4
  <2> QED BY <2>2, <2>5, <2>6, <2>7, <2>8, <2>9
<1>9. \A i \in DOMAIN d : d[i] = FileOrder[i]
  BY <1>1, <1>2, <1>4 DEF PublisherOK
<1> DEFINE mine == <<t.prefix, n, u>>
<1>10. mine[1] = t.prefix /\ mine[2] = n /\ mine[3] = u /\ mine \in managed
  BY <1>1, <1>3 DEF Owns
<1>11. CASE managed' = managed /\ spoiled' = spoiled \union {u}
  <2>1. \A m : Owns(u, m)' <=> Owns(u, m)
    BY <1>1, <1>6, <1>7, <1>11 DEF Owns
  <2>2. PublisherOK(u)'
    BY <1>1, <1>2, <1>4, <1>6, <1>7, <1>8, <1>9, <1>11, <2>1, FiveFiles DEF PublisherOK
  <2> QED BY <1>2, <1>6, <1>7, <1>11, <2>2, PublisherSteps DEF ManagedOK
<1>12. CASE managed' = managed \ {<<t.prefix, n, q>> : q \in Publishers} /\ spoiled' = spoiled
  <2>1. managed' = managed \ {mine}
    <3>1. ASSUME NEW q \in Publishers, <<t.prefix, n, q>> \in managed PROVE q = u
      <4> DEFINE g == <<t.prefix, n, q>>
      <4>1. g[1] = t.prefix /\ g[2] = n /\ g[3] = q /\ g \in managed
        BY <3>1
      <4> HIDE DEF g, mine
      <4>2. g = mine
        BY <1>2, <1>10, <4>1 DEF ManagedOK
      <4> QED BY <1>10, <4>1, <4>2
    <3> QED BY <1>12, <3>1
  <2>2. \A m : Owns(u, m)' <=> Owns(u, m) /\ m # n
    <3> SUFFICES ASSUME NEW m PROVE Owns(u, m)' <=> Owns(u, m) /\ m # n
      OBVIOUS
    <3>1. Owns(u, m)' <=> <<t.prefix, m, u>> \in managed'
      BY <1>6, <1>7 DEF Owns
    <3>2. Owns(u, m) <=> <<t.prefix, m, u>> \in managed
      BY <1>1 DEF Owns
    <3>3. <<t.prefix, m, u>> = <<t.prefix, n, u>> <=> m = n
      OBVIOUS
    <3> QED BY <2>1, <3>1, <3>2, <3>3
  <2> HIDE DEF mine
  <2>3. ManagedOK'
    BY <1>2, <2>1 DEF ManagedOK
  <2>4. {f \in managed' : f[3] # u} = {f \in managed : f[3] # u}
    BY <1>10, <2>1
  <2>5. \A f \in managed' : f[3] = u => f[1] = s.prefix
    BY <1>1, <1>2, <1>6, <2>1 DEF PublisherOK
  <2>6. PublisherOK(u)'
    BY <1>1, <1>2, <1>4, <1>6, <1>7, <1>8, <1>9, <1>12, <2>2, <2>5, FiveFiles DEF PublisherOK
  <2> QED BY <1>6, <1>7, <1>12, <2>3, <2>4, <2>6, PublisherSteps
<1> QED BY <1>1, <1>11, <1>12

LEMMA PublishNextG == GInv /\ [PublishNext]_publishVars => GInv'
<1> SUFFICES ASSUME GInv, [PublishNext]_publishVars PROVE GInv'
  OBVIOUS
<1>1. CASE UNCHANGED publishVars
  BY <1>1 DEF publishVars, GInv, PublisherOK, Owns, DoneBy
<1>2. ASSUME NEW u \in Publishers, PublishFails(u) PROVE GInv'
  BY <1>2, MovesOnG DEF PublishFails
<1>3. ASSUME NEW u \in Publishers, PublishDone(u) PROVE GInv'
  BY <1>3, MovesOnG, FiveFiles DEF PublishDone
<1>4. ASSUME NEW u \in Publishers, PublishGivenUp(u) PROVE GInv'
  BY <1>4, MovesOnG DEF PublishGivenUp
<1>5. ASSUME NEW u \in Publishers, PublisherDies(u) PROVE GInv'
  BY <1>5, MovesOnG DEF PublisherDies
<1> QED BY <1>1, <1>2, <1>3, <1>4, <1>5, BeginPublishG, PublishFileG, CleanupFileG DEF PublishNext

LEMMA InitG == ExportsInit => GInv
<1> SUFFICES ASSUME ExportsInit PROVE GInv
  OBVIOUS
<1>1. managed = {} /\ publishing = [u \in Publishers |-> Idle]
  BY DEF ExportsInit, PublishInit
<1>2. Idle \in PublishingRow /\ Idle.done = <<>> /\ Idle.pc = "idle"
  BY DEF Idle, PublishingRow
<1>3. \A u \in Publishers : PublisherOK(u)
  BY <1>1, <1>2, FiveFiles DEF PublisherOK, Owns
<1> QED BY <1>1, <1>2, <1>3 DEF GInv

LEMMA ExportsNextG == GInv /\ [ExportsNext]_exportsVars => GInv'
<1> SUFFICES ASSUME GInv, [ExportsNext]_exportsVars PROVE GInv'
  OBVIOUS
<1>1. CASE UNCHANGED publishVars
  BY <1>1, PublishNextG
<1>2. ASSUME NEW e \in Exporters, CrashExport(e) /\ UNCHANGED escapeVars PROVE UNCHANGED publishVars
  BY <1>2 DEF escapeVars
<1>3. CASE EscapeNext
  BY <1>1, <1>2, <1>3 DEF EscapeNext, BeginEscape, EscapePackage, ListConversations, ListEvents,
     ListProjects, EscapeResume, WriteEscape, ReplaceEscape, CompareStatus, EscapeFails, Advance, others
<1> QED BY <1>1, <1>3, PublishNextG DEF ExportsNext, exportsVars, escapeVars, SaySomething

LEMMA WholeG == GInv => PublishedWhole
<1> SUFFICES ASSUME GInv, NEW u \in Publishers
             PROVE  LET mine == {f[2] : f \in {g \in managed : g[1] = publishing[u].prefix /\ g[3] = u}}
                        s == publishing[u]
                    IN  /\ s.pc = "done" => mine = Names
                        /\ s.pc = "failed" /\ u \notin spoiled => mine = {}
                        /\ s.pc = "files" => mine = {s.done[i] : i \in DOMAIN s.done}
  BY DEF PublishedWhole
<1> DEFINE mine == {f[2] : f \in {g \in managed : g[1] = publishing[u].prefix /\ g[3] = u}}
<1>1. mine \subseteq Names /\ \A n \in mine : Owns(u, n)
  <2> SUFFICES ASSUME NEW f \in managed, f[1] = publishing[u].prefix, f[3] = u
               PROVE  f[2] \in Names /\ Owns(u, f[2])
    OBVIOUS
  <2>1. f = <<publishing[u].prefix, f[2], u>> /\ f[2] \in Names
    BY DEF GInv
  <2> QED BY <2>1 DEF Owns
<1>2. \A n \in Names : Owns(u, n) => n \in mine
  <2> SUFFICES ASSUME NEW n \in Names, Owns(u, n) PROVE n \in mine
    OBVIOUS
  <2> DEFINE f == <<publishing[u].prefix, n, u>>
  <2>1. f[1] = publishing[u].prefix /\ f[2] = n /\ f[3] = u /\ f \in managed
    BY DEF Owns
  <2> HIDE DEF f
  <2> QED BY <2>1
<1> HIDE DEF mine
<1>3. DoneBy(u) \subseteq Names
  BY PublisherIs DEF DoneBy
<1>4. PublisherOK(u)
  BY PublisherIs
<1>5. /\ publishing[u].pc = "done" => mine = Names
      /\ publishing[u].pc = "failed" /\ u \notin spoiled => mine = {}
      /\ publishing[u].pc = "files" => mine = DoneBy(u)
  BY <1>1, <1>2, <1>3, <1>4 DEF PublisherOK
<1> QED BY <1>5 DEF mine, DoneBy

(* Only exports write outputs, each its own. *)
LEMMA OneWrites ==
    ASSUME EInv, NEW e \in Exporters, NEW v, exporting[e] # None, exporting'[e] # exporting[e],
           file' = [file EXCEPT ![exporting[e].path] = v]
    PROVE  FinishedExportStays
<1> SUFFICES ASSUME NEW p \in Paths, file[p] # None, file[p].finished, file'[p] # file[p]
             PROVE  e \in file[p].rivals
  BY DEF FinishedExportStays
<1>1. exporting[e].path = p
  BY DEF EInv
<1> QED BY <1>1 DEF EInv, RivalsKnown

LEMMA ExportStepStays == EInv /\ [ExportsNext]_exportsVars => FinishedExportStays
<1> SUFFICES ASSUME EInv, [ExportsNext]_exportsVars, file' # file PROVE FinishedExportStays
  BY DEF FinishedExportStays
<1>1. \A e \in Exporters : exporting' = [exporting EXCEPT ![e] = None] => exporting'[e] = None
  BY DEF EInv
<1>2. ASSUME NEW e \in Exporters, PublishBundle(e) PROVE FinishedExportStays
  BY <1>1, <1>2, OneWrites DEF PublishBundle
<1>3. ASSUME NEW e \in Exporters, PublishPackage(e) PROVE FinishedExportStays
  <2>1. PICK x : x = exporting[e] /\ exporting[e] # None /\ x.kind = "package" /\ x.phase = "verified"
                 /\ exporting' = [exporting EXCEPT ![e].phase = "published"]
    BY <1>3 DEF PublishPackage
  <2>2. x \in PackageRow
    BY <2>1 DEF EInv, ExportOK
  <2>3. [x EXCEPT !.phase = "published"].phase = "published"
    BY <2>2 DEF PackageRow
  <2>4. exporting'[e] = [x EXCEPT !.phase = "published"]
    BY <2>1 DEF EInv
  <2> QED BY <1>3, <2>1, <2>3, <2>4, OneWrites DEF PublishPackage
<1>4. ASSUME NEW e \in Exporters, SyncPackage(e) PROVE FinishedExportStays
  BY <1>1, <1>4, OneWrites DEF SyncPackage
<1>5. ASSUME NEW e \in Exporters, FailExport(e) PROVE FinishedExportStays
  <2>1. exporting[e] # None /\ exporting'[e] = None
        /\ (file' = file \/ file' = [file EXCEPT ![exporting[e].path] = None])
    BY <1>1, <1>5 DEF FailExport
  <2> QED BY <2>1, OneWrites
<1>6. ASSUME NEW e \in Exporters, ReplaceEscape(e) PROVE FinishedExportStays
  <2>1. PICK x : x = exporting[e] /\ exporting[e] # None /\ x.kind = "escape" /\ x.phase = "written"
                 /\ exporting' = [exporting EXCEPT ![e].phase = "replaced"]
    BY <1>6 DEF ReplaceEscape, Escaping
  <2>2. x \in EscapeRow
    BY <2>1, EscapeIs
  <2>3. [x EXCEPT !.phase = "replaced"].phase = "replaced"
    BY <2>2 DEF EscapeRow
  <2>4. exporting'[e] = [x EXCEPT !.phase = "replaced"]
    BY <2>1 DEF EInv
  <2> QED BY <1>6, <2>1, <2>3, <2>4, OneWrites DEF ReplaceEscape
<1>7. ASSUME NEW e \in Exporters, CompareStatus(e) PROVE FinishedExportStays
  BY <1>1, <1>7, OneWrites DEF CompareStatus, Escaping
<1>8. ASSUME NEW e \in Exporters, EscapeFails(e) PROVE FinishedExportStays
  BY <1>1, <1>8, OneWrites DEF EscapeFails
<1>9. CASE BundleNext
  BY <1>2, <1>3, <1>4, <1>5, <1>9 DEF BundleNext, BeginBundle, WritePackage, ReadStatus, StatusBuilt,
     ReadMember, WriteBundle, VerifyBundle, CrashExport
<1>10. CASE EscapeNext
  BY <1>6, <1>7, <1>8, <1>10 DEF EscapeNext, BeginEscape, EscapePackage, ListConversations, ListEvents,
     ListProjects, EscapeResume, WriteEscape, Advance, CrashExport
<1> QED BY <1>9, <1>10 DEF ExportsNext, exportsVars, bundleVars, SaySomething

(* What was exported stays (GenericExportBuilder.publish, the commits of   *)
(* the archives): five files or none for each generic export, and a        *)
(* finished archive yields only to an export that was already under way.   *)
THEOREM ExportsAlwaysKept == ExportsSpec => ExportsKept
<1>1. GInv /\ EInv => PublishedWhole
  BY WholeG
<1>2. EInv /\ [ExportsNext]_exportsVars => [FinishedExportStays]_<<exporting, file>>
  BY ExportStepStays
<1>3. ExportsSpec => []EInv
  BY InitE, ExportsNextE, PTL DEF ExportsSpec
<1>4. ExportsSpec => []GInv
  BY InitG, ExportsNextG, PTL DEF ExportsSpec
<1> QED BY <1>1, <1>2, <1>3, <1>4, PTL DEF ExportsSpec, ExportsKept
-----------------------------------------------------------------------------
(* The check before an action: the parts of "nothing in the way", and      *)
(* those that have been read when the check is at a phase.                 *)
Parts == {"project", "item", "dependencies", "policies", "procedures", "capability", "experience"}

Clear(n, w, q) ==
    CASE n = "project" -> ProjectLive(w)
      [] n = "item" -> q.item # None =>
            w = Home /\ ItemReadable(q.item) /\ item[q.item].active /\ item[q.item].status # "blocked"
      [] n = "dependencies" -> q.item # None =>
            \A i \in DependsOn[q.item] : ItemReadable(i) /\ DependencyDone(i)
      [] n = "policies" -> q.policies = {}
      [] n = "procedures" -> q.procedure =>
            w = Home /\ ProcedureReadable /\ ~steps.secret /\ steps.active /\ steps.status = "approved"
      [] n = "capability" ->
            /\ ScopeFits(q)
            /\ q.capability # None =>
                  /\ q.capability \in DOMAIN Registry
                  /\ Registry[q.capability].released /\ ~Registry[q.capability].risky
                  /\ Registry[q.capability].scoped => permit \in Granted
      [] n = "experience" ->
            /\ \A e \in Existing(experience) : ExperienceReadable(e)
            /\ OpenFailures(w, q.item) = {}

Unread(phase) ==
    CASE phase = "item" -> Parts \ {"project"}
      [] phase = "dependencies" -> Parts \ {"project", "item"}
      [] phase = "policies" -> {"policies", "procedures", "capability", "experience"}
      [] phase = "procedures" -> {"procedures", "capability", "experience"}
      [] phase = "capability" -> {"capability", "experience"}
      [] phase = "experience" -> {"experience"}
      [] OTHER -> {}

Phases == {"item", "dependencies", "policies", "procedures", "capability", "experience"}
Check == [project : Projs, request : Asked, phase : Phases \union Answers, warned : BOOLEAN,
          blocked : BOOLEAN, confirm : BOOLEAN, began : Nat, before : BOOLEAN, after : BOOLEAN]
StepsRow == [status : {"draft", "approved"}, active : BOOLEAN, secret : BOOLEAN, linked : BOOLEAN]

ClearNow(n, x) == Clear(n, x.project, x.request)
AllClear(x) == \A n \in Parts : ClearNow(n, x)

(* With at most one transaction since it began: a check that has noticed   *)
(* something is right about its beginning or about now.  One that has      *)
(* noticed nothing has read only what is clear now, or something that the  *)
(* transaction has put in the way since, and then that transaction has     *)
(* cleared nothing.                                                        *)
Noticed(x) == ~x.before \/ (commits = x.began + 1 /\ ~AllClear(x))
SilentSoFar(x) ==
    \/ \A n \in Parts \ Unread(x.phase) : ClearNow(n, x)
    \/ /\ commits = x.began + 1
       /\ (\A n \in Unread(x.phase) : ClearNow(n, x)) => x.before

CheckOK(x) ==
    /\ x \in Check /\ x.began <= commits
    /\ x.blocked \/ x.confirm => x.warned
    /\ x.phase = "dependencies" => x.request.item # None
    /\ commits <= x.began + 1 /\ x.phase \in Phases =>
          /\ commits = x.began => (x.before <=> AllClear(x))
          /\ IF x.warned THEN Noticed(x) ELSE SilentSoFar(x)
    /\ commits <= x.began + 1 /\ x.phase \in Answers =>
          IF x.phase = "clear" THEN x.before \/ x.after ELSE ~x.before \/ ~x.after

KInv ==
    /\ RInv
    /\ permit \in Modes /\ steps \in StepsRow
    /\ checking # None => CheckOK(checking)

LEMMA ClearIs ==
    ASSUME NEW x
    PROVE  /\ ClearNow("project", x) <=> ProjectLive(x.project)
           /\ ClearNow("item", x) <=>
                 (x.request.item # None =>
                     /\ x.project = Home /\ ItemReadable(x.request.item)
                     /\ item[x.request.item].active /\ item[x.request.item].status # "blocked")
           /\ ClearNow("dependencies", x) <=>
                 (x.request.item # None =>
                     \A i \in DependsOn[x.request.item] : ItemReadable(i) /\ DependencyDone(i))
           /\ ClearNow("policies", x) <=> x.request.policies = {}
           /\ ClearNow("procedures", x) <=>
                 (x.request.procedure => /\ x.project = Home /\ ProcedureReadable
                                         /\ ~steps.secret /\ steps.active /\ steps.status = "approved")
           /\ ClearNow("capability", x) <=>
                 /\ ScopeFits(x.request)
                 /\ x.request.capability # None =>
                       /\ x.request.capability \in DOMAIN Registry
                       /\ Registry[x.request.capability].released
                       /\ ~Registry[x.request.capability].risky
                       /\ Registry[x.request.capability].scoped => permit \in Granted
           /\ ClearNow("experience", x) <=>
                 /\ \A e \in Existing(experience) : ExperienceReadable(e)
                 /\ OpenFailures(x.project, x.request.item) = {}
BY DEF ClearNow, Clear

LEMMA AllClearIs ==
    ASSUME NEW x
    PROVE  NothingInTheWay(x.project, x.request) <=> AllClear(x)
<1>1. AllClear(x) <=> /\ ClearNow("project", x) /\ ClearNow("item", x) /\ ClearNow("dependencies", x)
                      /\ ClearNow("policies", x) /\ ClearNow("procedures", x)
                      /\ ClearNow("capability", x) /\ ClearNow("experience", x)
  BY DEF AllClear, Parts
<1> QED BY <1>1, ClearIs DEF NothingInTheWay, DependencyDone

LEMMA RequestIs ==
    ASSUME NEW x \in Check
    PROVE  /\ x.project \in Projs /\ x.request \in Asked
           /\ x.request.item # None =>
                 x.request.item \in Items /\ DependsOn[x.request.item] \subseteq Items
<1>1. x.project \in Projs /\ x.request \in Asked
  BY DEF Check
<1>2. x.request.item \in Optional(Items)
  BY <1>1, PreflightAssumption
<1> QED BY <1>1, <1>2, ProjectsAssumption DEF Optional
-----------------------------------------------------------------------------
(* What one transaction can do to a check: put things in the way, or clear *)
(* them, and only what is read last may then get in the way.               *)
Worse(x) == \A n \in Parts : ClearNow(n, x)' => ClearNow(n, x)
Better(x) == \A n \in Parts \ {"experience"} : ClearNow(n, x) => ClearNow(n, x)'

Same(n, x) == ClearNow(n, x)' <=> ClearNow(n, x)

LEMMA SameReadings ==
    ASSUME UNCHANGED <<project, decision, outside>>
    PROVE  /\ \A w : ProjectLive(w)' <=> ProjectLive(w)
           /\ \A w : ProjectParses(w)' <=> ProjectParses(w)
           /\ \A d : DecisionLive(d)' <=> DecisionLive(d)
<1>1. /\ \A w : ProjectParses(w)' <=> ProjectParses(w)
      /\ \A d, row : DecisionParses(d, row)' <=> DecisionParses(d, row)
      /\ \A x : Usable(x)' <=> Usable(x)
  BY DEF ProjectParses, DecisionParses, Usable
<1>2. \A w : ProjectLive(w)' <=> ProjectLive(w)
  BY <1>1 DEF ProjectLive, ProjectReadable, ProjectLinksOk, DecisionParses
<1>3. \A d : DecisionLive(d)' <=> DecisionLive(d)
  BY <1>1 DEF DecisionLive, DecisionReadable, DecisionLinksOk, DecisionParses
<1> QED BY <1>1, <1>2, <1>3

LEMMA SameItems ==
    ASSUME UNCHANGED <<project, decision, item, outside>>
    PROVE  \A i : ItemReadable(i)' <=> ItemReadable(i)
BY SameReadings DEF ItemReadable, ItemLinksOk, Blockers

LEMMA SameExperience ==
    ASSUME UNCHANGED tables
    PROVE  \A e : ExperienceReadable(e)' <=> ExperienceReadable(e)
BY SameReadings, SameItems DEF ExperienceReadable, ExperienceLinksOk, SupersedesOk, tables

LEMMA SameProject ==
    ASSUME NEW x, UNCHANGED <<project, decision, outside>> PROVE Same("project", x)
BY SameReadings DEF Same, ClearNow, Clear

LEMMA SameItem ==
    ASSUME NEW x, UNCHANGED <<project, decision, item, outside>>
    PROVE  Same("item", x) /\ Same("dependencies", x)
BY SameItems DEF Same, ClearNow, Clear, DependencyDone

LEMMA SamePolicies == ASSUME NEW x PROVE Same("policies", x)
BY DEF Same, ClearNow, Clear

LEMMA SameProcedures ==
    ASSUME NEW x, UNCHANGED <<project, decision, outside, steps>> PROVE Same("procedures", x)
BY SameReadings DEF Same, ClearNow, Clear, ProcedureReadable

LEMMA SameCapability == ASSUME NEW x, permit' = permit PROVE Same("capability", x)
BY DEF Same, ClearNow, Clear

LEMMA SameFailures ==
    ASSUME NEW x, UNCHANGED tables PROVE Same("experience", x)
<1>1. Existing(experience)' = Existing(experience)
  BY DEF tables, Existing
<1>2. OpenFailures(x.project, x.request.item)' = OpenFailures(x.project, x.request.item)
  BY <1>1 DEF tables, OpenFailures
<1> QED BY <1>1, <1>2, SameExperience DEF Same, ClearNow, Clear

LEMMA NothingMoves ==
    ASSUME NEW x, UNCHANGED <<tables, permit, steps>>
    PROVE  \A n \in Parts : Same(n, x)
<1>1. /\ Same("project", x) /\ Same("item", x) /\ Same("dependencies", x) /\ Same("policies", x)
      /\ Same("procedures", x) /\ Same("capability", x) /\ Same("experience", x)
  BY SameProject, SameItem, SamePolicies, SameProcedures, SameCapability, SameFailures DEF tables
<1> QED BY <1>1 DEF Parts

(* One part is changed: it gets in the way, or it does not. *)
LEMMA OnePart ==
    ASSUME NEW x, NEW m \in Parts \ {"experience"}, \A n \in Parts \ {m} : Same(n, x)
    PROVE  Worse(x) \/ Better(x)
BY DEF Same, Worse, Better
-----------------------------------------------------------------------------
(* The transactions of the writers.  Projects and decisions fall together, *)
(* or one of them rises.                                                   *)
Falls ==
    /\ \A w \in Projs : ProjectLive(w)' => ProjectLive(w)
    /\ \A d \in Decisions : decision[d] # None => (DecisionLive(d)' => DecisionLive(d))

Lifts ==
    /\ \A w \in Projs : ProjectLive(w) => ProjectLive(w)'
    /\ \A d \in Decisions : decision[d] # None => (DecisionLive(d) => DecisionLive(d)')

LEMMA Fall ==
    ASSUME RInv, RInv', RevisionsGrow,
           \A w \in Projs : project'[w] = project[w] \/ ProjectLive(w) \/ ~ProjectLive(w)',
           \A d \in Decisions : decision[d] # None =>
              decision'[d] = decision[d] \/ DecisionLive(d) \/ ~DecisionLive(d)'
    PROVE  Falls
<1>1. ASSUME NEW w \in Projs, ProjectLive(w)' PROVE ProjectLive(w)
  BY <1>1, StaysUnreadable DEF ProjectLive
<1>2. ASSUME NEW d \in Decisions, decision[d] # None, DecisionLive(d)' PROVE DecisionLive(d)
  <2>1. d \in Existing(decision)
    BY <1>2 DEF Existing, RInv, TablesOK
  <2> QED BY <1>2, <2>1, StaysUnreadable DEF DecisionLive
<1> QED BY <1>1, <1>2 DEF Falls

(* A project or a decision changes alone, and either can be read again or  *)
(* gets nothing in the way.                                                *)
LEMMA CommitMoves ==
    ASSUME RInv, RInv', RevisionsGrow, NEW c \in Clients, CommitRecord(c)
    PROVE  Falls \/ (Lifts /\ outside' = outside)
<1> DEFINE w == pending[c]
<1>0. Readings /\ Readings'
  BY Reading, PTL
<1>1. PICK new, k :
         \/ /\ k \in Projs /\ project[k].dated
            /\ project' = [project EXCEPT ![k] = new] /\ decision' = decision
         \/ /\ k \in Decisions /\ decision[k] # None /\ decision[k].dated
            /\ decision' = [decision EXCEPT ![k] = new] /\ project' = project
  <2>1. w # None /\ WriteOK(w)
    BY CommitRecordIs
  <2>2. PICK dated \in BOOLEAN :
           LET new == Stamped(w.row, w.rev + 1, dated)
           IN  \/ /\ w.table = "project" /\ project[w.id].dated
                  /\ project' = [project EXCEPT ![w.id] = new] /\ decision' = decision
               \/ /\ w.table = "decision" /\ decision[w.id].dated
                  /\ decision' = [decision EXCEPT ![w.id] = new] /\ project' = project
    BY CommitRecordIs
  <2> HIDE DEF w
  <2> QED BY <2>1, <2>2 DEF WriteOK
<1>2. outside' = outside
  BY CommitRecordIs
<1> HIDE DEF w
<1>3. \A x : Usable(x)' <=> Usable(x)
  BY <1>2 DEF Usable
<1>4. CASE /\ k \in Projs /\ project[k].dated
           /\ project' = [project EXCEPT ![k] = new] /\ decision' = decision
  <2>1. \A v \in Projs \ {k} : project'[v] = project[v]
    BY <1>4 DEF RInv, TablesOK
  <2>2. CASE ProjectLive(k) \/ ~ProjectLive(k)'
    BY <1>4, <2>1, <2>2, Fall
  <2>3. CASE ProjectLive(k)' /\ ~ProjectLive(k)
    <3>1. project'[k].dated
      BY <1>4, <2>3 DEF ProjectLive, ProjectReadable, ProjectParses
    <3>2. \A v \in Projs : project'[v].dated <=> project[v].dated
      BY <1>4, <2>1, <3>1
    <3>3. ASSUME NEW v \in Projs, ProjectLive(v) PROVE ProjectLive(v)'
      <4>1. v # k /\ project'[v] = project[v] /\ ProjectReadable(v) /\ project[v].active
        BY <2>1, <2>3, <3>3 DEF ProjectLive
      <4>2. /\ project[v].dated /\ \A d \in project[v].decisions : decision[d].dated
            /\ \A x \in project[v].linked : Usable(x)
        BY <1>0, <4>1 DEF Readings
      <4>3. /\ project'[v].dated /\ \A d \in project'[v].decisions : decision'[d].dated
            /\ \A x \in project'[v].linked : Usable(x)'
        BY <1>3, <1>4, <4>1, <4>2
      <4>4. ProjectReadable(v)'
        BY <1>0, <4>3 DEF Readings
      <4> QED BY <4>1, <4>4 DEF ProjectLive
    <3>4. ASSUME NEW d \in Decisions, decision[d] # None, DecisionLive(d) PROVE DecisionLive(d)'
      <4>1. /\ decision[d].dated /\ decision[d].active
            /\ decision[d].project # None => project[decision[d].project].dated
            /\ decision[d].supersedes # None => decision[decision[d].supersedes].dated
            /\ \A x \in decision[d].linked : Usable(x)
        BY <1>0, <3>4 DEF Readings, DecisionLive
      <4>2. decision[d].project # None => decision[d].project \in Projs
        BY <3>4 DEF RInv, LinksOK, DecisionOK, DecisionRow, Optional
      <4>3. /\ decision'[d] # None /\ decision'[d].dated /\ decision'[d].active
            /\ decision'[d].project # None => project'[decision'[d].project].dated
            /\ decision'[d].supersedes # None => decision'[decision'[d].supersedes].dated
            /\ \A x \in decision'[d].linked : Usable(x)'
        BY <1>3, <1>4, <3>2, <3>4, <4>1, <4>2
      <4>4. DecisionReadable(d)'
        BY <1>0, <4>3 DEF Readings
      <4> QED BY <4>3, <4>4 DEF DecisionLive
    <3> QED BY <1>2, <3>3, <3>4 DEF Lifts
  <2> QED BY <2>2, <2>3
<1>5. CASE /\ k \in Decisions /\ decision[k] # None /\ decision[k].dated
           /\ decision' = [decision EXCEPT ![k] = new] /\ project' = project
  <2>1. \A d \in Decisions \ {k} : decision'[d] = decision[d]
    BY <1>5 DEF RInv, TablesOK
  <2>2. CASE DecisionLive(k) \/ ~DecisionLive(k)'
    BY <1>5, <2>1, <2>2, Fall
  <2>3. CASE DecisionLive(k)' /\ ~DecisionLive(k)
    <3>1. decision'[k].dated
      BY <1>5, <2>3 DEF DecisionLive, DecisionReadable, DecisionParses
    <3>2. \A d \in Decisions : decision'[d].dated <=> decision[d].dated
      BY <1>5, <2>1, <3>1
    <3>3. ASSUME NEW v \in Projs, ProjectLive(v) PROVE ProjectLive(v)'
      <4>1. project'[v] = project[v] /\ ProjectReadable(v) /\ project[v].active
        BY <1>5, <3>3 DEF ProjectLive
      <4>2. /\ project[v].dated /\ \A d \in project[v].decisions : decision[d].dated
            /\ \A x \in project[v].linked : Usable(x)
        BY <1>0, <4>1 DEF Readings
      <4>3. project[v].decisions \subseteq Decisions
        BY DEF RInv, TablesOK, ProjectRow
      <4>4. /\ project'[v].dated /\ \A d \in project'[v].decisions : decision'[d].dated
            /\ \A x \in project'[v].linked : Usable(x)'
        BY <1>3, <3>2, <4>1, <4>2, <4>3
      <4>5. ProjectReadable(v)'
        BY <1>0, <4>4 DEF Readings
      <4> QED BY <4>1, <4>5 DEF ProjectLive
    <3>4. ASSUME NEW d \in Decisions, decision[d] # None, DecisionLive(d) PROVE DecisionLive(d)'
      <4>1. d # k /\ decision'[d] = decision[d]
        BY <2>1, <2>3, <3>4
      <4>2. /\ decision[d].dated /\ decision[d].active
            /\ decision[d].project # None => project[decision[d].project].dated
            /\ decision[d].supersedes # None => decision[decision[d].supersedes].dated
            /\ \A x \in decision[d].linked : Usable(x)
        BY <1>0, <3>4 DEF Readings, DecisionLive
      <4>3. decision[d].supersedes # None => decision[d].supersedes \in Decisions
        BY <3>4 DEF RInv, LinksOK, DecisionOK, DecisionRow, Optional
      <4>4. /\ decision'[d] # None /\ decision'[d].dated /\ decision'[d].active
            /\ decision'[d].project # None => project'[decision'[d].project].dated
            /\ decision'[d].supersedes # None => decision'[decision'[d].supersedes].dated
            /\ \A x \in decision'[d].linked : Usable(x)'
        BY <1>3, <1>5, <3>2, <3>4, <4>1, <4>2, <4>3
      <4>5. DecisionReadable(d)'
        BY <1>0, <4>4 DEF Readings
      <4> QED BY <4>4, <4>5 DEF DecisionLive
    <3> QED BY <1>2, <3>3, <3>4 DEF Lifts
  <2> QED BY <2>2, <2>3
<1> QED BY <1>1, <1>4, <1>5

(* What RInv leaves of an experience: its project's date, and its item.    *)
Recollections ==
    \A e \in Existing(experience) :
       ExperienceReadable(e) <=>
          /\ project[experience[e].project].dated
          /\ experience[e].item # None => ItemReadable(experience[e].item)

LEMMA Recollection == RInv => Recollections
<1> SUFFICES ASSUME RInv, NEW e \in Existing(experience)
             PROVE  ExperienceReadable(e) <=>
                       /\ project[experience[e].project].dated
                       /\ experience[e].item # None => ItemReadable(experience[e].item)
  BY DEF Recollections
<1>1. e \in Experiences /\ experience[e] # None /\ experience[e] \in ExperienceRow /\ ExperienceOK(e)
  BY DEF Existing, RInv, TablesOK
<1>2. ProjectParses(experience[e].project) <=> project[experience[e].project].dated
  BY <1>1, Reading DEF Readings, ExperienceRow
<1> QED BY <1>1, <1>2 DEF ExperienceOK, ExperienceReadable, ExperienceLinksOk, SupersedesOk

ItemsFall == \A i \in Items : ItemReadable(i)' => ItemReadable(i)

(* What is in the way of no item is in nobody's way. *)
LEMMA FallenParts ==
    ASSUME RInv, RInv', RevisionsGrow, UNCHANGED <<experience, permit, steps>>, NEW x \in Check,
           \A w \in Projs : ProjectLive(w)' => ProjectLive(w), ItemsFall
    PROVE  \A n \in Parts \ {"item", "dependencies"} : ClearNow(n, x)' => ClearNow(n, x)
<1>1. ClearNow("project", x)' => ClearNow("project", x)
  BY RequestIs DEF ClearNow, Clear
<1>2. ClearNow("policies", x)' => ClearNow("policies", x)
  BY SamePolicies DEF Same
<1>3. ClearNow("procedures", x)' => ClearNow("procedures", x)
  BY ProjectsAssumption DEF ClearNow, Clear, ProcedureReadable
<1>4. ClearNow("capability", x)' => ClearNow("capability", x)
  BY SameCapability DEF Same
<1>5. ASSUME ClearNow("experience", x)' PROVE ClearNow("experience", x)
  <2>1. Existing(experience)' = Existing(experience)
    BY DEF Existing
  <2>2. OpenFailures(x.project, x.request.item)' = OpenFailures(x.project, x.request.item)
    BY <2>1 DEF OpenFailures
  <2>3. /\ \A e \in Existing(experience) : ExperienceReadable(e)'
        /\ OpenFailures(x.project, x.request.item) = {}
    BY <1>5, <2>1, <2>2 DEF ClearNow, Clear
  <2>4. ASSUME NEW e \in Existing(experience) PROVE ExperienceReadable(e)
    <3>1. /\ experience[e].project \in Projs
          /\ experience[e].item # None => experience[e].item \in Items
      BY DEF Existing, RInv, TablesOK, ExperienceRow, Optional
    <3>2. Recollections /\ Recollections'
      BY Recollection, PTL
    <3>3. /\ project'[experience[e].project].dated
          /\ experience[e].item # None => ItemReadable(experience[e].item)'
      BY <2>1, <2>3, <3>2 DEF Recollections
    <3>4. /\ project[experience[e].project].dated
          /\ experience[e].item # None => ItemReadable(experience[e].item)
      BY <3>1, <3>3 DEF RevisionsGrow, ItemsFall
    <3> QED BY <3>2, <3>4 DEF Recollections
  <2> QED BY <2>3, <2>4 DEF ClearNow, Clear
<1> QED BY <1>1, <1>2, <1>3, <1>4, <1>5 DEF Parts

LEMMA FallingWorse ==
    ASSUME RInv, RInv', RevisionsGrow, UNCHANGED <<item, experience, permit, steps>>, NEW x \in Check, Falls
    PROVE  Worse(x)
<1>1. ItemsFall
  <2> SUFFICES ASSUME NEW i \in Items, ItemReadable(i)' PROVE ItemReadable(i)
    BY DEF ItemsFall
  <2>1. /\ ProjectLive(Home)'
        /\ \A j \in DependsOn[i] \union Blockers(i, item[i]) : item[j].active
        /\ \A j \in Blockers(i, item[i]) : ~Ended(item[j].status)
        /\ \A d \in item[i].decisions : DecisionLive(d)'
        /\ \A y \in item[i].linked : outside'[y].active /\ ~outside'[y].secret
    BY DEF ItemReadable, ItemLinksOk, Blockers
  <2>2. /\ \A d \in item[i].decisions : d \in Decisions /\ decision[d] # None
        /\ item[i].linked \subseteq Outside
    BY DEF RInv, LinksOK, ItemOK, ItemRow, Found, Outside
  <2>3. ProjectLive(Home) /\ \A d \in item[i].decisions : DecisionLive(d)
    BY <2>1, <2>2, ProjectsAssumption DEF Falls
  <2>4. \A y \in item[i].linked : outside[y].active /\ ~outside[y].secret
    BY <2>1, <2>2 DEF RevisionsGrow
  <2> QED BY <2>1, <2>2, <2>3, <2>4 DEF ItemReadable, ItemLinksOk
<1>2. \A n \in Parts \ {"item", "dependencies"} : ClearNow(n, x)' => ClearNow(n, x)
  BY <1>1, FallenParts DEF Falls
<1>3. ClearNow("item", x)' => ClearNow("item", x)
  BY <1>1, RequestIs DEF ClearNow, Clear, ItemsFall
<1>4. ClearNow("dependencies", x)' => ClearNow("dependencies", x)
  <2>1. \A i : DependencyDone(i)' <=> DependencyDone(i)
    BY DEF DependencyDone
  <2> QED BY <1>1, <2>1, RequestIs DEF ClearNow, Clear, ItemsFall
<1> QED BY <1>2, <1>3, <1>4 DEF Worse

LEMMA LiftingBetter ==
    ASSUME RInv, UNCHANGED <<item, outside, permit, steps>>, NEW x \in Check, Lifts, RevisionsGrow
    PROVE  Better(x)
<1>1. ASSUME NEW i \in Items, ItemReadable(i) PROVE ItemReadable(i)'
  <2>1. /\ ProjectLive(Home)
        /\ \A j \in DependsOn[i] \union Blockers(i, item[i]) : item[j].active
        /\ \A j \in Blockers(i, item[i]) : ~Ended(item[j].status)
        /\ \A d \in item[i].decisions : decision[d] # None /\ DecisionLive(d)
        /\ \A y \in item[i].linked : outside[y].active /\ ~outside[y].secret
    BY <1>1 DEF ItemReadable, ItemLinksOk
  <2>2. \A d \in item[i].decisions : d \in Decisions
    BY DEF RInv, TablesOK, ItemRow
  <2>3. ProjectLive(Home)' /\ \A d \in item[i].decisions : decision'[d] # None /\ DecisionLive(d)'
    BY <2>1, <2>2, ProjectsAssumption DEF Lifts, RevisionsGrow
  <2> QED BY <2>1, <2>3 DEF ItemReadable, ItemLinksOk, Blockers
<1>2. ClearNow("project", x) => ClearNow("project", x)'
  BY RequestIs DEF ClearNow, Clear, Lifts
<1>3. ClearNow("item", x) => ClearNow("item", x)'
  BY <1>1, RequestIs DEF ClearNow, Clear
<1>4. ClearNow("dependencies", x) => ClearNow("dependencies", x)'
  <2>1. \A i : DependencyDone(i)' <=> DependencyDone(i)
    BY DEF DependencyDone
  <2> QED BY <1>1, <2>1, RequestIs DEF ClearNow, Clear
<1>5. ClearNow("policies", x) => ClearNow("policies", x)'
  BY SamePolicies DEF Same
<1>6. ClearNow("procedures", x) => ClearNow("procedures", x)'
  BY ProjectsAssumption DEF ClearNow, Clear, ProcedureReadable, Lifts
<1>7. ClearNow("capability", x) => ClearNow("capability", x)'
  BY SameCapability DEF Same
<1> QED BY <1>2, <1>3, <1>4, <1>5, <1>6, <1>7 DEF Better, Parts

LEMMA ChangedItem ==
    ASSUME RInv, NEW i \in Items, NEW s \in ItemStatuses, NEW ds \in SUBSET Existing(decision),
           NEW xs \in SUBSET Policies, NEW a \in BOOLEAN, ChangeItem(i, s, ds, xs, a)
    PROVE  \E new \in ItemRow :
              /\ item' = [item EXCEPT ![i] = new]
              /\ new.status = s /\ new.active = a /\ ItemLinksOk(i, new)
<1>1. ds \in SUBSET Decisions
  BY DEF RInv, TablesOK, Existing
<1>2. PICK new \in ItemRow : Reworked(i, s, ds, xs, a, new)
  BY <1>1, ChangeItemIs
<1> QED BY <1>2 DEF Reworked

(* An item changes: what can be read gets less.  It may stop being blocked *)
(* or be completed as somebody's dependency, and then it gets in nobody's  *)
(* way but that of an experience.                                          *)
LEMMA ItemMoves ==
    ASSUME RInv, RInv', RevisionsGrow, NEW i \in Items, NEW s \in ItemStatuses,
           NEW ds \in SUBSET Existing(decision), NEW xs \in SUBSET Policies, NEW a \in BOOLEAN,
           ChangeItem(i, s, ds, xs, a), UNCHANGED <<permit, steps>>, NEW x \in Check
    PROVE  Worse(x) \/ Better(x)
<1>1. /\ item[i].active /\ ItemReadable(i) /\ (Ended(item[i].status) => s = item[i].status)
      /\ UNCHANGED <<project, decision, experience, outside>>
  BY DEF ChangeItem
<1>2. PICK new \in ItemRow :
         /\ item' = [item EXCEPT ![i] = new]
         /\ new.status = s /\ new.active = a /\ ItemLinksOk(i, new)
  BY ChangedItem
<1>3. \A j \in Items : item'[j] = IF j = i THEN new ELSE item[j]
  BY <1>2 DEF RInv, TablesOK
<1>4. /\ \A j \in Items : item'[j].active => item[j].active
      /\ \A j \in Items : ~Ended(item'[j].status) => ~Ended(item[j].status)
  BY <1>1, <1>2, <1>3
<1>5. \A j \in Items : DependsOn[j] \subseteq Items /\ BlockedBy[j] \subseteq Items /\ j \notin DependsOn[j]
  BY ProjectsAssumption
<1>6. ItemsFall
  <2> SUFFICES ASSUME NEW j \in Items, ItemReadable(j)', j # i PROVE ItemReadable(j)
    BY <1>1 DEF ItemsFall
  <2>1. item'[j] = item[j]
    BY <1>3
  <2>2. /\ ProjectLive(Home)'
        /\ \A k \in DependsOn[j] \union Blockers(j, item[j]) : item'[k].active
        /\ \A k \in Blockers(j, item[j]) : ~Ended(item'[k].status)
        /\ \A d \in item[j].decisions : decision'[d] # None /\ DecisionLive(d)'
        /\ \A y \in item[j].linked : outside'[y].active /\ ~outside'[y].secret
    BY <2>1 DEF ItemReadable, ItemLinksOk, Blockers
  <2>3. Blockers(j, item[j]) \subseteq Items
    BY <1>5 DEF Blockers
  <2> QED BY <1>1, <1>4, <1>5, <2>2, <2>3, SameReadings DEF ItemReadable, ItemLinksOk
<1>7. \A n \in Parts \ {"item", "dependencies"} : ClearNow(n, x)' => ClearNow(n, x)
  BY <1>1, <1>6, FallenParts, SameReadings
<1>8. \A n \in Parts \ {"item", "dependencies", "experience"} : ClearNow(n, x) => ClearNow(n, x)'
  <2>1. /\ Same("project", x) /\ Same("policies", x) /\ Same("procedures", x) /\ Same("capability", x)
    BY <1>1, SameProject, SamePolicies, SameProcedures, SameCapability
  <2> QED BY <2>1 DEF Parts, Same
(* An item that is not blocked loses nothing but with its dependencies. *)
<1>9. ASSUME NEW j \in Items, ItemReadable(j), item[j].status # "blocked", i \in DependsOn[j] => a, j # i
       PROVE  ItemReadable(j)'
  <2>1. item'[j] = item[j] /\ Blockers(j, item[j]) = {}
    BY <1>3, <1>9 DEF Blockers
  <2>2. \A k \in DependsOn[j] : item'[k].active
    BY <1>2, <1>3, <1>5, <1>9, <2>1 DEF ItemReadable, ItemLinksOk
  <2>3. Blockers(j, item'[j]) = {}
    BY <2>1
  <2>4. /\ ProjectLive(Home) /\ \A d \in item[j].decisions : decision[d] # None /\ DecisionLive(d)
        /\ \A y \in item[j].linked : outside[y].active /\ ~outside[y].secret
    BY <1>9 DEF ItemReadable, ItemLinksOk
  <2> QED BY <1>1, <2>1, <2>2, <2>3, <2>4, SameReadings DEF ItemReadable, ItemLinksOk, Blockers
<1> DEFINE q == x.request.item
<1>10. q # None => q \in Items
  BY RequestIs
<1>11. CASE q = None
  <2>1. ClearNow("item", x) /\ ClearNow("dependencies", x)
    BY <1>11, ClearIs
  <2> QED BY <1>7, <2>1 DEF Worse
<1>12. CASE q = i
  <2>1. ClearNow("dependencies", x)' => ClearNow("dependencies", x)
    <3>1. \A j \in DependsOn[i] : j \in Items /\ (DependencyDone(j)' => DependencyDone(j))
      BY <1>3, <1>5 DEF DependencyDone
    <3> QED BY <1>6, <1>12, <3>1 DEF ClearNow, Clear, ItemsFall
  <2>2. CASE ClearNow("item", x)' => ClearNow("item", x)
    BY <1>7, <2>1, <2>2 DEF Worse
  <2>3. CASE ClearNow("item", x)' /\ ~ClearNow("item", x)
    <3>1. item'[i].active
      BY <1>10, <1>12, <2>3 DEF ClearNow, Clear
    <3>2. a
      BY <1>2, <1>3, <3>1
    <3>3. ASSUME ClearNow("dependencies", x) PROVE ClearNow("dependencies", x)'
      <4>1. \A j \in DependsOn[i] : j \in Items /\ j # i /\ ItemReadable(j) /\ DependencyDone(j)
        BY <1>5, <1>12, <3>3, ProjectsAssumption DEF ClearNow, Clear
      <4>2. \A j \in DependsOn[i] : item[j].status # "blocked" /\ DependencyDone(j)'
        BY <1>3, <4>1 DEF DependencyDone
      <4>3. \A j \in DependsOn[i] : ItemReadable(j)'
        BY <1>9, <3>2, <4>1, <4>2
      <4> QED BY <1>12, <4>2, <4>3 DEF ClearNow, Clear
    <3> QED BY <1>8, <2>3, <3>3 DEF Better
  <2> QED BY <2>2, <2>3
<1>13. CASE q # None /\ q # i
  <2>1. q \in Items /\ item'[q] = item[q]
    BY <1>3, <1>10, <1>13
  <2>2. ClearNow("item", x)' => ClearNow("item", x)
    BY <1>6, <2>1 DEF ClearNow, Clear, ItemsFall
  <2>3. CASE ClearNow("dependencies", x)' => ClearNow("dependencies", x)
    BY <1>7, <2>2, <2>3 DEF Worse
  <2>4. CASE ClearNow("dependencies", x)' /\ ~ClearNow("dependencies", x)
    <3>1. \A j \in DependsOn[q] : ItemReadable(j)' /\ DependencyDone(j)'
      BY <1>13, <2>4 DEF ClearNow, Clear
    <3>2. i \in DependsOn[q] => a
      BY <1>2, <1>3, <3>1 DEF DependencyDone
    <3>3. ASSUME ClearNow("item", x) PROVE ClearNow("item", x)'
      <4>1. x.project = Home /\ ItemReadable(q) /\ item[q].active /\ item[q].status # "blocked"
        BY <1>13, <3>3 DEF ClearNow, Clear
      <4>2. ItemReadable(q)'
        BY <1>9, <1>13, <2>1, <3>2, <4>1
      <4> QED BY <2>1, <4>1, <4>2 DEF ClearNow, Clear
    <3> QED BY <1>8, <2>4, <3>3 DEF Better
  <2> QED BY <2>3, <2>4
<1> QED BY <1>11, <1>12, <1>13

(* Every transaction of the writers, then. *)
LEMMA ProjectsMove ==
    ASSUME RInv, RInv', RevisionsGrow, [ProjectsNext]_projectVars, UNCHANGED <<permit, steps>>,
           commits' = commits + 1, NEW x \in Check
    PROVE  Worse(x) \/ Better(x)
<1>0. commits' # commits
  BY DEF RInv, TablesOK
<1>1. ASSUME Falls, UNCHANGED <<item, experience>> PROVE Worse(x)
  BY <1>1, FallingWorse
<1>2. ASSUME NEW c \in Clients, CommitRecord(c) PROVE Worse(x) \/ Better(x)
  <2>1. UNCHANGED <<item, experience, outside>>
    BY <1>2 DEF CommitRecord
  <2> QED BY <1>1, <1>2, <2>1, CommitMoves, LiftingBetter
<1>3. ASSUME NEW d \in Unused(decision), NEW s, NEW p, NEW w, NEW xs, NEW secret,
             CreateDecision(d, s, p, w, xs, secret)
      PROVE  Worse(x)
  <2>1. UNCHANGED <<project, item, experience>>
    BY <1>3 DEF CreateDecision
  <2>2. \A e \in Decisions : decision[e] # None => decision'[e] = decision[e]
    BY <1>3 DEF CreateDecision, Unused, RInv, TablesOK
  <2>3. Falls
    BY <2>1, <2>2, Fall
  <2> QED BY <1>1, <2>1, <2>3
<1>4. ASSUME NEW y \in Outside, NEW a \in BOOLEAN, NEW on \in BOOLEAN, ChangeOutside(y, a, on)
      PROVE  Worse(x)
  <2>1. UNCHANGED <<project, decision, item, experience>>
    BY <1>4 DEF ChangeOutside
  <2> QED BY <1>1, <2>1, Fall
<1>5. ASSUME NEW y \in Unused(experience), NEW e \in ExperienceRow, RecordExperience(y, e)
      PROVE  Better(x)
  <2>1. UNCHANGED <<project, decision, item, outside>>
    BY <1>5 DEF RecordExperience
  <2>2. /\ Same("project", x) /\ Same("item", x) /\ Same("dependencies", x) /\ Same("policies", x)
        /\ Same("procedures", x) /\ Same("capability", x)
    BY <2>1, SameProject, SameItem, SamePolicies, SameProcedures, SameCapability
  <2> QED BY <2>2 DEF Better, Parts, Same
<1>6. ASSUME NEW c \in Clients, \/ \E w \in Projs : \E row : ChangeProject(c, w, row)
                                \/ \E d \in Existing(decision) : \E row : ChangeDecision(c, d, row)
                                \/ Abandon(c)
      PROVE  FALSE
  BY <1>0, <1>6 DEF ChangeProject, ChangeDecision, Prepare, Abandon
<1>7. CASE UNCHANGED projectVars
  BY <1>0, <1>7 DEF projectVars
<1> QED BY <1>2, <1>3, <1>4, <1>5, <1>6, <1>7, ItemMoves, ProjectsSteps
(* What a check has read is clear, or the transaction since took it, and  *)
(* then whatever it still reads was already clear.  A failure is read      *)
(* last, so it is not what was taken.                                      *)
LEMMA ReadThenMoved ==
    ASSUME NEW x \in Check, x.phase \in Phases, Worse(x) \/ Better(x),
           \A n \in Parts \ Unread(x.phase) : ClearNow(n, x),
           ~(\A n \in Parts \ Unread(x.phase) : ClearNow(n, x)'),
           \A n \in Unread(x.phase) : ClearNow(n, x)'
    PROVE  AllClear(x)
<1>1. PICK r \in Parts \ Unread(x.phase) : ~ClearNow(r, x)' /\ ClearNow(r, x)
  OBVIOUS
<1>2. "experience" \in Unread(x.phase)
  BY DEF Phases, Unread, Parts
<1>3. Worse(x)
  BY <1>1, <1>2 DEF Better
<1>4. \A n \in Unread(x.phase) : n \in Parts => ClearNow(n, x)
  BY <1>3 DEF Worse
<1> QED BY <1>4 DEF AllClear

LEMMA KStep ==
    ASSUME KInv, RInv', checking' = checking,
           permit' \in Modes, steps' \in StepsRow,
           \/ /\ commits' = commits
              /\ UNCHANGED <<tables, permit, steps>>
           \/ commits' = commits + 1 /\ \A x \in Check : Worse(x) \/ Better(x)
    PROVE  KInv'
<1>1. CASE checking = None
  BY <1>1 DEF KInv
<1>2. CASE checking # None
  <2>1. PICK x : x = checking /\ CheckOK(x) /\ x \in Check
    BY <1>2 DEF KInv, CheckOK
  <2>2. commits \in Nat /\ x.began \in Nat /\ x.began <= commits
    BY <2>1 DEF KInv, RInv, TablesOK, CheckOK, Check
  <2>3. CASE commits' = commits /\ UNCHANGED <<tables, permit, steps>>
    <3>1. \A n \in Parts : ClearNow(n, x)' <=> ClearNow(n, x)
      BY <2>3, NothingMoves DEF Same
    <3>2. AllClear(x)' <=> AllClear(x)
      BY <3>1 DEF AllClear
    <3>3. Unread(x.phase) \subseteq Parts
      BY DEF Unread, Parts
    <3>4. SilentSoFar(x)' <=> SilentSoFar(x)
      BY <2>3, <3>1, <3>3 DEF SilentSoFar
    <3>5. Noticed(x)' <=> Noticed(x)
      BY <2>3, <3>2 DEF Noticed
    <3>6. CheckOK(x)'
      BY <2>1, <2>3, <3>2, <3>4, <3>5 DEF CheckOK
    <3> QED BY <1>2, <2>1, <3>6 DEF KInv
  <2>4. CASE commits' = commits + 1 /\ \A y \in Check : Worse(y) \/ Better(y)
    <3>1. x.began <= commits' /\ commits' # x.began
      BY <2>2, <2>4
    <3>2. ASSUME commits' <= x.began + 1, x.phase \in Phases
          PROVE  IF x.warned THEN Noticed(x)' ELSE SilentSoFar(x)'
      <4>1. commits = x.began /\ commits' = x.began + 1 /\ commits <= x.began + 1
        BY <2>2, <2>4, <3>2
      <4>2. (x.before <=> AllClear(x)) /\ IF x.warned THEN Noticed(x) ELSE SilentSoFar(x)
        BY <2>1, <3>2, <4>1 DEF CheckOK
      <4>3. commits # x.began + 1
        BY <2>2, <4>1
      <4>4. CASE x.warned
        BY <4>2, <4>3, <4>4 DEF Noticed
      <4>5. CASE ~x.warned
        <5>1. \A n \in Parts \ Unread(x.phase) : ClearNow(n, x)
          BY <4>2, <4>3, <4>5 DEF SilentSoFar
        <5>2. Worse(x) \/ Better(x)
          BY <2>1, <2>4
        <5>3. ASSUME ~(\A n \in Parts \ Unread(x.phase) : ClearNow(n, x)'),
                     \A n \in Unread(x.phase) : ClearNow(n, x)'
              PROVE  x.before
          <6>1. AllClear(x)
            BY <2>1, <3>2, <5>1, <5>2, <5>3, ReadThenMoved
          <6> QED BY <4>2, <6>1
        <5> QED BY <4>1, <4>5, <5>3 DEF SilentSoFar
      <4> QED BY <4>4, <4>5
    <3>3. ASSUME commits' <= x.began + 1, x.phase \in Answers
          PROVE  IF x.phase = "clear" THEN x.before \/ x.after ELSE ~x.before \/ ~x.after
      <4>1. commits <= x.began + 1
        BY <2>2, <2>4, <3>3
      <4> QED BY <2>1, <3>3, <4>1 DEF CheckOK
    <3>4. CheckOK(x)'
      BY <2>1, <3>1, <3>2, <3>3 DEF CheckOK
    <3> QED BY <1>2, <2>1, <3>4 DEF KInv
  <2> QED BY <2>3, <2>4
<1> QED BY <1>1, <1>2

LEMMA WritersK == KInv /\ WritersNext => KInv'
<1> SUFFICES ASSUME KInv, WritersNext PROVE KInv'
  OBVIOUS
<1>1. CASE CheckpointsNext /\ UNCHANGED preflightVars
  <2>1. RInv' /\ Grows
    BY <1>1, CheckpointsNextW DEF KInv
  <2>2. UNCHANGED <<permit, steps, checking>>
    BY <1>1 DEF preflightVars
  <2>3. ASSUME commits' = commits + 1, NEW x \in Check PROVE Worse(x) \/ Better(x)
    <3>1. CASE UNCHANGED tables
      BY <2>2, <3>1, NothingMoves DEF Worse, Same
    <3>2. CASE [ProjectsNext]_projectVars
      BY <2>1, <2>2, <2>3, <3>2, ProjectsMove DEF KInv, Grows
    <3> QED BY <1>1, <3>1, <3>2, CpNextW DEF CheckpointsNext, KInv
  <2>4. (commits' = commits /\ UNCHANGED tables) \/ commits' = commits + 1
    BY <2>1 DEF Grows
  <2> QED BY <2>1, <2>2, <2>3, <2>4, KStep DEF KInv
<1>2. ASSUME NEW m \in Modes, SetPermission(m) PROVE KInv'
  <2>1. /\ UNCHANGED <<project, decision, item, experience, outside, pending, steps, checking>>
        /\ Room /\ commits' = commits + 1 /\ permit' = m
    BY <1>2 DEF SetPermission
  <2>2. RInv'
    BY <2>1, RoomR DEF KInv, tables
  <2>3. ASSUME NEW x \in Check PROVE Worse(x) \/ Better(x)
    <3>1. /\ Same("project", x) /\ Same("item", x) /\ Same("dependencies", x) /\ Same("policies", x)
          /\ Same("procedures", x) /\ Same("experience", x)
      BY <2>1, SameProject, SameItem, SamePolicies, SameProcedures, SameFailures DEF tables
    <3>2. "capability" \in Parts \ {"experience"} /\ \A n \in Parts \ {"capability"} : Same(n, x)
      BY <3>1 DEF Parts
    <3> QED BY <3>2, OnePart
  <2> QED BY <2>1, <2>2, <2>3, KStep DEF KInv
<1>3. ASSUME NEW row \in StepsRow, ChangeSteps(row) PROVE KInv'
  <2>1. /\ UNCHANGED <<project, decision, item, experience, outside, pending, permit, checking>>
        /\ Room /\ commits' = commits + 1 /\ steps' = row
    BY <1>3 DEF ChangeSteps
  <2>2. RInv'
    BY <2>1, RoomR DEF KInv, tables
  <2>3. ASSUME NEW x \in Check PROVE Worse(x) \/ Better(x)
    <3>1. /\ Same("project", x) /\ Same("item", x) /\ Same("dependencies", x) /\ Same("policies", x)
          /\ Same("capability", x) /\ Same("experience", x)
      BY <2>1, SameProject, SameItem, SamePolicies, SameCapability, SameFailures DEF tables
    <3>2. "procedures" \in Parts \ {"experience"} /\ \A n \in Parts \ {"procedures"} : Same(n, x)
      BY <3>1 DEF Parts
    <3> QED BY <3>2, OnePart
  <2> QED BY <2>1, <2>2, <2>3, KStep DEF KInv
<1>4. ASSUME NEW s \in {"draft", "approved"}, NEW a \in BOOLEAN, ChangeProcedure(s, a) PROVE KInv'
  <2>1. [steps EXCEPT !.status = s, !.active = a] \in StepsRow
    BY DEF KInv, StepsRow
  <2> QED BY <1>3, <1>4, <2>1 DEF ChangeProcedure
<1>5. ASSUME LoseProcedureLink PROVE KInv'
  <2>1. [steps EXCEPT !.linked = FALSE] \in StepsRow
    BY DEF KInv, StepsRow
  <2> QED BY <1>3, <1>5, <2>1 DEF LoseProcedureLink
<1> QED BY <1>1, <1>2, <1>4, <1>5 DEF WritersNext

(* The check goes on while nobody writes. *)
LEMMA CheckStep ==
    ASSUME KInv, UNCHANGED <<projectVars, cpVars, permit, steps>>,
           NEW y, checking' = y, y = None \/ CheckOK(y)
    PROVE  KInv'
<1>1. RInv'
  BY StillW DEF KInv
<1>2. UNCHANGED <<tables, permit, steps, commits>>
  BY DEF projectVars, tables
<1>3. \A n \in Parts : ClearNow(n, y)' <=> ClearNow(n, y)
  BY <1>2, NothingMoves DEF Same
<1>4. AllClear(y)' <=> AllClear(y)
  BY <1>3 DEF AllClear
<1>5. Unread(y.phase) \subseteq Parts
  BY DEF Unread, Parts
<1>6. SilentSoFar(y)' <=> SilentSoFar(y)
  BY <1>2, <1>3, <1>5 DEF SilentSoFar
<1>7. Noticed(y)' <=> Noticed(y)
  BY <1>2, <1>4 DEF Noticed
<1>8. CheckOK(y) => CheckOK(y)'
  BY <1>2, <1>4, <1>6, <1>7 DEF CheckOK
<1> QED BY <1>1, <1>2, <1>8 DEF KInv

SameCheck(y, x) ==
    /\ y \in Check /\ y.project = x.project /\ y.request = x.request
    /\ y.began = x.began /\ y.before = x.before

LEMMA SameParts ==
    ASSUME NEW x, NEW y, SameCheck(y, x)
    PROVE  (\A n \in Parts : ClearNow(n, y) <=> ClearNow(n, x)) /\ (AllClear(y) <=> AllClear(x))
<1>1. \A n \in Parts : ClearNow(n, y) <=> ClearNow(n, x)
  BY DEF SameCheck, ClearNow
<1> QED BY <1>1 DEF AllClear

(* It reads another part: what it reads is clear, or it notices. *)
LEMMA CheckReads ==
    ASSUME KInv, checking # None, checking.phase \in Phases, UNCHANGED <<projectVars, cpVars, permit, steps>>,
           NEW y, checking' = y, SameCheck(y, checking), y.phase \in Phases,
           Unread(y.phase) \subseteq Unread(checking.phase),
           y.blocked \/ y.confirm => y.warned,
           y.phase = "dependencies" => y.request.item # None,
           checking.warned => y.warned,
           IF y.warned THEN checking.warned \/ ~AllClear(checking)
           ELSE \A n \in Unread(checking.phase) \ Unread(y.phase) : ClearNow(n, checking)
    PROVE  KInv'
<1>1. PICK x : x = checking
  OBVIOUS
<1>2. CheckOK(x)
  BY <1>1 DEF KInv
<1>3. commits \in Nat /\ x.began \in Nat /\ x.began <= commits
  BY <1>2 DEF KInv, RInv, TablesOK, CheckOK, Check
<1>4. (\A n \in Parts : ClearNow(n, y) <=> ClearNow(n, x)) /\ (AllClear(y) <=> AllClear(x))
  BY <1>1, SameParts
<1>5. Unread(x.phase) \subseteq Parts
  BY DEF Unread, Parts
<1>6. ASSUME commits <= x.began + 1
      PROVE  /\ commits = x.began => (y.before <=> AllClear(y))
             /\ IF y.warned THEN Noticed(y) ELSE SilentSoFar(y)
  <2>1. /\ commits = x.began => (x.before <=> AllClear(x))
        /\ IF x.warned THEN Noticed(x) ELSE SilentSoFar(x)
    BY <1>1, <1>2, <1>6 DEF CheckOK
  <2>2. commits = x.began => (y.before <=> AllClear(y))
    BY <1>1, <1>4, <2>1 DEF SameCheck
  <2>3. commits = x.began \/ commits = x.began + 1
    BY <1>3, <1>6
  <2>4. CASE x.warned
    BY <1>1, <1>4, <2>1, <2>4 DEF Noticed, SameCheck
  <2>5. CASE ~x.warned /\ y.warned
    BY <1>1, <1>4, <2>1, <2>3, <2>5 DEF Noticed, SameCheck
  <2>6. CASE ~x.warned /\ ~y.warned
    <3>1. SilentSoFar(x) /\ \A n \in Unread(x.phase) \ Unread(y.phase) : ClearNow(n, x)
      BY <1>1, <2>1, <2>6
    <3>2. CASE \A n \in Parts \ Unread(x.phase) : ClearNow(n, x)
      <4>1. ASSUME NEW n \in Parts, n \notin Unread(y.phase) PROVE ClearNow(n, y)
        <5>1. ClearNow(n, x)
          BY <3>1, <3>2, <4>1
        <5> QED BY <1>4, <5>1
      <4>2. \A n \in Parts \ Unread(y.phase) : ClearNow(n, y)
        BY <4>1
      <4> QED BY <2>2, <2>6, <4>2 DEF SilentSoFar
    <3>3. CASE /\ commits = x.began + 1
               /\ (\A n \in Unread(x.phase) : ClearNow(n, x)) => x.before
      <4>1. (\A n \in Unread(y.phase) : ClearNow(n, y)) => \A n \in Unread(x.phase) : ClearNow(n, x)
        BY <1>1, <1>4, <1>5, <3>1
      <4> QED BY <1>1, <2>6, <3>3, <4>1 DEF SilentSoFar, SameCheck
    <3> QED BY <3>1, <3>2, <3>3 DEF SilentSoFar
  <2> QED BY <2>2, <2>4, <2>5, <2>6
<1>7. y.phase \notin Answers
  BY DEF Phases, Answers
<1>8. CheckOK(y)
  BY <1>1, <1>3, <1>6, <1>7 DEF CheckOK, SameCheck
<1> QED BY <1>8, CheckStep

(* It answers before it has read everything: something is in the way now.  *)
LEMMA CheckRefused ==
    ASSUME KInv, checking # None, checking.phase \in Phases, ~AllClear(checking), Raised(checking)
    PROVE  KInv'
<1>1. PICK x, b : x = checking /\ b = NothingInTheWay(x.project, x.request)
  OBVIOUS
<1> DEFINE y == [x EXCEPT !.phase = "refused", !.after = b]
<1>2. CheckOK(x) /\ x \in Check
  BY <1>1 DEF KInv, CheckOK
<1>3. ~b /\ b \in BOOLEAN
  BY <1>1, AllClearIs DEF NothingInTheWay
<1>4. y \in Check
  BY <1>2, <1>3 DEF Check, Answers
<1>5. /\ y.phase = "refused" /\ ~y.after /\ y.began = x.began /\ y.blocked = x.blocked
      /\ y.confirm = x.confirm /\ y.warned = x.warned
  BY <1>2, <1>3 DEF Check
<1>6. y.phase \notin Phases /\ y.phase # "dependencies" /\ y.phase # "clear"
  BY <1>5 DEF Phases
<1>7. CheckOK(y)
  BY <1>2, <1>4, <1>5, <1>6 DEF CheckOK
<1>8. checking' = y /\ UNCHANGED <<projectVars, cpVars, permit, steps>>
  BY <1>1 DEF Raised, Answered
<1> HIDE DEF y
<1> QED BY <1>7, <1>8, CheckStep

LEMMA CheckProjectK ==
    ASSUME KInv, NEW w \in Projs, NEW q \in Asked, CheckProject(w, q)
    PROVE  KInv'
<1> DEFINE x == [project |-> w, request |-> q, phase |-> "item", warned |-> FALSE, blocked |-> FALSE,
                 confirm |-> FALSE, began |-> commits, before |-> NothingInTheWay(w, q), after |-> FALSE]
<1>1. commits \in Nat
  BY DEF KInv, RInv, TablesOK
<1>2. NothingInTheWay(w, q) \in BOOLEAN
  BY DEF NothingInTheWay
<1>3. x \in Check
  BY <1>1, <1>2 DEF Check, Phases
<1>4. /\ x.project = w /\ x.request = q /\ x.phase = "item" /\ x.began = commits
      /\ ~x.warned /\ ~x.blocked /\ ~x.confirm /\ (x.before <=> NothingInTheWay(w, q))
  OBVIOUS
<1> DEFINE y == [x EXCEPT !.phase = "item"]
           z == [x EXCEPT !.phase = "refused", !.after = NothingInTheWay(w, q)]
<1>5. IF ProjectLive(w)
      THEN checking' = y ELSE checking' = z
  BY DEF CheckProject, Onward, Raised, Answered
<1>6. UNCHANGED <<projectVars, cpVars, permit, steps>>
  BY DEF CheckProject, Onward, Raised, Answered
<1> HIDE DEF x
<1>7. y = x
  BY <1>3, <1>4 DEF Check
<1>8. x.before <=> AllClear(x)
  BY <1>4, AllClearIs
<1>9. CASE ProjectLive(w)
  <2>2. ClearNow("project", x)
    BY <1>4, <1>9, ClearIs
  <2>3. Parts \ Unread(x.phase) = {"project"}
    BY <1>4 DEF Unread, Parts
  <2>4. SilentSoFar(x)
    BY <2>2, <2>3 DEF SilentSoFar
  <2>5. CheckOK(x)
    BY <1>1, <1>3, <1>4, <1>8, <2>4 DEF CheckOK, Answers
  <2> QED BY <1>5, <1>6, <1>7, <1>9, <2>5, CheckStep
<1>10. CASE ~ProjectLive(w)
  <2>1. ~NothingInTheWay(w, q)
    BY <1>10 DEF NothingInTheWay
  <2>2. z \in Check
    BY <1>2, <1>3 DEF Check, Answers
  <2>3. /\ z.phase = "refused" /\ ~z.before /\ z.began = commits /\ ~z.blocked /\ ~z.confirm
    BY <1>3, <1>4, <2>1 DEF Check
  <2>4. CheckOK(z)
    BY <1>1, <2>2, <2>3 DEF CheckOK, Phases
  <2> HIDE DEF z
  <2> QED BY <1>5, <1>6, <1>10, <2>4, CheckStep
<1> QED BY <1>9, <1>10

(* What a finding does to the row of a check. *)
LEMMA FindingIs ==
    ASSUME NEW x \in Check, NEW w \in BOOLEAN, NEW b \in BOOLEAN, NEW c \in BOOLEAN,
           NEW phase \in Phases, x.blocked \/ x.confirm => x.warned, b \/ c => w
    PROVE  LET y == [Finding(x, w, b, c) EXCEPT !.phase = phase]
           IN  /\ SameCheck(y, x) /\ y.phase = phase
               /\ y.warned <=> x.warned \/ w
               /\ y.blocked \/ y.confirm => y.warned
<1> DEFINE f == Finding(x, w, b, c)
           y == [f EXCEPT !.phase = phase]
<1>1. f \in Check
  BY DEF Finding, Check
<1>2. /\ f.project = x.project /\ f.request = x.request /\ f.began = x.began /\ f.before = x.before
      /\ f.warned = (x.warned \/ w) /\ f.blocked = (x.blocked \/ b) /\ f.confirm = (x.confirm \/ c)
  BY DEF Finding, Check
<1> HIDE DEF f
<1>3. y \in Check
  BY <1>1 DEF Check
<1>4. /\ y.project = f.project /\ y.request = f.request /\ y.began = f.began /\ y.before = f.before
      /\ y.warned = f.warned /\ y.blocked = f.blocked /\ y.confirm = f.confirm /\ y.phase = phase
  BY <1>1 DEF Check
<1> QED BY <1>2, <1>3, <1>4 DEF SameCheck, f

LEMMA CheckIs ==
    ASSUME KInv, checking # None
    PROVE  CheckOK(checking) /\ checking \in Check
BY DEF KInv, CheckOK

(* One part after the other. *)
LEMMA CheckFinds ==
    ASSUME KInv, NEW from \in Phases, NEW phase \in Phases, At(from),
           NEW w \in BOOLEAN, NEW b \in BOOLEAN, NEW c \in BOOLEAN, b \/ c => w,
           Onward(Finding(checking, w, b, c), phase),
           Unread(phase) \subseteq Unread(from),
           phase = "dependencies" => checking.request.item # None,
           IF w THEN ~AllClear(checking)
           ELSE \A n \in Unread(from) \ Unread(phase) : ClearNow(n, checking)
    PROVE  KInv'
<1>1. CheckOK(checking) /\ checking \in Check /\ checking # None /\ checking.phase = from
  BY CheckIs DEF At
<1>2. checking.blocked \/ checking.confirm => checking.warned
  BY <1>1 DEF CheckOK
<1> DEFINE y == [Finding(checking, w, b, c) EXCEPT !.phase = phase]
<1>3. /\ SameCheck(y, checking) /\ y.phase = phase /\ (y.warned <=> checking.warned \/ w)
      /\ y.blocked \/ y.confirm => y.warned
  BY <1>1, <1>2, FindingIs
<1>4. checking' = y /\ UNCHANGED <<projectVars, cpVars, permit, steps>>
  BY DEF Onward
<1> HIDE DEF y
<1>5. y.request = checking.request
  BY <1>3 DEF SameCheck
<1> QED BY <1>1, <1>3, <1>4, <1>5, CheckReads

LEMMA Unreads ==
    /\ Unread("item") = Parts \ {"project"}
    /\ Unread("dependencies") = Parts \ {"project", "item"}
    /\ Unread("policies") = {"policies", "procedures", "capability", "experience"}
    /\ Unread("procedures") = {"procedures", "capability", "experience"}
    /\ Unread("capability") = {"capability", "experience"}
    /\ Unread("experience") = {"experience"}
    /\ \A p \in Answers : Unread(p) = {}
    /\ Phases = {"item", "dependencies", "policies", "procedures", "capability", "experience"}
    /\ Parts = {"project", "item", "dependencies", "policies", "procedures", "capability", "experience"}
BY DEF Unread, Parts, Phases, Answers

(* A check that goes on silently where a record was not looked for. *)
LEMMA NoFinding == ASSUME NEW x \in Check PROVE Silent(x) = x
<1>1. Silent(x) \in Check
  BY DEF Silent, Finding, Check
<1>2. Silent(x).warned = x.warned /\ Silent(x).blocked = x.blocked /\ Silent(x).confirm = x.confirm
  BY DEF Silent, Finding, Check
<1> QED BY <1>1, <1>2 DEF Silent, Finding, Check

LEMMA CheckItemK ==
    ASSUME KInv, CheckItem
    PROVE  KInv'
<1>1. PICK x, i : x = checking /\ i = x.request.item
  OBVIOUS
<1>2. At("item") /\ x \in Check /\ checking # None /\ checking.phase = "item"
  BY <1>1, CheckIs DEF CheckItem, At
<1>3. CASE i = None
  <2>1. Onward(Finding(x, FALSE, FALSE, FALSE), "policies")
    BY <1>1, <1>2, <1>3, NoFinding DEF CheckItem, Silent
  <2>2. ClearNow("item", x) /\ ClearNow("dependencies", x)
    BY <1>1, <1>3, ClearIs
  <2>3. \A n \in Unread("item") \ Unread("policies") : ClearNow(n, x)
    BY <2>2, Unreads
  <2> QED BY <1>1, <1>2, <2>1, <2>3, CheckFinds, Unreads
<1>4. CASE i # None /\ (~ItemReadable(i) \/ x.project # Home \/ ~item[i].active)
  <2>1. ~AllClear(x)
    BY <1>1, <1>4, ClearIs DEF AllClear, Parts
  <2> QED BY <1>1, <1>2, <1>4, <2>1, CheckRefused, Unreads DEF CheckItem
<1>5. CASE i # None /\ ItemReadable(i) /\ x.project = Home /\ item[i].active /\ item[i].status = "blocked"
  <2>1. Onward(Finding(x, TRUE, TRUE, FALSE), "dependencies")
    BY <1>1, <1>5 DEF CheckItem, Blocked
  <2>2. ~AllClear(x)
    BY <1>1, <1>5, ClearIs DEF AllClear, Parts
  <2> QED BY <1>1, <1>2, <1>5, <2>1, <2>2, CheckFinds, Unreads
<1>6. CASE i # None /\ ItemReadable(i) /\ x.project = Home /\ item[i].active /\ item[i].status # "blocked"
  <2>1. Onward(Finding(x, FALSE, FALSE, FALSE), "dependencies")
    BY <1>1, <1>6 DEF CheckItem, Silent
  <2>2. ClearNow("item", x)
    BY <1>1, <1>6, ClearIs
  <2>3. \A n \in Unread("item") \ Unread("dependencies") : ClearNow(n, x)
    BY <2>2, Unreads
  <2> QED BY <1>1, <1>2, <1>6, <2>1, <2>3, CheckFinds, Unreads
<1> QED BY <1>3, <1>4, <1>5, <1>6

LEMMA CheckDependenciesK ==
    ASSUME KInv, CheckDependencies
    PROVE  KInv'
<1>1. PICK x, needed : x = checking /\ needed = DependsOn[x.request.item]
  OBVIOUS
<1>2. At("dependencies") /\ checking # None /\ x.phase = "dependencies" /\ x.request.item # None
  BY <1>1, CheckIs DEF CheckDependencies, At, CheckOK
<1>3. CASE \E i \in needed : ~ItemReadable(i) \/ x.project # Home
  <2>1. ~ClearNow("item", x) \/ ~ClearNow("dependencies", x)
    BY <1>1, <1>2, <1>3, ClearIs
  <2>2. ~AllClear(x)
    BY <2>1 DEF AllClear, Parts
  <2>3. Raised(x)
    BY <1>1, <1>3 DEF CheckDependencies
  <2> QED BY <1>1, <1>2, <2>2, <2>3, CheckRefused, Unreads
<1>4. CASE ~(\E i \in needed : ~ItemReadable(i) \/ x.project # Home) /\ \A i \in needed : DependencyDone(i)
  <2>1. Onward(Finding(x, FALSE, FALSE, FALSE), "policies")
    BY <1>1, <1>4 DEF CheckDependencies, Silent
  <2>2. ClearNow("dependencies", x)
    BY <1>1, <1>4, ClearIs
  <2>3. \A n \in Unread("dependencies") \ Unread("policies") : ClearNow(n, x)
    BY <2>2, Unreads
  <2> QED BY <1>1, <1>2, <2>1, <2>3, CheckFinds, Unreads
<1>5. CASE ~(\E i \in needed : ~ItemReadable(i) \/ x.project # Home) /\ ~(\A i \in needed : DependencyDone(i))
  <2>1. Onward(Finding(x, TRUE, TRUE, FALSE), "policies")
    BY <1>1, <1>5 DEF CheckDependencies, Blocked
  <2>2. ~AllClear(x)
    BY <1>1, <1>2, <1>5, ClearIs DEF AllClear, Parts
  <2> QED BY <1>1, <1>2, <2>1, <2>2, CheckFinds, Unreads
<1> QED BY <1>3, <1>4, <1>5

LEMMA CheckPoliciesK ==
    ASSUME KInv, CheckPolicies
    PROVE  KInv'
<1>1. PICK x : x = checking
  OBVIOUS
<1>2. At("policies") /\ checking # None /\ checking.phase = "policies"
  BY DEF CheckPolicies, At
<1>3. CASE \E y \in x.request.policies : ~outside[y].active \/ ~outside[y].enabled \/ outside[y].secret
  <2>1. ~AllClear(x)
    BY <1>3, ClearIs DEF AllClear, Parts
  <2> QED BY <1>1, <1>2, <1>3, <2>1, CheckRefused, Unreads DEF CheckPolicies
<1>4. CASE /\ ~(\E y \in x.request.policies : ~outside[y].active \/ ~outside[y].enabled \/ outside[y].secret)
           /\ x.request.policies # {}
  <2>1. Onward(Finding(x, TRUE, TRUE, FALSE), "procedures")
    BY <1>1, <1>4 DEF CheckPolicies, Blocked
  <2>2. ~AllClear(x)
    BY <1>4, ClearIs DEF AllClear, Parts
  <2> QED BY <1>1, <1>2, <2>1, <2>2, CheckFinds, Unreads
<1>5. CASE /\ ~(\E y \in x.request.policies : ~outside[y].active \/ ~outside[y].enabled \/ outside[y].secret)
           /\ x.request.policies = {}
  <2>1. Onward(Finding(x, FALSE, FALSE, FALSE), "procedures")
    BY <1>1, <1>5 DEF CheckPolicies, Silent
  <2>2. ClearNow("policies", x)
    BY <1>5, ClearIs
  <2>3. \A n \in Unread("policies") \ Unread("procedures") : ClearNow(n, x)
    BY <2>2, Unreads
  <2> QED BY <1>1, <1>2, <2>1, <2>3, CheckFinds, Unreads
<1> QED BY <1>3, <1>4, <1>5

LEMMA CheckProceduresK ==
    ASSUME KInv, CheckProcedures
    PROVE  KInv'
<1>1. PICK x : x = checking
  OBVIOUS
<1>2. At("procedures") /\ checking # None /\ checking.phase = "procedures"
  BY DEF CheckProcedures, At
<1> DEFINE barred == ~ProcedureReadable \/ x.project # Home \/ ~steps.active \/ steps.secret
<1>3. CASE x.request.procedure /\ barred
  <2>1. ~AllClear(x)
    BY <1>3, ClearIs DEF AllClear, Parts
  <2> QED BY <1>1, <1>2, <1>3, <2>1, CheckRefused, Unreads DEF CheckProcedures
<1>4. CASE x.request.procedure /\ ~barred /\ steps.status # "approved"
  <2>1. Onward(Finding(x, TRUE, TRUE, FALSE), "capability")
    BY <1>1, <1>4 DEF CheckProcedures, Blocked
  <2>2. ~AllClear(x)
    BY <1>4, ClearIs DEF AllClear, Parts
  <2> QED BY <1>1, <1>2, <2>1, <2>2, CheckFinds, Unreads
<1>5. CASE x.request.procedure => ~barred /\ steps.status = "approved"
  <2>1. Onward(Finding(x, FALSE, FALSE, FALSE), "capability")
    BY <1>1, <1>2, <1>5, CheckIs, NoFinding DEF CheckProcedures, Silent
  <2>2. ClearNow("procedures", x)
    BY <1>5, ClearIs
  <2>3. \A n \in Unread("procedures") \ Unread("capability") : ClearNow(n, x)
    BY <2>2, Unreads
  <2> QED BY <1>1, <1>2, <2>1, <2>3, CheckFinds, Unreads
<1> QED BY <1>3, <1>4, <1>5

LEMMA CheckCapabilityK ==
    ASSUME KInv, CheckCapability
    PROVE  KInv'
<1>1. PICK x, q, n : x = checking /\ q = x.request /\ n = q.capability
  OBVIOUS
<1>2. At("capability") /\ checking # None /\ checking.phase = "capability" /\ x \in Check
  BY <1>1, CheckIs DEF CheckCapability, At
<1>3. /\ n # None => n \in CapabilityNames
      /\ None \notin DOMAIN Registry /\ q.scope \in BOOLEAN
  BY <1>1, <1>2, RequestIs, PreflightAssumption DEF Optional
<1>4. ClearNow("capability", x) <=>
         /\ q.scope <=> n \in DOMAIN Registry /\ Registry[n].scoped
         /\ n # None => /\ n \in DOMAIN Registry /\ Registry[n].released /\ ~Registry[n].risky
                        /\ Registry[n].scoped => permit \in Granted
  BY <1>1, ClearIs DEF ScopeFits
<1>5. ASSUME Raised(x), ~ClearNow("capability", x) PROVE KInv'
  <2>1. ~AllClear(x)
    BY <1>5 DEF AllClear, Parts
  <2> QED BY <1>1, <1>2, <1>5, <2>1, CheckRefused, Unreads
<1>6. ASSUME ClearNow("capability", x), Onward(Finding(x, FALSE, FALSE, FALSE), "experience") PROVE KInv'
  <2>1. \A m \in Unread("capability") \ Unread("experience") : ClearNow(m, x)
    BY <1>6, Unreads
  <2> QED BY <1>1, <1>2, <1>6, <2>1, CheckFinds, Unreads
<1>7. CASE n = None
  <2>1. IF q.scope THEN Raised(x) ELSE Onward(x, "experience")
    BY <1>1, <1>7 DEF CheckCapability
  <2>2. q.scope <=> ~ClearNow("capability", x)
    BY <1>3, <1>4, <1>7
  <2>3. x = Finding(x, FALSE, FALSE, FALSE)
    BY <1>2, NoFinding DEF Silent
  <2> QED BY <1>5, <1>6, <2>1, <2>2, <2>3
<1>8. CASE n # None /\ (n \notin DOMAIN Registry \/ q.scope # Registry[n].scoped)
  <2>1. Raised(x)
    BY <1>1, <1>8 DEF CheckCapability
  <2>2. n \in DOMAIN Registry => Registry[n].scoped \in BOOLEAN
    BY PreflightAssumption
  <2>3. ~ClearNow("capability", x)
    BY <1>3, <1>4, <1>8, <2>2
  <2> QED BY <1>5, <2>1, <2>3
<1>9. CASE n # None /\ n \in DOMAIN Registry /\ q.scope = Registry[n].scoped
  <2>1. Registry[n].scoped \in BOOLEAN /\ Registry[n].released \in BOOLEAN /\ Registry[n].risky \in BOOLEAN
    BY <1>9, PreflightAssumption
  <2>2. PICK asks, denied : /\ asks = (Registry[n].risky \/ (Registry[n].scoped /\ permit = "ask"))
                            /\ denied = (\/ ~Registry[n].released
                                         \/ Registry[n].scoped /\ permit \notin Granted \union {"ask"})
    OBVIOUS
  <2>3. asks \in BOOLEAN /\ denied \in BOOLEAN
    BY <2>2
  <2>4. Onward(Finding(x, asks \/ denied, denied, asks), "experience")
    BY <1>1, <1>9, <2>2 DEF CheckCapability
  <2>5. (asks \/ denied) <=> ~ClearNow("capability", x)
    BY <1>4, <1>9, <2>1, <2>2 DEF Granted, Modes
  <2>6. CASE asks = FALSE /\ denied = FALSE
    BY <1>6, <2>4, <2>5, <2>6
  <2>7. CASE asks = TRUE \/ denied = TRUE
    <3>1. ~AllClear(x)
      BY <2>5, <2>7 DEF AllClear, Parts
    <3>2. PICK w \in BOOLEAN : w = (asks \/ denied) /\ w = TRUE
      BY <2>3, <2>7
    <3>3. Onward(Finding(x, w, denied, asks), "experience")
      BY <2>4, <3>2
    <3> QED BY <1>1, <1>2, <2>3, <3>1, <3>2, <3>3, CheckFinds, Unreads
  <2> QED BY <2>3, <2>6, <2>7
<1> QED BY <1>7, <1>8, <1>9

LEMMA CheckExperienceK ==
    ASSUME KInv, CheckExperience
    PROVE  KInv'
<1>1. PICK x : x = checking
  OBVIOUS
<1>2. /\ x # None /\ x.phase = "experience" /\ x \in Check /\ CheckOK(x)
  BY <1>1, CheckIs DEF CheckExperience, At
<1> DEFINE open == OpenFailures(x.project, x.request.item)
<1>0. CASE \E e \in Existing(experience) : ~ExperienceReadable(e)
  <2>1. Raised(x)
    BY <1>0, <1>1 DEF CheckExperience
  <2>2. ~AllClear(x)
    BY <1>0, ClearIs DEF AllClear, Parts
  <2> QED BY <1>1, <1>2, <2>1, <2>2, CheckRefused, Unreads
<1> SUFFICES ASSUME ~(\E e \in Existing(experience) : ~ExperienceReadable(e)) PROVE KInv'
  BY <1>0
<1>3. PICK found : found \in BOOLEAN /\ (found <=> ~ClearNow("experience", x)) /\ found = (open # {})
  BY ClearIs
<1>4. PICK f : f = Finding(x, found, FALSE, FALSE)
  OBVIOUS
<1>5. f \in Check
  BY <1>2, <1>3, <1>4 DEF Finding, Check
<1>6. /\ f.project = x.project /\ f.request = x.request /\ f.began = x.began /\ f.before = x.before
      /\ f.warned = (x.warned \/ found) /\ f.blocked = x.blocked /\ f.confirm = x.confirm
  BY <1>2, <1>3, <1>4 DEF Finding, Check
<1>7. PICK b : b \in BOOLEAN /\ (b <=> AllClear(x)) /\ b = NothingInTheWay(f.project, f.request)
  BY <1>6, AllClearIs DEF NothingInTheWay
<1> DEFINE status == IF f.blocked THEN "blocked" ELSE IF f.confirm THEN "confirmation_required"
                     ELSE IF f.warned THEN "warning" ELSE "clear"
           y == [f EXCEPT !.phase = status, !.after = b]
<1>8. checking' = y /\ UNCHANGED <<projectVars, cpVars, permit, steps>>
  <2>1. f = Finding(x, open # {}, FALSE, FALSE)
    BY <1>3, <1>4
  <2>2. Answered(f, status)
    BY <1>1, <2>1 DEF CheckExperience
  <2>3. UNCHANGED <<projectVars, cpVars, permit, steps>>
    BY <2>2 DEF Answered
  <2>4. checking' = [f EXCEPT !.phase = status, !.after = NothingInTheWay(f.project, f.request)]
    BY <2>2 DEF Answered
  <2> QED BY <1>7, <2>3, <2>4
<1> HIDE DEF open
<1>9. status \in Answers /\ (status = "clear" <=> ~f.blocked /\ ~f.confirm /\ ~f.warned)
  BY DEF Answers
<1> HIDE DEF status
<1>10. y \in Check
  BY <1>5, <1>7, <1>9 DEF Check
<1>11. /\ y.phase = status /\ y.after = b /\ y.began = x.began /\ y.before = x.before
       /\ y.warned = f.warned /\ y.blocked = f.blocked /\ y.confirm = f.confirm
  BY <1>5, <1>6 DEF Check
<1> HIDE DEF y
<1>12. x.blocked \/ x.confirm => x.warned
  BY <1>2 DEF CheckOK
<1>13. y.phase = "clear" <=> ~x.warned /\ ~found
  BY <1>6, <1>9, <1>11, <1>12
<1>14. ASSUME commits <= x.began + 1
       PROVE  IF y.phase = "clear" THEN y.before \/ y.after ELSE ~y.before \/ ~y.after
  <2>1. /\ commits = x.began => (x.before <=> AllClear(x))
        /\ IF x.warned THEN Noticed(x) ELSE SilentSoFar(x)
    BY <1>2, <1>14, Unreads DEF CheckOK
  <2>2. Parts \ Unread(x.phase) = Parts \ {"experience"} /\ Unread(x.phase) = {"experience"}
        /\ "experience" \in Parts
    BY <1>2, Unreads
  <2>3. CASE ~x.warned /\ ~found
    <3>1. ClearNow("experience", x)
      BY <1>3, <2>3
    <3>2. AllClear(x) \/ x.before
      BY <2>1, <2>2, <2>3, <3>1 DEF SilentSoFar, AllClear
    <3> QED BY <1>7, <1>11, <1>13, <2>3, <3>2
  <2>4. CASE x.warned
    BY <1>7, <1>11, <1>13, <2>1, <2>4 DEF Noticed
  <2>5. CASE found
    <3>1. ~AllClear(x)
      BY <1>3, <2>2, <2>5 DEF AllClear
    <3> QED BY <1>7, <1>11, <1>13, <2>5, <3>1
  <2> QED BY <2>3, <2>4, <2>5
<1>15. y.phase \notin Phases /\ y.phase # "dependencies"
  BY <1>9, <1>11 DEF Answers, Phases
<1>16. CheckOK(y)
  <2>1. y.began <= commits /\ (y.blocked \/ y.confirm => y.warned)
    BY <1>2, <1>6, <1>11, <1>12 DEF CheckOK
  <2> QED BY <1>10, <1>11, <1>14, <1>15, <2>1 DEF CheckOK
<1> QED BY <1>8, <1>16, CheckStep

LEMMA PreflightNextK == KInv /\ [WritersNext \/ PreflightNext]_<<projectVars, cpVars, preflightVars>> => KInv'
<1> SUFFICES ASSUME KInv, [WritersNext \/ PreflightNext]_<<projectVars, cpVars, preflightVars>>
             PROVE  KInv'
  OBVIOUS
<1>1. CASE UNCHANGED <<projectVars, cpVars, preflightVars>>
  <2>1. checking = None \/ CheckOK(checking)
    BY DEF KInv
  <2>2. PICK y : y = checking
    OBVIOUS
  <2> QED BY <1>1, <2>1, <2>2, CheckStep DEF preflightVars
<1>2. CASE CheckEnds
  BY <1>2, CheckStep DEF CheckEnds
<1> QED BY <1>1, <1>2, WritersK, CheckProjectK, CheckItemK, CheckDependenciesK, CheckPoliciesK,
           CheckProceduresK, CheckCapabilityK, CheckExperienceK DEF PreflightNext

(* What an answer of check is worth, for any number of writers, requests   *)
(* and records: with at most one transaction beside it, "clear" means that *)
(* nothing stood in the way at its start or its end, and anything else     *)
(* that something did at one of the two.                                   *)
THEOREM PreflightAlwaysClear == PreflightSpec => []PreflightClear
<1>1. CheckpointsInit /\ PreflightInit => KInv
  BY InitW DEF PreflightInit, KInv, StepsRow
<1>2. KInv => PreflightClear
  BY DEF KInv, CheckOK, PreflightClear
<1> QED BY <1>1, <1>2, PreflightNextK, PTL DEF PreflightSpec
=============================================================================
