------------------------------ MODULE Memories ------------------------------
(***************************************************************************)
(* ConfirmedMemoryService and what reads the memories: the lexical index,  *)
(* recall, the context budget preview, semantic ranking and the detection  *)
(* of consolidation candidates; and PamV1MemoryPublisher, which turns a    *)
(* staged foreign memory into a confirmed one.                             *)
(*                                                                         *)
(* The repository runs without read transactions: every SELECT sees the    *)
(* state of its own moment.  A reader is therefore a sequence of steps     *)
(* between which clients commit.  past keeps the table at every state      *)
(* revision, to say which moment a report speaks of.                       *)
(***************************************************************************)
EXTENDS TruthRecords, Sequences

CONSTANTS
    Memos,       \* memory identifiers, taken in order
    Readers,     \* readers of memories
    MaxClock     \* bound: wall clock values

(* A stored memory. *)
MemoRow == [secret : BOOLEAN, related : SUBSET Memos, contradicts : SUBSET Memos,
            lineage : {None, "pam"}, edited : BOOLEAN, created : Nat, updated : Nat,
            active : BOOLEAN, rev : Nat \ {0}]

ASSUME MemoryAssumption ==
    /\ Memos \subseteq Nat /\ MaxClock \in Nat
    /\ None # "pam" /\ None \notin MemoRow

VARIABLES
    memo,        \* [Memos -> row or None]
    past,        \* history: memo at every state revision, from revision 0
    clock,       \* wall clock
    stepped,     \* history: the clock has been set back
    index,       \* the index file: [rev, entries], or None
    reader,      \* [Readers -> what a reader has read so far, or None]
    report,      \* [Readers -> the last report of a reader, or None]
    plan,        \* [Clients -> an approved publication plan, or None]
    clash        \* history: two publications overlapped

memoVars == <<memo, past, clock, stepped, index, reader, report, plan, clash>>

(* What reads memories.  The budget preview and the detection of           *)
(* consolidation candidates proceed alike.                                 *)
ReportKinds == {"index", "query", "budget", "consolidation", "semantic", "recall"}
-----------------------------------------------------------------------------
(* _validate_memory_envelope, the part that can fail for a stored row. *)
MemoParses(row) == row.updated >= row.created

MemoReadable(m) == memo[m] # None /\ MemoParses(memo[m])

(* _validate_memory_references with the check that no memory is both       *)
(* related and contradicting.                                              *)
MemoLinksOk(self, related, contradicts) ==
    /\ related \intersect contradicts = {}
    /\ \A m \in related \union contradicts : m # self /\ MemoReadable(m)

NewMemo(secret, related, contradicts, lineage) ==
    [secret |-> secret, related |-> related, contradicts |-> contradicts, lineage |-> lineage,
     edited |-> FALSE, created |-> clock, updated |-> clock, active |-> TRUE, rev |-> 1]

NotReading == UNCHANGED <<index, reader, report>>
NotMemo == UNCHANGED <<memo, past, clock, stepped>>

ReservedMemos == {pending[c].id : c \in {d \in Clients : pending[d] # None /\ pending[d].rev = 0}}

(* create, update and archive.  An update may name another source. *)
CreateMemo(c, m, secret, related, contradicts) ==
    /\ MemoLinksOk(None, related, contradicts)
    /\ Prepare(c, "memory", m, NewMemo(secret, related, contradicts, None), 0)
    /\ UNCHANGED <<truth, reviewed, commits, memoVars>>

UpdateMemo(c, m, related, contradicts, lineage) ==
    /\ MemoReadable(m) /\ memo[m].active
    /\ MemoLinksOk(m, related, contradicts)
    /\ Prepare(c, "memory", m,
               [memo[m] EXCEPT !.related = related, !.contradicts = contradicts,
                               !.lineage = lineage, !.edited = TRUE, !.updated = clock],
               memo[m].rev)
    /\ UNCHANGED <<truth, reviewed, commits, memoVars>>

ArchiveMemo(c, m) ==
    /\ MemoReadable(m) /\ memo[m].active
    /\ Prepare(c, "memory", m, [memo[m] EXCEPT !.active = FALSE, !.updated = clock], memo[m].rev)
    /\ UNCHANGED <<truth, reviewed, commits, memoVars>>

(* _create_memory_record, _update_memory_record: the state revision counts *)
(* the commits.                                                            *)
CommitMemo(c) ==
    LET w == pending[c]
    IN  /\ w # None /\ w.table = "memory"
        /\ CommitAllowed(memo[w.id], w)
        /\ memo' = [memo EXCEPT ![w.id] = [w.row EXCEPT !.rev = w.rev + 1]]
        /\ past' = Append(past, memo')
        /\ commits' = commits + 1
        /\ pending' = [pending EXCEPT ![c] = None]
        /\ plan' = [plan EXCEPT ![c] = None]
        /\ UNCHANGED <<truth, reviewed, clock, stepped, clash>> /\ NotReading

AbandonMemo(c) ==
    /\ pending[c] # None
    /\ pending' = [pending EXCEPT ![c] = None]
    /\ plan' = [plan EXCEPT ![c] = None]
    /\ UNCHANGED <<truth, reviewed, commits, clash>> /\ NotReading /\ NotMemo

(* The wall clock moves, forwards or, when it is set, backwards. *)
SetClock(now) ==
    /\ now # clock
    /\ clock' = now
    /\ stepped' = (stepped \/ now < clock)
    /\ UNCHANGED <<truthVars, memo, past, plan, clash>> /\ NotReading
-----------------------------------------------------------------------------
(* PamV1MemoryPublisher.  Lineage is the identity of the foreign memory.   *)
WithLineage == {m \in Memos : memo[m] # None /\ memo[m].lineage = "pam"}

(* preview: more than one memory of the lineage, or one that was corrected *)
(* since, refuses.                                                         *)
PamPreview ==
    IF \/ Cardinality(WithLineage) > 1
       \/ \E m \in WithLineage : ~MemoReadable(m) \/ memo[m].edited
    THEN None
    ELSE [rev |-> commits, action |-> IF WithLineage = {} THEN "create" ELSE "reuse"]

Preview(c) ==
    /\ pending[c] = None /\ plan[c] = None
    /\ PamPreview # None
    /\ plan' = [plan EXCEPT ![c] = PamPreview]
    /\ UNCHANGED <<truthVars, clash>> /\ NotReading /\ NotMemo

(* Mutant: the approved plan is not compared with the present. *)
PlanApproved(c) == plan[c] # None

(* publish: the approved plan must be what a preview gives now. *)
PlanCurrent(c) == plan[c] # None /\ plan[c] = PamPreview

Publish(c) ==
    /\ PlanCurrent(c)
    /\ \/ /\ plan[c].action = "create"
          /\ \E m \in Unused(memo, ReservedMemos) :
                Prepare(c, "memory", m, NewMemo(FALSE, {}, {}, "pam"), 0)
          /\ clash' = (clash \/ \E d \in Clients : pending[d] # None /\ pending[d].table = "memory"
                                                      /\ pending[d].row.lineage = "pam")
          /\ UNCHANGED plan
       \/ /\ plan[c].action = "reuse"
          /\ plan' = [plan EXCEPT ![c] = None]
          /\ UNCHANGED <<pending, clash>>
    /\ UNCHANGED <<truth, reviewed, commits>> /\ NotReading /\ NotMemo

Reject(c) ==
    /\ plan[c] # None /\ pending[c] = None
    /\ plan' = [plan EXCEPT ![c] = None]
    /\ UNCHANGED <<truthVars, clash>> /\ NotReading /\ NotMemo
-----------------------------------------------------------------------------
(* Readers.  Every one of them reads the state revision first; a query has *)
(* by then opened the index, and keeps it if another takes its place.      *)
ReadEnds(r) == reader' = [reader EXCEPT ![r] = None]
NoWrite == UNCHANGED <<truthVars, plan, clash>> /\ NotMemo

Begin(r, kind) ==
    /\ reader[r] = None
    /\ kind = "query" => index # None /\ index.rev = commits
    /\ reader' = [reader EXCEPT ![r] =
                    [kind |-> kind, rev |-> commits, seen |-> <<>>, todo |-> {}, listed |-> FALSE,
                     opened |-> IF kind = "query" THEN index.entries ELSE <<>>]]
    /\ report' = [report EXCEPT ![r] = None]
    /\ UNCHANGED index /\ NoWrite

(* The SELECT of the identifiers; a query takes them from the index. *)
List(r) ==
    /\ reader[r] # None /\ ~reader[r].listed
    /\ reader' = [reader EXCEPT
          ![r].listed = TRUE,
          ![r].todo = IF reader[r].kind = "query" THEN DOMAIN reader[r].opened
                      ELSE {m \in Memos : memo[m] # None /\ memo[m].active /\ ~memo[m].secret}]
    /\ UNCHANGED <<index, report>> /\ NoWrite

Extended(f, x, v) == [y \in DOMAIN f \union {x} |-> IF y = x THEN v ELSE f[y]]

(* memory_service.get for one of them.  The index and its queries refuse a *)
(* memory that is not what was selected, the others take what they find.   *)
ReadOne(r, m) ==
    /\ reader[r] # None /\ m \in reader[r].todo
    /\ LET good == /\ MemoParses(memo[m])
                   /\ reader[r].kind \in {"index", "query"} => memo[m].active
                   /\ reader[r].kind = "query" => memo[m].rev = reader[r].opened[m]
       IN  IF good
           THEN reader' = [reader EXCEPT ![r].todo = @ \ {m},
                                         ![r].seen = Extended(@, m, memo[m].rev)]
           ELSE ReadEnds(r)
    /\ UNCHANGED <<index, report>> /\ NoWrite

(* Mutant: no reader compares the revision at the end. *)
NeverCompare(r) == TRUE

(* The comparison at the end: the state revision is the first one again. *)
Unmoved(r) == reader[r].rev = commits

(* The end of a report of one of the kinds, if nothing forbids it. *)
Finish(r, kinds, allowed) ==
    /\ reader[r] # None /\ reader[r].listed /\ reader[r].todo = {} /\ reader[r].kind \in kinds
    /\ report' = IF allowed
                 THEN [report EXCEPT ![r] = [kind |-> reader[r].kind, rev |-> reader[r].rev,
                                             seen |-> reader[r].seen]]
                 ELSE report
    /\ ReadEnds(r)
    /\ NoWrite

(* build_memory_lexical_index: os.replace puts the file in place.  The     *)
(* inspection that follows refuses a stale index, but leaves it.           *)
FinishIndex(r) ==
    /\ Finish(r, {"index"}, Unmoved(r))
    /\ index' = IF Unmoved(r) THEN [rev |-> reader[r].rev, entries |-> reader[r].seen] ELSE index

(* preview_memory_context_budget *)
FinishBudget(r) == Finish(r, {"budget"}, Unmoved(r)) /\ UNCHANGED index

(* detect_memory_consolidation_candidates *)
FinishConsolidation(r) == Finish(r, {"consolidation"}, Unmoved(r)) /\ UNCHANGED index

(* rank_semantic_memories: without a memory it returns before comparing. *)
FinishSemantic(r) ==
    Finish(r, {"semantic"}, reader[r].seen = <<>> \/ Unmoved(r)) /\ UNCHANGED index

(* derive_memory_recall_state and query_memory_lexical_index compare       *)
(* nothing more.                                                           *)
FinishRecall(r) == Finish(r, {"recall"}, TRUE) /\ UNCHANGED index
FinishQuery(r) == Finish(r, {"query"}, TRUE) /\ UNCHANGED index

(* discard_memory_lexical_index *)
Discard ==
    /\ index # None
    /\ index' = None
    /\ UNCHANGED <<reader, report>> /\ NoWrite

MemoInit ==
    /\ memo = [m \in Memos |-> None]
    /\ past = <<memo>>
    /\ clock = 1 /\ stepped = FALSE
    /\ index = None
    /\ reader = [r \in Readers |-> None]
    /\ report = [r \in Readers |-> None]
    /\ plan = [c \in Clients |-> None]
    /\ clash = FALSE

AtMostOneMemo == {{}} \union {{m} : m \in {x \in Memos : memo[x] # None}}

WriteMemos(c, links, secrecy, lineages) ==
    \/ \E rel, con \in links :
          \/ \E m \in Unused(memo, ReservedMemos), secret \in secrecy :
                CreateMemo(c, m, secret, rel, con)
          \/ \E m \in Memos, lineage \in lineages : UpdateMemo(c, m, rel, con, lineage)
    \/ \E m \in Memos : ArchiveMemo(c, m)
    \/ CommitMemo(c) \/ AbandonMemo(c)

PublishMemos(c) == Preview(c) \/ Publish(c) \/ Reject(c)

ReadMemos(kinds) ==
    \/ \E r \in Readers :
          \/ \E kind \in kinds : Begin(r, kind)
          \/ List(r)
          \/ FinishIndex(r) \/ FinishBudget(r) \/ FinishConsolidation(r)
          \/ FinishSemantic(r) \/ FinishRecall(r) \/ FinishQuery(r)
          \/ \E m \in Memos : ReadOne(r, m)
    \/ Discard

MoveClock == \E now \in 0 .. MaxClock : SetClock(now)

MemoNext ==
    \/ ReadMemos(ReportKinds) \/ MoveClock
    \/ \E c \in Clients : WriteMemos(c, AtMostOneMemo, BOOLEAN, {None, "pam"}) \/ PublishMemos(c)

(* Memories by themselves. *)
MemoriesSpec == TruthInit /\ MemoInit /\ [][MemoNext]_<<truthVars, memoVars>>
-----------------------------------------------------------------------------
RevisionsAt(rev) ==
    LET t == past[rev + 1]
        ids == {m \in Memos : t[m] # None /\ t[m].active /\ ~t[m].secret}
    IN  [m \in ids |-> t[m].rev]

(* A report speaks of the state revision it names: it holds exactly the    *)
(* active, non-secret memories of that revision, although it was read in   *)
(* many steps; and so does the index, whichever builder put it in place.   *)
(* Two reports do not promise this: recall compares nothing, its memories  *)
(* may be later; and semantic ranking without a memory returns early.      *)
ReportIsOneMoment ==
    /\ index # None => index.entries = RevisionsAt(index.rev)
    /\ \A r \in Readers : report[r] # None =>
          CASE report[r].kind \in {"index", "query", "budget", "consolidation"} ->
                  report[r].seen = RevisionsAt(report[r].rev)
            [] report[r].kind = "semantic" ->
                  report[r].seen \in {<<>>, RevisionsAt(report[r].rev)}
            [] report[r].kind = "recall" ->
                  \A m \in DOMAIN report[r].seen \intersect DOMAIN RevisionsAt(report[r].rev) :
                     report[r].seen[m] >= RevisionsAt(report[r].rev)[m]

Refers(m) == memo[m].related \union memo[m].contradicts

(* The records of a state package. *)
MemoPackage ==
    {Record(<<"memory", m>>, "memory",
            [active |-> memo[m].active, secret |-> memo[m].secret,
             dated |-> MemoParses(memo[m]), rev |-> memo[m].rev],
            {<<<<"memory", x>>, "memory">> : x \in Refers(m)}, {}) :
       m \in {x \in Memos : memo[x] # None}}

(* As long as the clock is never set back, every memory can be read, with  *)
(* everything it refers to, and no memory is both related to and           *)
(* contradicted by another.                                                *)
MemoriesReadable ==
    \A m \in Memos : memo[m] # None =>
       /\ memo[m].related \intersect memo[m].contradicts = {}
       /\ ~stepped => /\ MemoParses(memo[m])
                      /\ \A x \in Refers(m) : x # m /\ memo[x] # None /\ MemoParses(memo[x])

(* Memories make the export of the workspace fail exactly when one that is *)
(* not secret refers to one that is, or was changed, after the clock was    *)
(* set back, at a time before its creation.                                *)
MemoriesPackaged ==
    PackageValid(MemoPackage) <=>
       \A m \in Memos : memo[m] # None /\ ~memo[m].secret =>
          MemoParses(memo[m]) /\ \A x \in Refers(m) : ~memo[x].secret

(* One foreign memory becomes at most one memory, unless two publications  *)
(* overlap between the check of the plan and the commit, or the user gives *)
(* its source to another memory by hand (pam_v1_publication.py, publish;   *)
(* with two, every later preview refuses).                                 *)
LineageUnique ==
    clash \/ Cardinality({m \in WithLineage : ~memo[m].edited}) <= 1

(* Memories, edited by clients and published from elsewhere: they stay     *)
(* readable, and a foreign memory is taken once.                           *)
MemoriesSound == MemoriesReadable /\ LineageUnique
=============================================================================
