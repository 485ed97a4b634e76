----------------------------- MODULE LocalWork -----------------------------
(***************************************************************************)
(* The workflows around one local turn: writing (local_writing with        *)
(* writing_context and resume_bundle_context), proposing a work item       *)
(* (local_work_proposal), reviewing an import (local_portability_review)   *)
(* and replaying imported conversation (imported_context_replay).          *)
(*                                                                         *)
(* All four look whether the operation is used, read what they were asked  *)
(* to include, store it as instruction origins, one transaction each, and  *)
(* run the turn.  An origin's id is derived from the operation and what it *)
(* holds, which is how a second attempt is noticed.  The turn looks once   *)
(* more whether the operation is used, in a query of its own, and only     *)
(* then stores the user's message, which marks the operation as used: two  *)
(* processes may both find it unused.  A turn that fails takes back its    *)
(* own records, not the origins prepared for it; a process may die at any  *)
(* point.                                                                  *)
(***************************************************************************)
EXTENDS Integers, Sequences, FiniteSets, FiniteSetsExt

CONSTANTS
    Workers,      \* processes
    Operations,   \* operation ids
    Workflow,     \* [Operations -> the workflow an operation is used for]
    Records,      \* records that may be selected
    Linked,       \* the projects and decisions among them; the rest are memories
    MaxSources,   \* bound: attachments of one writing
    Secret,       \* the rank of "secret"; sensitivities are 0 .. Secret
    MaxVersion,  \* bound: revisions of a record
    None

ASSUME WorkflowAssumption ==
    /\ Workflow \in [Operations -> {"writing", "proposal", "review", "replay"}]
    /\ Secret \in Nat /\ MaxVersion \in Nat \ {0} /\ MaxSources \in Nat

VARIABLES
    rec,        \* [Records -> revision, activity and sensitivity]
    made,       \* the origins there are
    turn,       \* [Operations -> the turns committed under it, in order]
    opened,     \* [Operations -> how many user messages are stored under it]
    item,       \* [Operations -> the work items proposed, in order]
    job,        \* [Workers -> the workflow a process is in, or None]
    moments,    \* history: every combination of revisions there was
    raced,      \* history: operations two processes had both found unused
    spent,      \* history: the origins some turn was made from
    stranded    \* history: origins that outlived the process they were made for

workVars == <<rec, made, turn, opened, item, job, moments, raced, spent, stranded>>

Revisions == [r \in Records |-> rec[r].rev]

WorkInit ==
    /\ rec \in [Records -> [rev : {1}, active : {TRUE}, sens : 0 .. Secret - 1]]
    /\ made = {}
    /\ turn = [o \in Operations |-> <<>>]
    /\ opened = [o \in Operations |-> 0]
    /\ item = [o \in Operations |-> <<>>]
    /\ job = [w \in Workers |-> None]
    /\ moments = {Revisions}
    /\ raced = {} /\ spent = {} /\ stranded = {}

(* StateRepository.update_record and the services above it. *)
ChangeRecord(r, active, sens) ==
    /\ rec[r].rev < MaxVersion
    /\ rec' = [rec EXCEPT ![r] = [rev |-> @.rev + 1, active |-> active, sens |-> sens]]
    /\ moments' = moments \union {[Revisions EXCEPT ![r] = @ + 1]}
    /\ UNCHANGED <<made, turn, opened, item, job, raced, spent, stranded>>
-----------------------------------------------------------------------------
Put(f, r, v) == [x \in (DOMAIN f) \union {r} |-> IF x = r THEN v ELSE f[x]]
Step(w, j) == job' = [job EXCEPT ![w] = j] /\ UNCHANGED <<rec, turn, opened, item, moments, raced, spent>>

(* _require_unused_operation and _preflight_target: nothing is stored      *)
(* under the operation, and the conversation, its parent event and an      *)
(* active binding are there.  s is what the caller selected, z the         *)
(* sensitivity it asked for, n how many sources it gave: a draft has none. *)
WorkBegin(w, o, s, z, n) ==
    /\ job[w] = None /\ opened[o] = 0
    /\ Workflow[o] # "writing" => s # {}
    /\ Step(w, [op |-> o, phase |-> "plan", todo |-> s, rows |-> <<>>, sens |-> z, ids |-> {},
                sources |-> n, nth |-> 0])
    /\ UNCHANGED <<made, stranded>>

(* The ids of the origins a job prepares.  One source has an id of the     *)
(* operation alone, several are numbered; a selected record's id depends   *)
(* on its revision too.                                                    *)
GivenSources(o, n) == IF n = 1 THEN {<<"source", o>>} ELSE {<<"source", o, i>> : i \in 1 .. n}
RecordIds(j) == {<<"record", j.op, r, j.rows[r].rev>> : r \in DOMAIN j.rows}
DerivedIds(j) ==
    CASE Workflow[j.op] = "writing"  -> GivenSources(j.op, j.sources) \union RecordIds(j)
      [] Workflow[j.op] = "proposal" -> RecordIds(j)
      [] Workflow[j.op] = "review"   -> {<<"review", j.op, [r \in DOMAIN j.rows |-> j.rows[r].rev]>>}
      [] Workflow[j.op] = "replay"   -> {<<"retrieval", j.op>>}

(* The process ends without a turn: refused, or killed.  The origins it    *)
(* stored stay; when no other process is in the operation, those no turn   *)
(* was made from are stranded.                                             *)
Abandoned(w) ==
    IF \A v \in Workers \ {w} : job[v] = None \/ job[v].op # job[w].op
    THEN {id \in made : id[2] = job[w].op /\ id \notin spent} ELSE {}
Leave(w) ==
    /\ job' = [job EXCEPT ![w] = None]
    /\ stranded' = stranded \union Abandoned(w)
    /\ UNCHANGED <<rec, made, turn, item, moments, raced, spent>>
Quit(w) == Leave(w) /\ UNCHANGED opened

(* _memory, _project, _decision, _require_record, _resolve_context: one    *)
(* selected record is read; it must be active, and, except for a replay,   *)
(* not secret.                                                             *)
Selectable(o, r) == rec[r].active /\ (Workflow[o] = "replay" \/ rec[r].sens < Secret)

PlanRecord(w, r) ==
    LET j == job[w]
    IN  /\ j # None /\ j.phase = "plan" /\ r \in j.todo
        /\ IF Selectable(j.op, r)
           THEN /\ Step(w, [j EXCEPT !.todo = @ \ {r}, !.rows = Put(@, r, rec[r])])
                /\ UNCHANGED <<made, stranded>>
           ELSE Quit(w)

(* require_unused, _require_unused_source_operation,                       *)
(* _require_unused_context, _require_unused_retrieval_operation.           *)
Unused(j) == DerivedIds(j) \intersect made = {}

(* The plan is complete: the limits hold and nothing of it is prepared. *)
CheckUnused(w) ==
    LET j == job[w]
    IN  /\ j # None /\ j.phase = "plan" /\ j.todo = {}
        /\ IF Unused(j)
           THEN /\ Step(w, [j EXCEPT !.phase = IF Workflow[j.op] = "review" THEN "recheck" ELSE "store",
                                     !.todo = IF Workflow[j.op] = "review" THEN DOMAIN j.rows ELSE {},
                                     !.ids = DerivedIds(j)])
                /\ UNCHANGED <<made, stranded>>
           ELSE Quit(w)

(* Mutant: the records are not read again. *)
UnchangedAlways(j, r) == TRUE

(* One record of _require_unchanged: revision and digest. *)
UnchangedRecord(j, r) == rec[r] = j.rows[r]

(* _require_unchanged, of a review only, record by record. *)
Recheck(w, r) ==
    LET j == job[w]
    IN  /\ j # None /\ j.phase = "recheck" /\ r \in j.todo
        /\ IF UnchangedRecord(j, r)
           THEN /\ Step(w, [j EXCEPT !.todo = @ \ {r},
                                     !.phase = IF j.todo = {r} THEN "store" ELSE "recheck"])
                /\ UNCHANGED <<made, stranded>>
           ELSE Quit(w)

(* materialize: one origin, in a transaction of its own. *)
Store(w, id) ==
    LET j == job[w]
    IN  /\ j # None /\ j.phase = "store" /\ id \in j.ids
        /\ made' = made \union {id}
        /\ Step(w, [j EXCEPT !.ids = @ \ {id}])
        /\ UNCHANGED stranded

(* maximum_writing_sensitivity, _maximum_sensitivity.  A replay keeps the  *)
(* requested sensitivity.                                                  *)
EffectiveSensitivity(j) ==
    IF Workflow[j.op] = "replay" THEN j.sens
    ELSE Max({j.sens} \union {j.rows[r].sens : r \in DOMAIN j.rows})

(* execute_turn asks once more, in a query of its own, whether anything is *)
(* stored under the operation.                                             *)
AskUnused(w) ==
    LET j == job[w]
    IN  /\ j # None /\ j.phase = "store" /\ j.ids = {}
        /\ IF opened[j.op] = 0
           THEN Step(w, [j EXCEPT !.phase = "turn"]) /\ UNCHANGED <<made, stranded>>
           ELSE Quit(w)

(* InstructionOriginService.create of the user's message: committed before *)
(* the runtime is called, and what the next process finds.                 *)
OpenTurn(w) ==
    LET j == job[w]
    IN  /\ j # None /\ j.phase = "turn"
        /\ opened' = [opened EXCEPT ![j.op] = @ + 1]
        /\ raced' = IF \E v \in Workers \ {w} :
                          job[v] # None /\ job[v].phase = "turn" /\ job[v].op = j.op
                    THEN raced \union {j.op} ELSE raced
        /\ job' = [job EXCEPT ![w] = [j EXCEPT !.phase = "open"]]
        /\ UNCHANGED <<rec, made, turn, item, moments, spent, stranded>>

(* _persist_turn: a completed turn or a failed one. *)
RunTurn(w, outcome) ==
    LET j == job[w]
    IN  /\ j # None /\ j.phase = "open"
        /\ turn' = [turn EXCEPT ![j.op] =
              Append(@, [outcome |-> outcome, sens |-> EffectiveSensitivity(j)])]
        /\ spent' = spent \union DerivedIds(j)
        /\ job' = [job EXCEPT ![w] =
              IF Workflow[j.op] = "proposal" /\ outcome = "completed"
              THEN [j EXCEPT !.phase = "propose", !.nth = Len(turn[j.op]) + 1] ELSE None]
        /\ UNCHANGED <<rec, made, opened, item, moments, raced, stranded>>

(* _rollback_created: a turn that raises takes its own records back. *)
RaiseTurn(w) ==
    /\ job[w] # None /\ job[w].phase = "open"
    /\ opened' = [opened EXCEPT ![job[w].op] = @ - 1]
    /\ Leave(w)

(* _assistant_output, _parse_proposal and WorkItemService.propose: the     *)
(* reply is read back and parsed; the project and the decisions the work   *)
(* item names must still be active, a selected memory need not be.  Any    *)
(* failure is reported as a rejection.                                     *)
Propose(w) ==
    LET j == job[w]
    IN  /\ j # None /\ j.phase = "propose"
        /\ \A r \in (DOMAIN j.rows) \intersect Linked : rec[r].active
        /\ item' = [item EXCEPT ![j.op] = Append(@,
              [turn |-> j.nth, sens |-> EffectiveSensitivity(j),
               needs |-> Max({0} \union {j.rows[r].sens : r \in DOMAIN j.rows})])]
        /\ job' = [job EXCEPT ![w] = None]
        /\ UNCHANGED <<rec, made, turn, opened, moments, raced, spent, stranded>>

(* Any refusal that was left open above, an exception, or a kill. *)
End(w) == job[w] # None /\ Quit(w)

WorkNext ==
    \/ \E r \in Records, a \in BOOLEAN, z \in 0 .. Secret : ChangeRecord(r, a, z)
    \/ \E w \in Workers :
          \/ \E o \in Operations, s \in SUBSET Records, z \in 0 .. Secret - 1, n \in 0 .. MaxSources :
                WorkBegin(w, o, s, z, n)
          \/ \E r \in Records : PlanRecord(w, r) \/ Recheck(w, r)
          \/ CheckUnused(w)
          \/ job[w] # None /\ \E id \in job[w].ids : Store(w, id)
          \/ AskUnused(w) \/ OpenTurn(w) \/ RaiseTurn(w)
          \/ \E outcome \in {"completed", "failed"} : RunTurn(w, outcome)
          \/ Propose(w) \/ End(w)

WorkSpec == WorkInit /\ [][WorkNext]_workVars
-----------------------------------------------------------------------------
WorkTypeOK ==
    /\ \A r \in Records : rec[r].rev \in 1 .. MaxVersion /\ rec[r].sens \in 0 .. Secret
    /\ stranded \subseteq made

(* The records a review describes had the revisions it names all at one    *)
(* moment, though it reads them one by one (_plan, _require_unchanged).    *)
ReviewIsOneMoment ==
    \A id \in made : id[1] = "review" =>
        \E v \in moments : \A r \in DOMAIN id[3] : v[r] = id[3][r]

(* Every proposed work item comes of a completed turn of its own, at the   *)
(* turn's sensitivity, which is never below that of the records it was     *)
(* made from (LocalWorkProposalService.execute).                           *)
ProposalAfterTurn ==
    \A o \in Operations :
        /\ \A i \in DOMAIN item[o] :
              /\ item[o][i].turn \in DOMAIN turn[o]
              /\ turn[o][item[o][i].turn].outcome = "completed"
              /\ item[o][i].sens = turn[o][item[o][i].turn].sens
              /\ item[o][i].sens >= item[o][i].needs
        /\ \A i, k \in DOMAIN item[o] : item[o][i].turn = item[o][k].turn => i = k

(* An operation has a second turn, and so a second work item, only when    *)
(* two processes had both found it unused before either stored its user's  *)
(* message (_require_unused_operation, a query long before the writes).    *)
OneTurnUnlessRaced == \A o \in Operations \ raced : Len(turn[o]) <= 1

(* No turn is ever made from an origin that was left behind by a process   *)
(* that ended: whatever is corrected meanwhile, a retry is refused as long *)
(* as it would prepare the same thing again, and passes with other         *)
(* sources, another number of them or another revision of a record         *)
(* (_require_unused_source_operation, require_unused,                      *)
(* _require_unused_retrieval_operation).                                   *)
RetryRefused == stranded \intersect spent = {}

(* The local workflows, with records that change, processes that die and   *)
(* operations that run twice: a review is of one moment, a proposal comes  *)
(* of one completed turn, an operation has one turn unless two processes   *)
(* asked at once, and what was left behind is never taken up again.        *)
WorkflowsSound ==
    WorkTypeOK /\ ReviewIsOneMoment /\ ProposalAfterTurn /\ OneTurnUnlessRaced /\ RetryRefused
=============================================================================
