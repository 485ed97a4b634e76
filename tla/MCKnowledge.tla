---------------------------- MODULE MCKnowledge ----------------------------
(***************************************************************************)
(* Model-checking instance of TruthRecords, Procedures and Memories.  A    *)
(* behaviour works on one of them (part): memories share no state with the *)
(* other two, and procedures only read and archive truth records.  Secret  *)
(* records and dates the wrong way round, which matter to the exporter     *)
(* alone, have parts of their own; among procedures and their truth        *)
(* records one at a time is so.  Recall has one writer at a time, as every *)
(* client writes memories alike.                                           *)
(***************************************************************************)
EXTENDS Procedures, Memories, TLC

CONSTANT
    FewerCommits    \* bound: transactions in the parts recall, hidden truth and hidden procedures

VARIABLE part

Src(o, a, has) == [origin |-> o, actor |-> a, has |-> has]
Statement == Src("user_statement", "user", {})
MCSources ==
    {Statement,
     Src("model_proposal", "model", {"model", "runtime", "session", "operation"}),
     Src("user_statement", "model", {"model", "runtime", "session", "operation"}),
     Src("unknown", "system", {"policy"})}

Form(status, version, complete, provenance, secret) ==
    [status |-> status, version |-> version, complete |-> complete, provenance |-> provenance,
     secret |-> secret]
First(secret) == Form("approved", 1, TRUE, "user-created", secret)
Second(secret) == Form("approved", 2, TRUE, "user-created", secret)
MCForms == {First(FALSE), Form("draft", 2, TRUE, "model-proposed", FALSE)}
              \union {Second(secret) : secret \in BOOLEAN}

(* Everything that is stored goes out, and its dates are as they should be. *)
Plainly ==
    /\ \A t \in StoredTruths : truth[t].dated /\ ~truth[t].secret
    /\ \A p \in StoredProcs : proc[p].dated /\ ~proc[p].secret
    /\ \A c \in Clients : pending[c] # None /\ pending[c].table = "procedure" => ~pending[c].row.secret
    /\ \A prj \in Projects : project[prj].dated /\ ~project[prj].secret

(* How many records are secret or have their dates the wrong way round. *)
Odd ==
    Cardinality({t \in StoredTruths : truth[t].secret \/ ~truth[t].dated})
      + Cardinality({p \in StoredProcs : proc[p].secret \/ ~proc[p].dated})
      + Cardinality({prj \in Projects : project[prj].secret \/ ~project[prj].dated})

(* The procedures parts start with a claim, its evidence and a procedure. *)
MCInit ==
    /\ MemoInit
    /\ pending = [c \in Clients |-> None]
    /\ commits = 0
    /\ reviewed = [t \in Truths |-> "unreviewed"]
    /\ \/ part \in {"truth", "hidden truth", "memories", "secrets", "recall"} /\ TruthInit /\ ProcInit
       \/ /\ part \in {"procedures", "hidden procedures"}
          /\ \E secret, hidden \in BOOLEAN, prj \in Projects :
                /\ truth = [x \in Truths |->
                      CASE x = 1 -> NewTruth("claim", Statement, "unreviewed", {}, FALSE)
                        [] x = 2 -> NewTruth("evidence", Statement, "unreviewed",
                                             {<<"supports", 1>>}, secret)
                        [] OTHER -> None]
                /\ proc = [p \in Procs |->
                             IF p = 1 THEN NewProc(prj, First(hidden), {}, None) ELSE None]
          /\ project \in [Projects -> {row \in ProjectRow : row.active /\ row.linked /\ row.dated}]
    /\ IF part = "hidden procedures" THEN Odd <= 1 ELSE Plainly

Alone(c) == \A d \in Clients \ {c} : pending[d] = None

Drafting(c) ==
    pending[c] # None /\ pending[c].table = "procedure" /\ pending[c].row.status = "draft"

MCNext ==
    /\ \/ part = "truth" /\ TruthNext /\ UNCHANGED <<procVars, memoVars>> /\ Plainly'
       \/ part = "procedures" /\ ProcNext /\ Plainly' /\ UNCHANGED memoVars
       \/ /\ part = "hidden truth"
          /\ TruthNext /\ commits' <= FewerCommits
          /\ UNCHANGED <<procVars, memoVars>>
       \/ /\ part = "hidden procedures"
          /\ ProcNext /\ commits' <= FewerCommits /\ Odd' <= 1
          /\ (\E c \in Clients : Alone(c)') /\ \A c \in Clients : ~Drafting(c)'
          /\ UNCHANGED memoVars
       \/ /\ part = "memories"
          /\ MoveClock \/ \E c \in Clients : \/ WriteMemos(c, AtMostOneMemo, {FALSE}, {None, "pam"})
                                           \/ PublishMemos(c)
          /\ UNCHANGED procVars
       \/ /\ part = "secrets"
          /\ \E c \in Clients : Alone(c) /\ WriteMemos(c, AtMostOneMemo, BOOLEAN, {None})
          /\ UNCHANGED procVars
       \/ /\ part = "recall"
          /\ ReadMemos(ReportKinds) \/ \E c \in Clients : Alone(c) /\ WriteMemos(c, {{}}, BOOLEAN, {None})
          /\ commits' <= FewerCommits
          /\ UNCHANGED procVars
    /\ UNCHANGED part

storedVars == <<truth, proc, project, memo>>

(* Every change of a record leaves a workspace whose export is decided as  *)
(* the services lead one to expect, and fails for three reasons only: a    *)
(* record that goes out has its dates the wrong way round, or names one    *)
(* that stays behind, neither of which any service of these prevents, or   *)
(* is a procedure that cannot be read (_build_export_members,              *)
(* _envelope_from_payload, _validate_cross_record_links,                   *)
(* _validate_procedure_package_graph against _validate_procedure_links and *)
(* _validate_memory_references).                                           *)
ExportDecided ==
    [][storedVars' # storedVars =>
         TruthsPackaged' /\ MemoriesPackaged' /\ ProceduresPackaged']_storedVars

MCSpec == MCInit /\ [][MCNext]_<<truthVars, procVars, memoVars, part>>
Symmetry == Permutations(Readers) \union Permutations(Clients)
=============================================================================
