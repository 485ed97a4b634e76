---------------------------- MODULE MCContexts ----------------------------
(***************************************************************************)
(* Model-checking instance of SourceFiles, RuntimeStream,                  *)
(* InstructionOrigins and LocalWork: how the context of a local turn is    *)
(* read, classified and prepared, and how the runtime's answer is taken.   *)
(* The four have no variable in common, and a behaviour works on one: the  *)
(* reading of a file, a call of the runtime, origins and packages, or one  *)
(* operation of a workflow.                                                *)
(***************************************************************************)
EXTENDS SourceFiles, RuntimeStream, InstructionOrigins, LocalWork

CONSTANTS o1, o2, o3, o4, r1, r2

VARIABLE part

MCWorkflow ==
    [o \in Operations |-> CASE o = o1 -> "writing" [] o = o2 -> "proposal"
                            [] o = o3 -> "review"  [] o = o4 -> "replay"]

(* What the operations select, and the sensitivities that make a           *)
(* difference to them.                                                     *)
Selections(o) == IF o = o1 THEN {{}, {r1}} ELSE IF o = o4 THEN {{r1}} ELSE {{r1, r2}}
Ranks(o) == IF o = o2 THEN {0, 1, Secret} ELSE IF o = o4 THEN {0, Secret} ELSE {0}
Given(o) == IF o = o1 THEN 0 .. MaxSources ELSE {0}
Watched(o) == UNION Selections(o)

OperationNext(o) ==
    \/ \E r \in Watched(o), a \in BOOLEAN, z \in Ranks(o) : ChangeRecord(r, a, z)
    \/ \E w \in Workers :
          \/ \E s \in Selections(o), n \in Given(o) : WorkBegin(w, o, s, 0, n)
          \/ \E r \in Records : PlanRecord(w, r) \/ Recheck(w, r)
          \/ CheckUnused(w)
          \/ job[w] # None /\ \E id \in job[w].ids : Store(w, id)
          \/ AskUnused(w) \/ OpenTurn(w) \/ RaiseTurn(w)
          \/ \E outcome \in {"completed", "failed"} : RunTurn(w, outcome)
          \/ Propose(w) \/ End(w)

MCInit ==
    /\ part \in {"files", "stream", "origins"} \union Operations
    /\ FilesInit /\ StreamInit /\ OriginsInit /\ WorkInit
    /\ part # "files" => path = CHOOSE i \in Inodes : TRUE
    /\ part # "stream" => ~cancelled
    /\ \A r \in Records : rec[r].sens = 0
    /\ \A p \in Policies : policy[p].rule = Plain
    /\ \A i \in Inodes : inode[i].text[1] = CHOOSE v \in Values : TRUE

MCNext ==
    /\ \/ part = "files" /\ FilesNext /\ UNCHANGED <<streamVars, originVars, workVars>>
       \/ part = "stream" /\ StreamNext /\ UNCHANGED <<fileVars, originVars, workVars>>
       \/ part = "origins" /\ OriginsNext /\ UNCHANGED <<fileVars, streamVars, workVars>>
       \/ part \in Operations /\ OperationNext(part) /\ UNCHANGED <<fileVars, streamVars, originVars>>
    /\ UNCHANGED part

mcVars == <<fileVars, streamVars, originVars, workVars, part>>
MCSpec == MCInit /\ [][MCNext]_mcVars /\ WF_mcVars(ProgramStep /\ UNCHANGED <<fileVars, originVars, workVars, part>>)
=============================================================================
