---------------------------- MODULE FilesProofs ----------------------------
(***************************************************************************)
(* Proofs about what the processes of one workspace do to its files, for   *)
(* any number of them, whichever of them fail, roll back or crash, and     *)
(* wherever.                                                               *)
(*                                                                         *)
(* Turns.  What each turn owns is told by its program counter (TurnOwns);  *)
(* files never share a path; and the parent a turn continues is stored,    *)
(* below it, or lost with its own turn.                                    *)
(*                                                                         *)
(* Copies (backup, export, package).  Revisions only grow, so a copy       *)
(* whose first and last reading of the revision agree has read the         *)
(* workspace as it is at that revision (CopyInv).                          *)
(*                                                                         *)
(* Returns (restore, import of a package).  A return that may still undo   *)
(* what it has placed finds its own workspace at the target, or the other  *)
(* return's moved aside (ReturnInv).                                       *)
(***************************************************************************)
EXTENDS ConversationTurns, WorkspaceCopy, WorkspaceReturn, WellFoundedInduction, TLAPS

RecordsOf(t) == {r \in records : r[1] = t}
FilesOf(t) == {f \in files : f[1] = t}
ArtifactsIn(S) == {x \in S : x[2] \in Artifacts}

\* The item a turn is writing, if it has one left.
Unfinished(t) == done[t] < Len(Plan(outcome[t]))
Current(t) == IF Unfinished(t) THEN {<<t, Item(t)>>} ELSE {}

\* A turn that has not begun to write owns nothing.
OwnsNothing(t) ==
    /\ RecordsOf(t) = {} /\ FilesOf(t) = {}
    /\ done[t] = 0 /\ outcome[t] = "none"

\* A turn between two items owns what it remembers.
OwnsCreated(t) ==
    /\ RecordsOf(t) = Created(t)
    /\ FilesOf(t) = ArtifactsIn(Created(t))

\* A turn whose item is committed owns that too.
OwnsCurrent(t) ==
    /\ RecordsOf(t) = Created(t) \cup Current(t)
    /\ FilesOf(t) = ArtifactsIn(Created(t) \cup Current(t))

\* Before the runtime has answered there is one item, the origin of the request.
BeforeAnswer(t) == outcome[t] = "none" => done[t] = 0

\* A rollback takes what the turn remembers, whole or not at all.
Whole(t) == Created(t) \subseteq records \/ Created(t) \cap records = {}

TurnOwns(t) ==
    /\ pc[t] \in {"idle", "refused"} \cup Checking => OwnsNothing(t)
    /\ pc[t] \in {"write", "commit"} => OwnsCreated(t) /\ Unfinished(t) /\ BeforeAnswer(t)
    /\ pc[t] = "commit" => Item(t) \in Events
    /\ pc[t] = "register" =>
          /\ RecordsOf(t) = Created(t)
          /\ FilesOf(t) = ArtifactsIn(Created(t)) \cup Current(t)
          /\ Item(t) \in Artifacts /\ Unfinished(t) /\ BeforeAnswer(t)
    /\ pc[t] = "settle" => OwnsCurrent(t) /\ Unfinished(t) /\ BeforeAnswer(t)
    /\ pc[t] = "generate" => OwnsCreated(t) /\ outcome[t] = "none" /\ done[t] = 1
    /\ pc[t] \in {"audit", "returned"} =>
          OwnsCreated(t) /\ ~Unfinished(t) /\ outcome[t] # "none"
    /\ pc[t] = "undo" =>
          /\ Created(t) \subseteq RecordsOf(t)
          /\ RecordsOf(t) \subseteq Created(t) \cup Current(t)
          /\ FilesOf(t) \subseteq ArtifactsIn(Created(t)) \cup Current(t)
    /\ pc[t] = "unlink" =>
          /\ RecordsOf(t) \subseteq Current(t)
          /\ FilesOf(t) \subseteq ArtifactsIn(Created(t)) \cup Current(t)
    /\ pc[t] = "failed" => RecordsOf(t) \cup FilesOf(t) \subseteq Current(t)
    /\ Whole(t)

\* No two managed files share a path.
PathsApart == \A f, g \in files : Path(f[1], f[2]) = Path(g[1], g[2]) => f = g

\* A turn that no longer holds what it had written.
Undone == {"unlink", "failed", "rollbackError", "crashed"}

\* The event a turn continues is another turn's, and is stored unless that turn
\* has ended without it; the turn's hint, once taken, is above the event's.
ContinuesEvent(t) ==
    LET p == ask[t].parent
    IN  p # NoParent =>
          /\ pc[t] # "idle" /\ p[1] # t
          /\ p \in records \/ pc[p[1]] \in Undone
          /\ pc[t] = "sequence" => ask[p[1]].conv = ask[t].conv
          /\ pc[t] \in Writing \/ <<t, "userEvent">> \in records =>
                (p \in records => Hint(p) < seq[t])

\* Hints have a bound at any time, so the largest of them exists.
HintsBounded == \E b \in Nat : \A t \in Turns : seq[t] <= b

TInv ==
    /\ TypeOK
    /\ \A t \in Turns : TurnOwns(t) /\ ContinuesEvent(t)
    /\ PathsApart /\ ArtifactHasFile /\ HintsBounded
-----------------------------------------------------------------------------
Answers == {"none", "completed", "error"}

\* Finite sets have their largest number: a nonempty set of naturals with a bound.
LEMMA LargestOf ==
    ASSUME NEW S \in SUBSET Nat, S # {}, NEW b \in Nat, \A x \in S : x <= b
    PROVE  Max(S) \in S /\ \A y \in S : Max(S) >= y
<1>. DEFINE T == {b - x : x \in S}
<1>1. T \subseteq Nat
  <2>1. \A x \in S : x \in Nat /\ x <= b  OBVIOUS
  <2>2. \A x \in S : b - x \in Nat  BY <2>1
  <2>. QED  BY <2>2
<1>2. T # {}  OBVIOUS
<1>3. PICK m \in T : \A y \in T : ~ (<<y, m>> \in OpToRel(<, Nat))
  <2>1. IsWellFoundedOn(OpToRel(<, Nat), Nat)  BY NatLessThanWellFounded
  <2>. HIDE DEF T
  <2>. QED  BY <2>1, <1>1, <1>2, WFMin
<1>4. \A y \in T : ~ (y < m)  BY <1>1, <1>3 DEF OpToRel
<1>5. PICK x \in S : m = b - x  BY <1>3
<1>6. \A y \in S : x >= y
  <2>. SUFFICES ASSUME NEW y \in S PROVE x >= y  OBVIOUS
  <2>1. b - y \in T  OBVIOUS
  <2>2. ~ (b - y < b - x)  BY <2>1, <1>4, <1>5
  <2>3. x \in Nat /\ y \in Nat  OBVIOUS
  <2>. QED  BY <2>2, <2>3
<1>. QED  BY <1>6 DEF Max

\* The plan of a turn names each of its items once; the first is the origin of
\* the request, and an event comes after the one it follows.
LEMMA PlanFacts ==
    ASSUME NEW r \in Answers
    PROVE  /\ Len(Plan(r)) \in Nat \ {0} /\ DOMAIN Plan(r) = 1 .. Len(Plan(r))
           /\ \A i \in 1 .. Len(Plan(r)) : Plan(r)[i] \in Kinds
           /\ \A i, j \in 1 .. Len(Plan(r)) : Plan(r)[i] = Plan(r)[j] => i = j
           /\ Plan(r)[1] = "userOrigin"
           /\ Len(Plan(r)) = 1 <=> r = "none"
           /\ r # "none" => \E i \in 1 .. Len(Plan(r)) : Plan(r)[i] = "userFile"
           /\ \A i \in 1 .. Len(Plan(r)) : Plan(r)[i] = "contextEvent" =>
                 \E j \in 1 .. i : Plan(r)[j] = "userEvent"
           /\ \A i \in 1 .. Len(Plan(r)) : Plan(r)[i] \in {"assistantEvent", "errorEvent"} =>
                 \E j \in 1 .. i : Plan(r)[j] = "contextEvent"
<1>1. CASE r = "none"
  <2>1. Plan(r) = <<"userOrigin">>  BY <1>1 DEF Plan
  <2>. QED  BY <1>1, <2>1 DEF Kinds, Origins, Artifacts, Events
<1>2. CASE r = "completed"
  <2>1. Plan(r) = <<"userOrigin", "runtimeOrigin", "userFile", "contextFile", "assistantFile", "userEvent", "contextEvent", "assistantEvent">>
    BY <1>2 DEF Plan
  <2>2. Len(Plan(r)) = 8 /\ DOMAIN Plan(r) = 1 .. 8  BY <2>1
  <2>3. /\ Plan(r)[1] = "userOrigin"
        /\ Plan(r)[2] = "runtimeOrigin"
        /\ Plan(r)[3] = "userFile"
        /\ Plan(r)[4] = "contextFile"
        /\ Plan(r)[5] = "assistantFile"
        /\ Plan(r)[6] = "userEvent"
        /\ Plan(r)[7] = "contextEvent"
        /\ Plan(r)[8] = "assistantEvent"
    BY <2>1
  <2>4. \A i \in 1 .. 8 : i = 1 \/ i = 2 \/ i = 3 \/ i = 4 \/ i = 5 \/ i = 6 \/ i = 7 \/ i = 8  OBVIOUS
  <2>5. \A i \in 1 .. 8 : Plan(r)[i] \in Kinds
    BY <2>3, <2>4 DEF Kinds, Origins, Artifacts, Events
  <2>6. \A i, j \in 1 .. 8 : Plan(r)[i] = Plan(r)[j] => i = j
    BY <2>3, <2>4
  <2>7. \A i \in 1 .. 8 : Plan(r)[i] = "contextEvent" => \E j \in 1 .. i : Plan(r)[j] = "userEvent"
    BY <2>3, <2>4
  <2>8. \A i \in 1 .. 8 : Plan(r)[i] \in {"assistantEvent", "errorEvent"} =>
           \E j \in 1 .. i : Plan(r)[j] = "contextEvent"
    BY <2>3, <2>4
  <2>9. \E i \in 1 .. 8 : Plan(r)[i] = "userFile"  BY <2>3
  <2>10. Len(Plan(r)) \in Nat \ {0} /\ DOMAIN Plan(r) = 1 .. Len(Plan(r))  BY <2>2
  <2>11. \A i \in 1 .. Len(Plan(r)) : Plan(r)[i] \in Kinds  BY <2>2, <2>5
  <2>12. \A i, j \in 1 .. Len(Plan(r)) : Plan(r)[i] = Plan(r)[j] => i = j  BY <2>2, <2>6
  <2>13. Plan(r)[1] = "userOrigin" /\ (Len(Plan(r)) = 1 <=> r = "none")  BY <1>2, <2>2, <2>3
  <2>14. \E i \in 1 .. Len(Plan(r)) : Plan(r)[i] = "userFile"  BY <2>2, <2>9
  <2>15. \A i \in 1 .. Len(Plan(r)) : Plan(r)[i] = "contextEvent" =>
            \E j \in 1 .. i : Plan(r)[j] = "userEvent"
    BY <2>2, <2>7
  <2>16. \A i \in 1 .. Len(Plan(r)) : Plan(r)[i] \in {"assistantEvent", "errorEvent"} =>
            \E j \in 1 .. i : Plan(r)[j] = "contextEvent"
    BY <2>2, <2>8
  <2>. QED  BY <2>10, <2>11, <2>12, <2>13, <2>14, <2>15, <2>16
<1>3. CASE r = "error"
  <2>1. Plan(r) = <<"userOrigin", "userFile", "contextFile", "userEvent", "contextEvent", "errorEvent">>
    BY <1>3 DEF Plan
  <2>2. Len(Plan(r)) = 6 /\ DOMAIN Plan(r) = 1 .. 6  BY <2>1
  <2>3. /\ Plan(r)[1] = "userOrigin"
        /\ Plan(r)[2] = "userFile"
        /\ Plan(r)[3] = "contextFile"
        /\ Plan(r)[4] = "userEvent"
        /\ Plan(r)[5] = "contextEvent"
        /\ Plan(r)[6] = "errorEvent"
    BY <2>1
  <2>4. \A i \in 1 .. 6 : i = 1 \/ i = 2 \/ i = 3 \/ i = 4 \/ i = 5 \/ i = 6  OBVIOUS
  <2>5. \A i \in 1 .. 6 : Plan(r)[i] \in Kinds
    BY <2>3, <2>4 DEF Kinds, Origins, Artifacts, Events
  <2>6. \A i, j \in 1 .. 6 : Plan(r)[i] = Plan(r)[j] => i = j
    BY <2>3, <2>4
  <2>7. \A i \in 1 .. 6 : Plan(r)[i] = "contextEvent" => \E j \in 1 .. i : Plan(r)[j] = "userEvent"
    BY <2>3, <2>4
  <2>8. \A i \in 1 .. 6 : Plan(r)[i] \in {"assistantEvent", "errorEvent"} =>
           \E j \in 1 .. i : Plan(r)[j] = "contextEvent"
    BY <2>3, <2>4
  <2>9. \E i \in 1 .. 6 : Plan(r)[i] = "userFile"  BY <2>3
  <2>10. Len(Plan(r)) \in Nat \ {0} /\ DOMAIN Plan(r) = 1 .. Len(Plan(r))  BY <2>2
  <2>11. \A i \in 1 .. Len(Plan(r)) : Plan(r)[i] \in Kinds  BY <2>2, <2>5
  <2>12. \A i, j \in 1 .. Len(Plan(r)) : Plan(r)[i] = Plan(r)[j] => i = j  BY <2>2, <2>6
  <2>13. Plan(r)[1] = "userOrigin" /\ (Len(Plan(r)) = 1 <=> r = "none")  BY <1>3, <2>2, <2>3
  <2>14. \E i \in 1 .. Len(Plan(r)) : Plan(r)[i] = "userFile"  BY <2>2, <2>9
  <2>15. \A i \in 1 .. Len(Plan(r)) : Plan(r)[i] = "contextEvent" =>
            \E j \in 1 .. i : Plan(r)[j] = "userEvent"
    BY <2>2, <2>7
  <2>16. \A i \in 1 .. Len(Plan(r)) : Plan(r)[i] \in {"assistantEvent", "errorEvent"} =>
            \E j \in 1 .. i : Plan(r)[j] = "contextEvent"
    BY <2>2, <2>8
  <2>. QED  BY <2>10, <2>11, <2>12, <2>13, <2>14, <2>15, <2>16
<1>. QED  BY <1>1, <1>2, <1>3 DEF Answers

\* What a turn remembers is its own and of its plan; the item it is writing is
\* not among it.
LEMMA CreatedFacts ==
    ASSUME TypeOK, NEW t \in Turns
    PROVE  /\ outcome[t] \in Answers /\ done[t] \in Nat
           /\ Len(Plan(outcome[t])) \in Nat \ {0} /\ done[t] <= Len(Plan(outcome[t]))
           /\ \A x \in Created(t) : x[1] = t /\ x \in Turns \X Kinds
           /\ Unfinished(t) => Item(t) \in Kinds /\ <<t, Item(t)>> \notin Created(t)
           /\ done[t] = 0 => Created(t) = {}
<1>1. outcome[t] \in Answers /\ done[t] \in Nat /\ done[t] <= Len(Plan(outcome[t]))
  BY DEF TypeOK, Answers
<1>2. \A i \in 1 .. Len(Plan(outcome[t])) : Plan(outcome[t])[i] \in Kinds
  BY <1>1, PlanFacts
<1>3. \A i, j \in 1 .. Len(Plan(outcome[t])) : Plan(outcome[t])[i] = Plan(outcome[t])[j] => i = j
  BY <1>1, PlanFacts
<1>4. Len(Plan(outcome[t])) \in Nat \ {0}  BY <1>1, PlanFacts
<1>5. \A i \in 1 .. done[t] : i \in 1 .. Len(Plan(outcome[t]))  BY <1>1, <1>4
<1>6. \A x \in Created(t) : x[1] = t /\ x \in Turns \X Kinds  BY <1>2, <1>5 DEF Created
<1>7. ASSUME Unfinished(t) PROVE Item(t) \in Kinds /\ <<t, Item(t)>> \notin Created(t)
  <2>1. done[t] + 1 \in 1 .. Len(Plan(outcome[t]))  BY <1>1, <1>4, <1>7 DEF Unfinished
  <2>2. ASSUME NEW i \in 1 .. done[t] PROVE Plan(outcome[t])[i] # Item(t)
    <3>1. i # done[t] + 1 /\ i \in 1 .. Len(Plan(outcome[t]))  BY <1>1, <1>5
    <3>. QED  BY <3>1, <2>1, <1>3 DEF Item
  <2>. QED  BY <2>1, <2>2, <1>2 DEF Item, Created
<1>8. done[t] = 0 => Created(t) = {}  BY DEF Created
<1>. QED  BY <1>1, <1>4, <1>6, <1>7, <1>8

\* A turn remembers one item more.
LEMMA CreatedGrows ==
    ASSUME TypeOK, NEW t \in Turns,
           done' = [done EXCEPT ![t] = @ + 1], outcome' = outcome
    PROVE  Created(t)' = Created(t) \cup {<<t, Item(t)>>}
<1>1. done[t] \in Nat /\ done'[t] = done[t] + 1  BY DEF TypeOK
<1>2. \A i : i \in 1 .. done'[t] <=> i \in 1 .. done[t] \/ i = done[t] + 1  BY <1>1
<1>. QED  BY <1>1, <1>2 DEF Created, Item

\* The runtime answers a turn that remembers the origin of the request: its plan
\* grows, and what it remembers stays.
LEMMA CreatedStays ==
    ASSUME TypeOK, NEW t \in Turns, NEW r \in {"completed", "error"},
           outcome[t] = "none", done[t] = 1,
           outcome' = [outcome EXCEPT ![t] = r], done' = done
    PROVE  Created(t)' = Created(t) /\ Unfinished(t)'
<1>1. outcome'[t] = r /\ done'[t] = 1  BY DEF TypeOK
<1>2. Plan(r)[1] = "userOrigin" /\ Plan("none")[1] = "userOrigin"  BY PlanFacts DEF Answers
<1>3. \A i \in 1 .. 1 : i = 1  OBVIOUS
<1>4. Created(t) = {<<t, "userOrigin">>}  BY <1>2, <1>3 DEF Created
<1>5. Created(t)' = {<<t, "userOrigin">>}  BY <1>1, <1>2, <1>3 DEF Created
<1>6. Len(Plan(r)) \in Nat \ {0} /\ Len(Plan(r)) # 1  BY PlanFacts DEF Answers
<1>7. 1 < Len(Plan(r))
  <2>1. \A n \in Nat \ {0} : n # 1 => 1 < n  OBVIOUS
  <2>. QED  BY <1>6, <2>1
<1>8. Unfinished(t)'  BY <1>1, <1>7 DEF Unfinished
<1>. QED  BY <1>4, <1>5, <1>8

\* What depends on a turn's own variables alone.
LEMMA CreatedSame ==
    ASSUME NEW t \in Turns, done'[t] = done[t], outcome'[t] = outcome[t]
    PROVE  /\ Created(t)' = Created(t) /\ Item(t)' = Item(t)
           /\ Unfinished(t)' = Unfinished(t) /\ Current(t)' = Current(t)
<1>1. Created(t)' = Created(t)  BY DEF Created
<1>2. Item(t)' = Item(t)  BY DEF Item
<1>3. Unfinished(t)' = Unfinished(t)  BY DEF Unfinished
<1>. QED  BY <1>1, <1>2, <1>3 DEF Current
-----------------------------------------------------------------------------
\* What a step of turn t leaves alone: the other turns and what they own.
Moves(t) ==
    /\ \A u \in Turns \ {t} :
          /\ pc'[u] = pc[u] /\ ask'[u] = ask[u] /\ seq'[u] = seq[u]
          /\ outcome'[u] = outcome[u] /\ done'[u] = done[u]
    /\ \A x : x[1] # t => (x \in records' <=> x \in records) /\ (x \in files' <=> x \in files)

\* Every action of a turn is such a step.
LEMMA StepMoves ==
    ASSUME TypeOK, NEW t \in Turns,
           Start(t) \/ RefuseOperation(t) \/ Step(t) \/ Crash(t)
    PROVE  Moves(t)
<1>. USE DEF TypeOK
<1>1. CASE Start(t)  BY <1>1 DEF Start, Moves
<1>2. CASE RefuseOperation(t)  BY <1>2 DEF RefuseOperation, Moves
<1>3. CASE ValidateParent(t)  BY <1>3 DEF ValidateParent, Moves
<1>4. CASE TakeSequence(t)  BY <1>4 DEF TakeSequence, Moves
<1>5. CASE Refuse(t)  BY <1>5 DEF Refuse, Moves
<1>6. CASE CommitOrigin(t)  BY <1>6 DEF CommitOrigin, Moves
<1>7. CASE PublishFile(t)  BY <1>7 DEF PublishFile, Moves
<1>8. CASE Register(t)  BY <1>8 DEF Register, Moves
<1>9. CASE RegisterFails(t)  BY <1>9 DEF RegisterFails, Moves
<1>10. CASE CheckEventParent(t)  BY <1>10 DEF CheckEventParent, Moves
<1>11. CASE CommitEvent(t)  BY <1>11 DEF CommitEvent, Moves
<1>12. CASE Settle(t)  BY <1>12 DEF Settle, Moves
<1>13. CASE LateFailure(t)  BY <1>13 DEF LateFailure, Moves
<1>14. CASE Generate(t)  BY <1>14 DEF Generate, Moves
<1>15. CASE Fail(t)  BY <1>15 DEF Fail, Moves
<1>16. CASE AppendAudit(t)  BY <1>16 DEF AppendAudit, Moves
<1>17. CASE UndoRecords(t)
  <2>1. \A x \in RemovedRecords(t) : x[1] = t  BY DEF RemovedRecords, Created
  <2>. QED  BY <1>17, <2>1 DEF UndoRecords, Moves
<1>18. CASE UnlinkFiles(t)
  <2>1. \A x \in RemovedFiles(t) : x[1] = t  BY DEF RemovedFiles, Created
  <2>. QED  BY <1>18, <2>1 DEF UnlinkFiles, Moves
<1>19. CASE Crash(t)  BY <1>19 DEF Crash, Moves
<1>. QED
  BY <1>1, <1>2, <1>3, <1>4, <1>5, <1>6, <1>7, <1>8, <1>9, <1>10, <1>11, <1>12,
     <1>13, <1>14, <1>15, <1>16, <1>17, <1>18, <1>19 DEF Step

\* A turn that does not move owns what it owned.
LEMMA OthersOwn ==
    ASSUME TypeOK, NEW t \in Turns, NEW u \in Turns, u # t, Moves(t), TurnOwns(u)
    PROVE  TurnOwns(u)'
<1>1. /\ pc'[u] = pc[u] /\ outcome'[u] = outcome[u] /\ done'[u] = done[u]  BY DEF Moves
<1>2. RecordsOf(u)' = RecordsOf(u)
  <2>1. \A x : x[1] = u => (x \in records' <=> x \in records)  BY DEF Moves
  <2>. QED  BY <2>1 DEF RecordsOf
<1>3. FilesOf(u)' = FilesOf(u)
  <2>1. \A x : x[1] = u => (x \in files' <=> x \in files)  BY DEF Moves
  <2>. QED  BY <2>1 DEF FilesOf
<1>4. /\ Created(u)' = Created(u) /\ Item(u)' = Item(u)
      /\ Unfinished(u)' = Unfinished(u) /\ Current(u)' = Current(u)
  BY <1>1, CreatedSame
<1>5. Whole(u)' <=> Whole(u)
  <2>1. \A x \in Created(u) : x[1] = u  BY CreatedFacts
  <2>2. \A x \in Created(u) : x \in records' <=> x \in records  BY <2>1 DEF Moves
  <2>. QED  BY <2>2, <1>4 DEF Whole
<1>. QED
  BY <1>1, <1>2, <1>3, <1>4, <1>5
     DEF TurnOwns, OwnsNothing, OwnsCreated, OwnsCurrent, BeforeAnswer, ArtifactsIn
-----------------------------------------------------------------------------
\* The sequence a turn is given is above every event of its conversation.
LEMMA SequenceFacts ==
    ASSUME TypeOK, HintsBounded, NEW conv
    PROVE  /\ NextSequence(conv) \in Nat
           /\ \A e \in EventsOf(conv) : Hint(e) < NextSequence(conv)
<1>1. PICK b \in Nat : \A t \in Turns : seq[t] <= b  BY DEF HintsBounded
<1>. DEFINE S == {Hint(e) : e \in EventsOf(conv)}
<1>2. \A e \in EventsOf(conv) : Hint(e) \in Nat /\ Hint(e) <= b + 2
  <2>. SUFFICES ASSUME NEW e \in EventsOf(conv) PROVE Hint(e) \in Nat /\ Hint(e) <= b + 2
    OBVIOUS
  <2>1. e[1] \in Turns  BY DEF EventsOf, Stored, TypeOK
  <2>2. seq[e[1]] \in Nat /\ seq[e[1]] <= b  BY <2>1, <1>1 DEF TypeOK
  <2>3. CASE e[2] = "userEvent"  BY <2>2, <2>3, SMT DEF Hint
  <2>4. CASE e[2] = "contextEvent"  BY <2>2, <2>4, SMT DEF Hint
  <2>5. CASE e[2] # "userEvent" /\ e[2] # "contextEvent"  BY <2>2, <2>5, SMT DEF Hint
  <2>. QED  BY <2>3, <2>4, <2>5
<1>3. CASE EventsOf(conv) = {}  BY <1>3 DEF NextSequence
<1>4. CASE EventsOf(conv) # {}
  <2>1. S \in SUBSET Nat /\ S # {} /\ b + 2 \in Nat /\ \A x \in S : x <= b + 2
    BY <1>2, <1>4
  <2>2. Max(S) \in S /\ \A y \in S : Max(S) >= y
    <3>. HIDE DEF S
    <3>. QED  BY <2>1, LargestOf
  <2>3. NextSequence(conv) = Max(S) + 1  BY <1>4 DEF NextSequence
  <2>4. Max(S) \in Nat  BY <2>1, <2>2
  <2>5. \A e \in EventsOf(conv) : Hint(e) \in Nat /\ Max(S) >= Hint(e)  BY <2>2, <1>2
  <2>. HIDE DEF S
  <2>. QED  BY <2>3, <2>4, <2>5
<1>. QED  BY <1>3, <1>4

\* Hints stay bounded.
LEMMA BoundKept ==
    ASSUME TypeOK, HintsBounded, NEW t \in Turns, NEW n \in Nat, seq' = [seq EXCEPT ![t] = n]
    PROVE  HintsBounded'
<1>1. PICK b \in Nat : \A u \in Turns : seq[u] <= b  BY DEF HintsBounded
<1>2. b + n \in Nat  OBVIOUS
<1>3. \A u \in Turns : seq[u] \in Nat /\ seq'[u] = IF u = t THEN n ELSE seq[u]
  BY DEF TypeOK
<1>4. \A u \in Turns : seq'[u] <= b + n  BY <1>1, <1>3
<1>. QED  BY <1>2, <1>4 DEF HintsBounded

\* Every action keeps the types.
LEMMA TypeKept ==
    ASSUME TypeOK, HintsBounded, NEW t \in Turns, TurnOwns(t),
           Start(t) \/ RefuseOperation(t) \/ Step(t) \/ Crash(t)
    PROVE  TypeOK' /\ HintsBounded'
<1>. USE DEF Running, Checking, Writing, Undoing, Ended
<1>. DEFINE Same == UNCHANGED <<seq, outcome, done>>
<1>0. ASSUME Same, pc' \in [Turns -> {"idle"} \cup Running \cup Ended],
             ask' \in [Turns -> [conv : Conversations \cup {"none"}, op : Ops \cup {"none"},
                                 parent : EventIds \cup {NoParent}]],
             records' \subseteq Turns \X Kinds, files' \subseteq Turns \X Artifacts
      PROVE TypeOK' /\ HintsBounded'
  BY <1>0 DEF TypeOK, HintsBounded
<1>a. ASSUME NEW p \in {"idle"} \cup Running \cup Ended
      PROVE [pc EXCEPT ![t] = p] \in [Turns -> {"idle"} \cup Running \cup Ended]
  BY <1>a DEF TypeOK
<1>b. Unfinished(t) => Item(t) \in Kinds  BY CreatedFacts
<1>c. /\ pc \in [Turns -> {"idle"} \cup Running \cup Ended]
      /\ ask \in [Turns -> [conv : Conversations \cup {"none"}, op : Ops \cup {"none"},
                            parent : EventIds \cup {NoParent}]]
      /\ records \subseteq Turns \X Kinds /\ files \subseteq Turns \X Artifacts
  BY DEF TypeOK
<1>d. AfterFailure(t) \in {"failed", "undo"}  BY DEF AfterFailure
<1>e. AfterItem(t) \in {"generate", "audit", "write"}  BY DEF AfterItem
<1>1. CASE Start(t)
  <2>1. PICK conv \in Conversations, op \in Ops, parent \in EventIds \cup {NoParent} :
           ask' = [ask EXCEPT ![t] = [conv |-> conv, op |-> op, parent |-> parent]]
    BY <1>1 DEF Start
  <2>2. ask' \in [Turns -> [conv : Conversations \cup {"none"}, op : Ops \cup {"none"},
                            parent : EventIds \cup {NoParent}]]
    BY <2>1, <1>c
  <2>. QED  BY <1>1, <2>2, <1>0, <1>a, <1>c DEF Start
<1>2. CASE RefuseOperation(t)  BY <1>2, <1>0, <1>a, <1>c DEF RefuseOperation
<1>3. CASE ValidateParent(t)  BY <1>3, <1>0, <1>a, <1>c DEF ValidateParent
<1>4. CASE TakeSequence(t)
  <2>1. NextSequence(ask[t].conv) \in Nat  BY SequenceFacts
  <2>2. seq' = [seq EXCEPT ![t] = NextSequence(ask[t].conv)]  BY <1>4 DEF TakeSequence
  <2>3. HintsBounded'  BY <2>1, <2>2, BoundKept
  <2>4. seq' \in [Turns -> Nat]  BY <2>1, <2>2 DEF TypeOK
  <2>5. pc' \in [Turns -> {"idle"} \cup Running \cup Ended]  BY <1>4, <1>a DEF TakeSequence
  <2>6. UNCHANGED <<ask, outcome, done, records, files>>  BY <1>4 DEF TakeSequence
  <2>. QED  BY <2>3, <2>4, <2>5, <2>6 DEF TypeOK
<1>5. CASE Refuse(t)  BY <1>5, <1>0, <1>a, <1>c DEF Refuse
<1>6. CASE CommitOrigin(t)
  <2>1. <<t, Item(t)>> \in Turns \X Kinds  BY <1>6, <1>b DEF CommitOrigin, TurnOwns
  <2>. QED  BY <1>6, <2>1, <1>0, <1>a, <1>c DEF CommitOrigin
<1>7. CASE PublishFile(t)  BY <1>7, <1>0, <1>a, <1>c DEF PublishFile
<1>8. CASE Register(t)
  <2>1. <<t, Item(t)>> \in Turns \X Kinds  BY <1>8, <1>b DEF Register, TurnOwns
  <2>. QED  BY <1>8, <2>1, <1>0, <1>a, <1>c DEF Register
<1>9. CASE RegisterFails(t)  BY <1>9, <1>0, <1>a, <1>c DEF RegisterFails
<1>10. CASE CheckEventParent(t)  BY <1>10, <1>0, <1>a, <1>c DEF CheckEventParent
<1>11. CASE CommitEvent(t)
  <2>1. <<t, Item(t)>> \in Turns \X Kinds  BY <1>11, <1>b DEF CommitEvent, TurnOwns
  <2>. QED  BY <1>11, <2>1, <1>0, <1>a, <1>c DEF CommitEvent
<1>12. CASE Settle(t)
  <2>1. done' = [done EXCEPT ![t] = @ + 1] /\ UNCHANGED <<ask, seq, outcome, records, files>>
    BY <1>12 DEF Settle
  <2>2. done[t] \in Nat /\ Len(Plan(outcome[t])) \in Nat \ {0} /\ done[t] < Len(Plan(outcome[t]))
    BY <1>12, CreatedFacts DEF Settle, TurnOwns, Unfinished
  <2>3. done' \in [Turns -> Nat]  BY <2>1 DEF TypeOK
  <2>4. \A u \in Turns : done'[u] <= Len(Plan(outcome'[u]))
    <3>1. \A n, m \in Nat : n < m => n + 1 <= m  OBVIOUS
    <3>2. done[t] + 1 <= Len(Plan(outcome[t]))  BY <2>2, <3>1
    <3>3. done'[t] = done[t] + 1 /\ \A u \in Turns \ {t} : done'[u] = done[u]
      BY <2>1 DEF TypeOK
    <3>4. \A u \in Turns : outcome'[u] = outcome[u]  BY <2>1
    <3>. QED  BY <3>2, <3>3, <3>4 DEF TypeOK
  <2>5. pc' \in [Turns -> {"idle"} \cup Running \cup Ended]  BY <1>12, <1>a, <1>e DEF Settle
  <2>. QED  BY <2>1, <2>3, <2>4, <2>5 DEF TypeOK, HintsBounded
<1>13. CASE LateFailure(t)  BY <1>13, <1>0, <1>a, <1>c, <1>d DEF LateFailure
<1>14. CASE Generate(t)
  <2>1. PICK r \in {"completed", "error"} : outcome' = [outcome EXCEPT ![t] = r]
    BY <1>14 DEF Generate
  <2>2. UNCHANGED <<ask, seq, done, records, files>>  BY <1>14 DEF Generate
  <2>3. outcome' \in [Turns -> Answers]  BY <2>1 DEF TypeOK, Answers
  <2>4. outcome[t] = "none" /\ done[t] = 1  BY <1>14 DEF Generate, TurnOwns
  <2>5. 1 < Len(Plan(outcome'[t])) /\ done'[t] = 1
    BY <2>1, <2>2, <2>4, CreatedStays DEF Unfinished
  <2>6. \A u \in Turns \ {t} : outcome'[u] = outcome[u]  BY <2>1 DEF TypeOK
  <2>7. \A u \in Turns : done'[u] <= Len(Plan(outcome'[u]))
    <3>1. 1 <= Len(Plan(outcome'[t]))
      <4>1. Len(Plan(outcome'[t])) \in Nat  BY <2>3, PlanFacts
      <4>. QED  BY <4>1, <2>5
    <3>. QED  BY <2>2, <2>5, <2>6, <3>1 DEF TypeOK
  <2>8. pc' \in [Turns -> {"idle"} \cup Running \cup Ended]  BY <1>14, <1>a DEF Generate
  <2>. QED  BY <2>2, <2>3, <2>7, <2>8 DEF TypeOK, HintsBounded, Answers
<1>15. CASE Fail(t)  BY <1>15, <1>0, <1>a, <1>c, <1>d DEF Fail
<1>16. CASE AppendAudit(t)  BY <1>16, <1>0, <1>a, <1>c DEF AppendAudit
<1>17. CASE UndoRecords(t)
  <2>1. pc' \in [Turns -> {"idle"} \cup Running \cup Ended]  BY <1>17, <1>a DEF UndoRecords
  <2>2. records' \subseteq records  BY <1>17 DEF UndoRecords
  <2>. QED  BY <1>17, <2>1, <2>2, <1>0, <1>c DEF UndoRecords
<1>18. CASE UnlinkFiles(t)
  <2>1. pc' \in [Turns -> {"idle"} \cup Running \cup Ended]  BY <1>18, <1>a DEF UnlinkFiles
  <2>2. files' \subseteq files  BY <1>18 DEF UnlinkFiles
  <2>. QED  BY <1>18, <2>1, <2>2, <1>0, <1>c DEF UnlinkFiles
<1>19. CASE Crash(t)  BY <1>19, <1>0, <1>a, <1>c DEF Crash
<1>. QED
  BY <1>1, <1>2, <1>3, <1>4, <1>5, <1>6, <1>7, <1>8, <1>9, <1>10, <1>11, <1>12,
     <1>13, <1>14, <1>15, <1>16, <1>17, <1>18, <1>19 DEF Step
-----------------------------------------------------------------------------
\* What the turn that moves owns.  Its program counter leaves one part of TurnOwns
\* to show, beside that what it remembers is whole.
LEMMA OwnKept ==
    ASSUME TypeOK, TypeOK', NEW t \in Turns, TurnOwns(t),
           Start(t) \/ RefuseOperation(t) \/ Step(t) \/ Crash(t)
    PROVE  TurnOwns(t)'
<1>. DEFINE it == <<t, Item(t)>>
<1>. USE DEF Checking
<1>a. \A x \in Created(t) : x[1] = t /\ x \in Turns \X Kinds  BY CreatedFacts
<1>b. ASSUME UNCHANGED <<outcome, done>>
      PROVE  /\ Created(t)' = Created(t) /\ Item(t)' = Item(t)
             /\ Unfinished(t)' = Unfinished(t) /\ Current(t)' = Current(t)
             /\ BeforeAnswer(t)' = BeforeAnswer(t)
  <2>1. done'[t] = done[t] /\ outcome'[t] = outcome[t]  BY <1>b
  <2>. QED  BY <2>1, CreatedSame DEF BeforeAnswer
<1>c. ASSUME UNCHANGED records PROVE RecordsOf(t)' = RecordsOf(t)  BY <1>c DEF RecordsOf
<1>d. ASSUME UNCHANGED files PROVE FilesOf(t)' = FilesOf(t)  BY <1>d DEF FilesOf
<1>e. Unfinished(t) => Current(t) = {it} /\ Item(t) \in Kinds /\ it \notin Created(t)
  BY CreatedFacts DEF Current
<1>f. ASSUME records' = records \cup {it} PROVE RecordsOf(t)' = RecordsOf(t) \cup {it}
  BY <1>f DEF RecordsOf
<1>g. ASSUME UNCHANGED <<outcome, done, records>> PROVE Whole(t)'
  BY <1>g, <1>b DEF Whole, TurnOwns
<1>h. ASSUME Created(t)' \subseteq RecordsOf(t)' PROVE Whole(t)'
  BY <1>h DEF Whole, RecordsOf
<1>i. RecordsOf(t) \subseteq records /\ FilesOf(t) \subseteq files  BY DEF RecordsOf, FilesOf
<1>1. CASE Start(t)
  <2>1. pc[t] = "idle" /\ pc'[t] = "parent" /\ UNCHANGED <<outcome, done, records, files>>
    BY <1>1 DEF Start, TypeOK
  <2>2. OwnsNothing(t)'  BY <2>1, <1>c, <1>d DEF TurnOwns, OwnsNothing
  <2>. QED  BY <2>1, <2>2, <1>g DEF TurnOwns
<1>2. CASE RefuseOperation(t)
  <2>1. pc[t] = "idle" /\ pc'[t] = "refused" /\ UNCHANGED <<outcome, done, records, files>>
    BY <1>2 DEF RefuseOperation, TypeOK
  <2>2. OwnsNothing(t)'  BY <2>1, <1>c, <1>d DEF TurnOwns, OwnsNothing
  <2>. QED  BY <2>1, <2>2, <1>g DEF TurnOwns
<1>3. CASE ValidateParent(t)
  <2>1. pc[t] = "parent" /\ pc'[t] = "sequence" /\ UNCHANGED <<outcome, done, records, files>>
    BY <1>3 DEF ValidateParent, TypeOK
  <2>2. OwnsNothing(t)'  BY <2>1, <1>c, <1>d DEF TurnOwns, OwnsNothing
  <2>. QED  BY <2>1, <2>2, <1>g DEF TurnOwns
<1>4. CASE TakeSequence(t)
  <2>1. pc[t] = "sequence" /\ pc'[t] = "write" /\ UNCHANGED <<outcome, done, records, files>>
    BY <1>4 DEF TakeSequence, TypeOK
  <2>2. OwnsNothing(t)  BY <2>1 DEF TurnOwns
  <2>3. Created(t) = {} /\ Unfinished(t)
    <3>1. Created(t) = {}  BY <2>2, CreatedFacts DEF OwnsNothing
    <3>2. \A n \in Nat \ {0} : 0 < n  OBVIOUS
    <3>3. Len(Plan(outcome[t])) \in Nat \ {0} /\ done[t] = 0  BY <2>2, CreatedFacts DEF OwnsNothing
    <3>4. 0 < Len(Plan(outcome[t]))  BY <3>2, <3>3
    <3>. QED  BY <3>1, <3>3, <3>4 DEF Unfinished
  <2>4. OwnsCreated(t)'
    BY <2>1, <2>2, <2>3, <1>b, <1>c, <1>d DEF OwnsNothing, OwnsCreated, ArtifactsIn
  <2>5. BeforeAnswer(t)'  BY <2>1, <2>2 DEF BeforeAnswer, OwnsNothing
  <2>6. Unfinished(t)'  BY <2>1, <2>3, <1>b
  <2>. QED  BY <2>1, <2>4, <2>5, <2>6, <1>g DEF TurnOwns
<1>5. CASE Refuse(t)
  <2>1. pc[t] \in Checking /\ pc'[t] = "refused" /\ UNCHANGED <<outcome, done, records, files>>
    BY <1>5 DEF Refuse, TypeOK
  <2>2. OwnsNothing(t)'  BY <2>1, <1>c, <1>d DEF TurnOwns, OwnsNothing
  <2>. QED  BY <2>1, <2>2, <1>g DEF TurnOwns
<1>6. CASE CommitOrigin(t)
  <2>1. /\ pc[t] = "write" /\ pc'[t] = "settle" /\ UNCHANGED <<outcome, done, files>>
        /\ Item(t) \in Origins /\ records' = records \cup {it}
    BY <1>6 DEF CommitOrigin, TypeOK
  <2>2. OwnsCreated(t) /\ Unfinished(t) /\ BeforeAnswer(t)  BY <2>1 DEF TurnOwns
  <2>3. Item(t) \notin Artifacts  BY <2>1 DEF Origins, Artifacts
  <2>4. ArtifactsIn(Created(t) \cup {it}) = ArtifactsIn(Created(t))
    BY <2>3 DEF ArtifactsIn
  <2>5. RecordsOf(t)' = Created(t) \cup {it} /\ FilesOf(t)' = ArtifactsIn(Created(t) \cup {it})
    BY <2>1, <2>2, <2>4, <1>d, <1>f DEF OwnsCreated
  <2>6. OwnsCurrent(t)'  BY <2>1, <2>2, <2>5, <1>b, <1>e DEF OwnsCurrent, ArtifactsIn
  <2>7. Created(t)' \subseteq RecordsOf(t)'  BY <2>1, <2>5, <1>b
  <2>8. Unfinished(t)' /\ BeforeAnswer(t)'  BY <2>1, <2>2, <1>b
  <2>. QED  BY <2>1, <2>6, <2>7, <2>8, <1>h DEF TurnOwns
<1>7. CASE PublishFile(t)
  <2>1. /\ pc[t] = "write" /\ pc'[t] = "register" /\ UNCHANGED <<outcome, done, records>>
        /\ Item(t) \in Artifacts /\ files' = files \cup {it}
    BY <1>7 DEF PublishFile, TypeOK
  <2>2. OwnsCreated(t) /\ Unfinished(t) /\ BeforeAnswer(t)  BY <2>1 DEF TurnOwns
  <2>3. FilesOf(t)' = FilesOf(t) \cup {it}  BY <2>1 DEF FilesOf
  <2>4. FilesOf(t)' = ArtifactsIn(Created(t)')  \cup Current(t)'
    BY <2>1, <2>2, <2>3, <1>b, <1>e DEF OwnsCreated
  <2>5. RecordsOf(t)' = Created(t)'  BY <2>1, <2>2, <1>b, <1>c DEF OwnsCreated
  <2>6. Unfinished(t)' /\ BeforeAnswer(t)' /\ Item(t)' \in Artifacts  BY <2>1, <2>2, <1>b
  <2>. QED  BY <2>1, <2>4, <2>5, <2>6, <1>g DEF TurnOwns, ArtifactsIn
<1>8. CASE Register(t)
  <2>1. /\ pc[t] = "register" /\ pc'[t] = "settle" /\ UNCHANGED <<outcome, done, files>>
        /\ records' = records \cup {it}
    BY <1>8 DEF Register, TypeOK
  <2>2. /\ RecordsOf(t) = Created(t) /\ FilesOf(t) = ArtifactsIn(Created(t)) \cup Current(t)
        /\ Item(t) \in Artifacts /\ Unfinished(t) /\ BeforeAnswer(t)
    BY <2>1 DEF TurnOwns
  <2>3. ArtifactsIn(Created(t) \cup {it}) = ArtifactsIn(Created(t)) \cup {it}
    BY <2>2 DEF ArtifactsIn
  <2>4. RecordsOf(t)' = Created(t) \cup {it} /\ FilesOf(t)' = ArtifactsIn(Created(t) \cup {it})
    BY <2>1, <2>2, <2>3, <1>d, <1>e, <1>f
  <2>5. OwnsCurrent(t)'  BY <2>1, <2>2, <2>4, <1>b, <1>e DEF OwnsCurrent, ArtifactsIn
  <2>6. Created(t)' \subseteq RecordsOf(t)'  BY <2>1, <2>4, <1>b
  <2>7. Unfinished(t)' /\ BeforeAnswer(t)'  BY <2>1, <2>2, <1>b
  <2>. QED  BY <2>1, <2>5, <2>6, <2>7, <1>h DEF TurnOwns
<1>9. CASE RegisterFails(t)
  <2>1. /\ pc[t] = "register" /\ pc'[t] = "undo" /\ UNCHANGED <<outcome, done, records>>
        /\ files' \subseteq files
    BY <1>9 DEF RegisterFails, TypeOK
  <2>2. /\ RecordsOf(t) = Created(t) /\ FilesOf(t) = ArtifactsIn(Created(t)) \cup Current(t)
    BY <2>1 DEF TurnOwns
  <2>3. FilesOf(t)' \subseteq FilesOf(t)  BY <2>1 DEF FilesOf
  <2>4. FilesOf(t)' \subseteq ArtifactsIn(Created(t)') \cup Current(t)'
    BY <2>1, <2>2, <2>3, <1>b
  <2>5. RecordsOf(t)' = Created(t)'  BY <2>1, <2>2, <1>b, <1>c
  <2>. QED  BY <2>1, <2>4, <2>5, <1>g DEF TurnOwns, ArtifactsIn
<1>10. CASE CheckEventParent(t)
  <2>1. /\ pc[t] = "write" /\ pc'[t] = "commit" /\ UNCHANGED <<outcome, done, records, files>>
        /\ Item(t) \in Events
    BY <1>10 DEF CheckEventParent, TypeOK
  <2>2. OwnsCreated(t) /\ Unfinished(t) /\ BeforeAnswer(t)  BY <2>1 DEF TurnOwns
  <2>3. OwnsCreated(t)'  BY <2>1, <2>2, <1>b, <1>c, <1>d DEF OwnsCreated, ArtifactsIn
  <2>4. Unfinished(t)' /\ BeforeAnswer(t)' /\ Item(t)' \in Events  BY <2>1, <2>2, <1>b
  <2>. QED  BY <2>1, <2>3, <2>4, <1>g DEF TurnOwns
<1>11. CASE CommitEvent(t)
  <2>1. /\ pc[t] = "commit" /\ pc'[t] = "settle" /\ UNCHANGED <<outcome, done, files>>
        /\ records' = records \cup {it}
    BY <1>11 DEF CommitEvent, TypeOK
  <2>2. OwnsCreated(t) /\ Unfinished(t) /\ BeforeAnswer(t) /\ Item(t) \in Events
    BY <2>1 DEF TurnOwns
  <2>3. Item(t) \notin Artifacts  BY <2>2 DEF Events, Artifacts
  <2>4. ArtifactsIn(Created(t) \cup {it}) = ArtifactsIn(Created(t))
    BY <2>3 DEF ArtifactsIn
  <2>5. RecordsOf(t)' = Created(t) \cup {it} /\ FilesOf(t)' = ArtifactsIn(Created(t) \cup {it})
    BY <2>1, <2>2, <2>4, <1>d, <1>f DEF OwnsCreated
  <2>6. OwnsCurrent(t)'  BY <2>1, <2>2, <2>5, <1>b, <1>e DEF OwnsCurrent, ArtifactsIn
  <2>7. Created(t)' \subseteq RecordsOf(t)'  BY <2>1, <2>5, <1>b
  <2>8. Unfinished(t)' /\ BeforeAnswer(t)'  BY <2>1, <2>2, <1>b
  <2>. QED  BY <2>1, <2>6, <2>7, <2>8, <1>h DEF TurnOwns
<1>12. CASE Settle(t)
  <2>1. /\ pc[t] = "settle" /\ pc'[t] = AfterItem(t) /\ UNCHANGED <<outcome, records, files>>
        /\ done' = [done EXCEPT ![t] = @ + 1]
    BY <1>12 DEF Settle, TypeOK
  <2>2. OwnsCurrent(t) /\ Unfinished(t) /\ BeforeAnswer(t)  BY <2>1 DEF TurnOwns
  <2>3. Created(t)' = Created(t) \cup {it}  BY <2>1, CreatedGrows
  <2>4. RecordsOf(t)' = Created(t)'  BY <2>1, <2>2, <2>3, <1>c, <1>e DEF OwnsCurrent
  <2>5. FilesOf(t)' = ArtifactsIn(Created(t)')
    BY <2>1, <2>2, <2>3, <1>d, <1>e DEF OwnsCurrent, ArtifactsIn
  <2>6. OwnsCreated(t)'  BY <2>4, <2>5 DEF OwnsCreated, ArtifactsIn
  <2>7. done[t] \in Nat /\ Len(Plan(outcome[t])) \in Nat /\ done'[t] = done[t] + 1
        /\ done[t] < Len(Plan(outcome[t])) /\ outcome'[t] = outcome[t]
    BY <2>1, <2>2, CreatedFacts DEF Unfinished, TypeOK
  <2>8. Whole(t)'  BY <2>4, <1>h
  <2>9. CASE outcome[t] = "none"
    <3>1. pc'[t] = "generate"  BY <2>1, <2>9 DEF AfterItem
    <3>2. done'[t] = 1 /\ outcome'[t] = "none"  BY <2>2, <2>7, <2>9 DEF BeforeAnswer
    <3>. QED  BY <2>6, <2>8, <3>1, <3>2 DEF TurnOwns
  <2>10. CASE outcome[t] # "none" /\ done[t] + 1 = Len(Plan(outcome[t]))
    <3>1. pc'[t] = "audit"  BY <2>1, <2>10 DEF AfterItem
    <3>2. ~ Unfinished(t)'  BY <2>7, <2>10 DEF Unfinished
    <3>3. outcome'[t] # "none"  BY <2>7, <2>10
    <3>. QED  BY <2>6, <2>8, <3>1, <3>2, <3>3 DEF TurnOwns
  <2>11. CASE outcome[t] # "none" /\ done[t] + 1 # Len(Plan(outcome[t]))
    <3>1. pc'[t] = "write"  BY <2>1, <2>11 DEF AfterItem
    <3>2. done[t] + 1 < Len(Plan(outcome[t]))
      <4>1. \A n, m \in Nat : n < m /\ n + 1 # m => n + 1 < m  OBVIOUS
      <4>. QED  BY <2>7, <2>11, <4>1
    <3>3. Unfinished(t)'  BY <2>7, <3>2 DEF Unfinished
    <3>4. BeforeAnswer(t)'  BY <2>7, <2>11 DEF BeforeAnswer
    <3>. QED  BY <2>6, <2>8, <3>1, <3>3, <3>4 DEF TurnOwns
  <2>. QED  BY <2>9, <2>10, <2>11
<1>13. CASE LateFailure(t)
  <2>1. pc[t] = "settle" /\ pc'[t] = AfterFailure(t) /\ UNCHANGED <<outcome, done, records, files>>
    BY <1>13 DEF LateFailure, TypeOK
  <2>2. OwnsCurrent(t) /\ Unfinished(t)  BY <2>1 DEF TurnOwns
  <2>3. /\ RecordsOf(t)' = Created(t)' \cup Current(t)'
        /\ FilesOf(t)' \subseteq ArtifactsIn(Created(t)') \cup Current(t)'
    BY <2>1, <2>2, <1>b, <1>c, <1>d DEF OwnsCurrent, ArtifactsIn
  <2>4. CASE done[t] = 0
    <3>1. pc'[t] = "failed"  BY <2>1, <2>4 DEF AfterFailure
    <3>2. Created(t)' = {}  BY <2>1, <2>4, <1>b, CreatedFacts
    <3>3. RecordsOf(t)' \cup FilesOf(t)' \subseteq Current(t)'  BY <2>3, <3>2 DEF ArtifactsIn
    <3>. QED  BY <2>1, <3>1, <3>3, <1>g DEF TurnOwns
  <2>5. CASE done[t] # 0
    <3>1. pc'[t] = "undo"  BY <2>1, <2>5 DEF AfterFailure
    <3>2. Created(t)' \subseteq RecordsOf(t)'  BY <2>3
    <3>. QED  BY <2>1, <2>3, <3>1, <3>2, <1>g DEF TurnOwns, ArtifactsIn
  <2>. QED  BY <2>4, <2>5
<1>14. CASE Generate(t)
  <2>1. pc[t] = "generate" /\ pc'[t] = "write" /\ UNCHANGED <<done, records, files>>
    BY <1>14 DEF Generate, TypeOK
  <2>2. PICK r \in {"completed", "error"} : outcome' = [outcome EXCEPT ![t] = r]
    BY <1>14 DEF Generate
  <2>3. OwnsCreated(t) /\ outcome[t] = "none" /\ done[t] = 1  BY <2>1 DEF TurnOwns
  <2>4. Created(t)' = Created(t) /\ Unfinished(t)'  BY <2>1, <2>2, <2>3, CreatedStays
  <2>5. OwnsCreated(t)'  BY <2>1, <2>3, <2>4, <1>c, <1>d DEF OwnsCreated, ArtifactsIn
  <2>6. BeforeAnswer(t)'  BY <2>2 DEF BeforeAnswer, TypeOK
  <2>7. Whole(t)'  BY <2>5, <1>h DEF OwnsCreated
  <2>. QED  BY <2>1, <2>4, <2>5, <2>6, <2>7 DEF TurnOwns
<1>15. CASE Fail(t)
  <2>1. /\ pc[t] \in {"write", "commit", "generate", "audit"}
        /\ pc'[t] = AfterFailure(t) /\ UNCHANGED <<outcome, done, records, files>>
    BY <1>15 DEF Fail, TypeOK
  <2>2. OwnsCreated(t)  BY <2>1 DEF TurnOwns
  <2>3. RecordsOf(t)' = Created(t)' /\ FilesOf(t)' \subseteq ArtifactsIn(Created(t)')
    BY <2>1, <2>2, <1>b, <1>c, <1>d DEF OwnsCreated, ArtifactsIn
  <2>4. CASE done[t] = 0
    <3>1. pc'[t] = "failed"  BY <2>1, <2>4 DEF AfterFailure
    <3>2. Created(t)' = {}  BY <2>1, <2>4, <1>b, CreatedFacts
    <3>3. RecordsOf(t)' \cup FilesOf(t)' \subseteq Current(t)'  BY <2>3, <3>2 DEF ArtifactsIn
    <3>. QED  BY <2>1, <3>1, <3>3, <1>g DEF TurnOwns
  <2>5. CASE done[t] # 0
    <3>1. pc'[t] = "undo"  BY <2>1, <2>5 DEF AfterFailure
    <3>2. Created(t)' \subseteq RecordsOf(t)'  BY <2>3
    <3>. QED  BY <2>1, <2>3, <3>1, <3>2, <1>g DEF TurnOwns, ArtifactsIn
  <2>. QED  BY <2>4, <2>5
<1>16. CASE AppendAudit(t)
  <2>1. pc[t] = "audit" /\ pc'[t] = "returned" /\ UNCHANGED <<outcome, done, records, files>>
    BY <1>16 DEF AppendAudit, TypeOK
  <2>2. OwnsCreated(t) /\ ~ Unfinished(t) /\ outcome[t] # "none"  BY <2>1 DEF TurnOwns
  <2>3. OwnsCreated(t)'  BY <2>1, <2>2, <1>b, <1>c, <1>d DEF OwnsCreated, ArtifactsIn
  <2>4. ~ Unfinished(t)' /\ outcome'[t] # "none"  BY <2>1, <2>2, <1>b
  <2>. QED  BY <2>1, <2>3, <2>4, <1>g DEF TurnOwns
<1>17. CASE UndoRecords(t)
  <2>1. pc[t] = "undo" /\ UNCHANGED <<outcome, done, files>>  BY <1>17 DEF UndoRecords
  <2>2. /\ RecordsOf(t) \subseteq Created(t) \cup Current(t)
        /\ FilesOf(t) \subseteq ArtifactsIn(Created(t)) \cup Current(t)
    BY <2>1 DEF TurnOwns
  <2>3. CASE records' = records \ Created(t) /\ pc'[t] \in {"unlink", "rollbackError"}
    <3>1. RecordsOf(t)' = RecordsOf(t) \ Created(t)  BY <2>3 DEF RecordsOf
    <3>2. RecordsOf(t)' \subseteq Current(t)'  BY <2>1, <2>2, <3>1, <1>b
    <3>3. FilesOf(t)' \subseteq ArtifactsIn(Created(t)') \cup Current(t)'
      BY <2>1, <2>2, <1>b, <1>d DEF ArtifactsIn
    <3>4. Whole(t)'  BY <2>1, <2>3, <1>b DEF Whole
    <3>. QED  BY <2>3, <3>2, <3>3, <3>4 DEF TurnOwns, ArtifactsIn
  <2>4. CASE UNCHANGED records /\ pc'[t] = "rollbackError"
    BY <2>1, <2>4, <1>g DEF TurnOwns
  <2>. QED  BY <1>17, <2>3, <2>4 DEF UndoRecords, RemovedRecords, TypeOK
<1>18. CASE UnlinkFiles(t)
  <2>1. pc[t] = "unlink" /\ UNCHANGED <<outcome, done, records>>  BY <1>18 DEF UnlinkFiles
  <2>2. PICK kept \in SUBSET RemovedFiles(t) :
           /\ files' = files \ (RemovedFiles(t) \ kept)
           /\ pc'[t] = IF kept = {} THEN "failed" ELSE "rollbackError"
    BY <1>18 DEF UnlinkFiles, TypeOK
  <2>3. /\ RecordsOf(t) \subseteq Current(t)
        /\ FilesOf(t) \subseteq ArtifactsIn(Created(t)) \cup Current(t)
    BY <2>1 DEF TurnOwns
  <2>4. CASE kept = {}
    <3>1. pc'[t] = "failed" /\ files' = files \ ArtifactsIn(Created(t))
      BY <2>2, <2>4 DEF RemovedFiles, ArtifactsIn
    <3>2. FilesOf(t)' = FilesOf(t) \ ArtifactsIn(Created(t))  BY <3>1 DEF FilesOf
    <3>3. RecordsOf(t)' \cup FilesOf(t)' \subseteq Current(t)'
      BY <2>1, <2>3, <3>2, <1>b, <1>c
    <3>. QED  BY <2>1, <3>1, <3>3, <1>g DEF TurnOwns
  <2>5. CASE kept # {}
    <3>1. pc'[t] = "rollbackError"  BY <2>2, <2>5
    <3>. QED  BY <2>1, <3>1, <1>g DEF TurnOwns
  <2>. QED  BY <2>4, <2>5
<1>19. CASE Crash(t)
  <2>1. pc'[t] = "crashed" /\ UNCHANGED <<outcome, done, records, files>>
    BY <1>19 DEF Crash, TypeOK
  <2>. QED  BY <2>1, <1>g DEF TurnOwns
<1>. QED
  BY <1>1, <1>2, <1>3, <1>4, <1>5, <1>6, <1>7, <1>8, <1>9, <1>10, <1>11, <1>12,
     <1>13, <1>14, <1>15, <1>16, <1>17, <1>18, <1>19 DEF Step
-----------------------------------------------------------------------------
\* Files keep their paths apart: a turn chooses its path before it has a file,
\* and publishing one never takes a path in use.
LEMMA PathsKept ==
    ASSUME TypeOK, PathsApart, NEW t \in Turns, TurnOwns(t),
           Start(t) \/ RefuseOperation(t) \/ Step(t) \/ Crash(t)
    PROVE  PathsApart'
<1>1. CASE Start(t)
  <2>1. FilesOf(t) = {}  BY <1>1 DEF Start, TurnOwns, OwnsNothing
  <2>2. UNCHANGED files  BY <1>1 DEF Start
  <2>3. \A f \in files : f[1] # t /\ f[1] \in Turns  BY <2>1 DEF FilesOf, TypeOK
  <2>4. Moves(t)  BY <1>1, StepMoves
  <2>5. \A f \in files : Path(f[1], f[2])' = Path(f[1], f[2])  BY <2>3, <2>4 DEF Path, Moves
  <2>. QED  BY <2>2, <2>5 DEF PathsApart
<1>2. CASE UNCHANGED ask /\ files' \subseteq files  BY <1>2 DEF PathsApart, Path
<1>3. CASE PublishFile(t)
  <2>1. /\ UNCHANGED ask /\ files' = files \cup {<<t, Item(t)>>}
        /\ \A f \in files : Path(f[1], f[2]) # Path(t, Item(t))
    BY <1>3 DEF PublishFile, Unpublished, PathsInUse
  <2>2. \A u, k : Path(u, k)' = Path(u, k)  BY <2>1 DEF Path
  <2>3. SUFFICES ASSUME NEW f \in files', NEW g \in files', Path(f[1], f[2]) = Path(g[1], g[2])
                 PROVE  f = g
    BY <2>1, <2>2 DEF PathsApart, Path
  <2>4. CASE f \in files /\ g \in files  BY <2>3, <2>4 DEF PathsApart
  <2>5. CASE f = <<t, Item(t)>>  BY <2>1, <2>3, <2>5
  <2>6. CASE g = <<t, Item(t)>>  BY <2>1, <2>3, <2>6
  <2>. QED  BY <2>1, <2>4, <2>5, <2>6
<1>. QED
  BY <1>1, <1>2, <1>3
     DEF RefuseOperation, Step, Crash, ValidateParent, TakeSequence, Refuse, CommitOrigin,
         Register, RegisterFails, CheckEventParent, CommitEvent, Settle, LateFailure,
         Generate, Fail, AppendAudit, UndoRecords, UnlinkFiles

\* An artifact's record always has its file: it is written after the file, and a
\* rollback that removes files has removed the records.
LEMMA ArtifactsKept ==
    ASSUME TypeOK, ArtifactHasFile, NEW t \in Turns, TurnOwns(t),
           Start(t) \/ RefuseOperation(t) \/ Step(t) \/ Crash(t)
    PROVE  ArtifactHasFile'
<1>1. CASE records' \subseteq records /\ files \subseteq files'
  BY <1>1 DEF ArtifactHasFile
<1>2. CASE CommitOrigin(t)
  <2>1. Item(t) \notin Artifacts  BY <1>2 DEF CommitOrigin, Origins, Artifacts
  <2>2. records' = records \cup {<<t, Item(t)>>} /\ UNCHANGED files  BY <1>2 DEF CommitOrigin
  <2>. QED  BY <2>1, <2>2 DEF ArtifactHasFile
<1>3. CASE CommitEvent(t)
  <2>1. Item(t) \notin Artifacts  BY <1>3 DEF CommitEvent, TurnOwns, Events, Artifacts
  <2>2. records' = records \cup {<<t, Item(t)>>} /\ UNCHANGED files  BY <1>3 DEF CommitEvent
  <2>. QED  BY <2>1, <2>2 DEF ArtifactHasFile
<1>4. CASE Register(t)
  <2>1. Current(t) \subseteq FilesOf(t) /\ Unfinished(t)  BY <1>4 DEF Register, TurnOwns
  <2>2. <<t, Item(t)>> \in files  BY <2>1 DEF Current, FilesOf
  <2>3. records' = records \cup {<<t, Item(t)>>} /\ UNCHANGED files  BY <1>4 DEF Register
  <2>. QED  BY <2>2, <2>3 DEF ArtifactHasFile
<1>5. CASE RegisterFails(t)
  <2>1. RecordsOf(t) = Created(t) /\ Unfinished(t)  BY <1>5 DEF RegisterFails, TurnOwns
  <2>2. <<t, Item(t)>> \notin records  BY <2>1, CreatedFacts DEF RecordsOf
  <2>3. files \ {<<t, Item(t)>>} \subseteq files' /\ UNCHANGED records
    BY <1>5 DEF RegisterFails
  <2>. QED  BY <2>2, <2>3 DEF ArtifactHasFile
<1>6. CASE UnlinkFiles(t)
  <2>1. RecordsOf(t) \subseteq Current(t)  BY <1>6 DEF UnlinkFiles, TurnOwns
  <2>2. \A x \in Created(t) : x[1] = t /\ x \notin Current(t)  BY CreatedFacts DEF Current
  <2>3. \A x \in Created(t) : x \notin records  BY <2>1, <2>2 DEF RecordsOf
  <2>4. files \ Created(t) \subseteq files' /\ UNCHANGED records
    BY <1>6 DEF UnlinkFiles, RemovedFiles
  <2>. QED  BY <2>3, <2>4 DEF ArtifactHasFile
<1>. QED
  BY <1>1, <1>2, <1>3, <1>4, <1>5, <1>6
     DEF Start, RefuseOperation, Step, Crash, ValidateParent, TakeSequence, Refuse, PublishFile,
         CheckEventParent, Settle, LateFailure, Generate, Fail, AppendAudit, UndoRecords
-----------------------------------------------------------------------------
\* Records come from a turn that writes and go with a turn that rolls back; a
\* turn that has rolled back stays so, and its request and its hint are settled
\* before its first record.
LEMMA StepShape ==
    ASSUME TypeOK, NEW t \in Turns, TurnOwns(t),
           Start(t) \/ RefuseOperation(t) \/ Step(t) \/ Crash(t)
    PROVE  /\ \A x : x \in records' /\ x \notin records => pc[t] \in {"write", "commit", "register"}
           /\ \A x : x \in records /\ x \notin records' => pc'[t] \in Undone
           /\ pc[t] \in Undone => pc'[t] \in Undone
           /\ ask' # ask => pc[t] = "idle" /\ pc'[t] = "parent"
           /\ seq' # seq => pc[t] = "sequence"
           /\ pc'[t] # "idle"
           /\ pc'[t] = "sequence" => ValidateParent(t)
           /\ pc'[t] \in Writing => pc[t] \in Writing \/ TakeSequence(t)
<1>. USE DEF TypeOK, Undone, Writing, Running, Checking, Undoing
<1>1. CASE Start(t)  BY <1>1 DEF Start
<1>2. CASE RefuseOperation(t)  BY <1>2 DEF RefuseOperation
<1>3. CASE ValidateParent(t)  BY <1>3 DEF ValidateParent
<1>4. CASE TakeSequence(t)  BY <1>4 DEF TakeSequence
<1>5. CASE Refuse(t)  BY <1>5 DEF Refuse
<1>6. CASE CommitOrigin(t)  BY <1>6 DEF CommitOrigin
<1>7. CASE PublishFile(t)  BY <1>7 DEF PublishFile
<1>8. CASE Register(t)  BY <1>8 DEF Register
<1>9. CASE RegisterFails(t)  BY <1>9 DEF RegisterFails
<1>10. CASE CheckEventParent(t)  BY <1>10 DEF CheckEventParent
<1>11. CASE CommitEvent(t)  BY <1>11 DEF CommitEvent
<1>12. CASE Settle(t)  BY <1>12 DEF Settle, AfterItem
<1>13. CASE LateFailure(t)  BY <1>13 DEF LateFailure, AfterFailure
<1>14. CASE Generate(t)  BY <1>14 DEF Generate
<1>15. CASE Fail(t)  BY <1>15 DEF Fail, AfterFailure
<1>16. CASE AppendAudit(t)  BY <1>16 DEF AppendAudit
<1>17. CASE UndoRecords(t)  BY <1>17 DEF UndoRecords
<1>18. CASE UnlinkFiles(t)  BY <1>18 DEF UnlinkFiles
<1>19. CASE Crash(t)  BY <1>19 DEF Crash
<1>. QED
  BY <1>1, <1>2, <1>3, <1>4, <1>5, <1>6, <1>7, <1>8, <1>9, <1>10, <1>11, <1>12,
     <1>13, <1>14, <1>15, <1>16, <1>17, <1>18, <1>19 DEF Step

\* An event that is stored, or lost with its turn, stays so, and its conversation
\* and its hint do not change.
LEMMA EventLasts ==
    ASSUME TypeOK, \A u \in Turns : TurnOwns(u), NEW t \in Turns,
           Start(t) \/ RefuseOperation(t) \/ Step(t) \/ Crash(t),
           NEW e \in EventIds, e \in records \/ pc[e[1]] \in Undone
    PROVE  /\ e \in records' \/ pc'[e[1]] \in Undone
           /\ e \in records' => e \in records
           /\ ask'[e[1]] = ask[e[1]] /\ Hint(e)' = Hint(e)
<1>1. e[1] \in Turns  BY DEF EventIds
<1>2. pc[e[1]] \notin {"idle"} \cup Checking
  <2>1. CASE e \in records
    <3>1. RecordsOf(e[1]) # {}  BY <2>1 DEF RecordsOf
    <3>. QED  BY <3>1, <1>1 DEF TurnOwns, OwnsNothing
  <2>2. CASE pc[e[1]] \in Undone  BY <2>2 DEF Undone, Checking
  <2>. QED  BY <2>1, <2>2
<1>3. Moves(t)  BY StepMoves
<1>4. CASE e[1] # t
  <2>1. /\ pc'[e[1]] = pc[e[1]] /\ ask'[e[1]] = ask[e[1]] /\ seq'[e[1]] = seq[e[1]]
        /\ e \in records' <=> e \in records
    BY <1>1, <1>3, <1>4 DEF Moves
  <2>. QED  BY <2>1 DEF Hint
<1>5. CASE e[1] = t
  <2>1. UNCHANGED <<ask, seq>>  BY <1>2, <1>5, StepShape DEF Checking
  <2>2. Hint(e)' = Hint(e)  BY <2>1 DEF Hint
  <2>3. e \in records' \/ pc'[t] \in Undone
    BY <1>5, StepShape
  <2>4. e \in records' => e \in records
    <3>1. pc[t] \in Undone => pc[t] \notin {"write", "commit", "register"}  BY DEF Undone
    <3>. QED  BY <3>1, <1>5, StepShape
  <2>. QED  BY <1>5, <2>1, <2>2, <2>3, <2>4
<1>. QED  BY <1>4, <1>5

\* Every turn goes on to continue the event it continued, below its own hint.
LEMMA ContinuesKept ==
    ASSUME TypeOK, HintsBounded, \A u \in Turns : TurnOwns(u) /\ ContinuesEvent(u),
           NEW t \in Turns, Start(t) \/ RefuseOperation(t) \/ Step(t) \/ Crash(t),
           NEW u \in Turns
    PROVE  ContinuesEvent(u)'
<1>1. Moves(t)  BY StepMoves
<1>2. PICK p \in EventIds \cup {NoParent} : p = ask[u].parent  BY DEF TypeOK
<1>3. ASSUME p # NoParent
      PROVE  /\ p \in records' \/ pc'[p[1]] \in Undone
             /\ p \in records' => p \in records
             /\ ask'[p[1]] = ask[p[1]] /\ Hint(p)' = Hint(p)
  <2>1. p \in EventIds  BY <1>2, <1>3
  <2>2. p \in records \/ pc[p[1]] \in Undone  BY <1>2, <1>3 DEF ContinuesEvent
  <2>3. \A v \in Turns : TurnOwns(v)  OBVIOUS
  <2>. QED  BY <2>1, <2>2, <2>3, EventLasts
<1>4. CASE u # t
  <2>1. /\ pc'[u] = pc[u] /\ ask'[u] = ask[u] /\ seq'[u] = seq[u]
        /\ <<u, "userEvent">> \in records' <=> <<u, "userEvent">> \in records
    BY <1>1, <1>4 DEF Moves
  <2>2. ask'[u].parent = p /\ (p # NoParent => p[1] # u)  BY <2>1, <1>2 DEF ContinuesEvent
  <2>. QED  BY <1>2, <2>1, <2>2, <1>3 DEF ContinuesEvent
<1>5. CASE u = t /\ Start(t)
  <2>1. /\ pc[t] = "idle" /\ pc'[t] = "parent" /\ UNCHANGED <<seq, records>>
        /\ ask'[t].parent # NoParent => ask'[t].parent \in records
    BY <1>5 DEF Start, TypeOK
  <2>2. RecordsOf(t) = {}  BY <2>1 DEF TurnOwns, OwnsNothing
  <2>3. \A x \in records' : x[1] # t  BY <2>1, <2>2 DEF RecordsOf
  <2>4. <<t, "userEvent">> \notin records'  BY <2>3
  <2>5. pc'[t] \notin Writing  BY <2>1 DEF Writing
  <2>. QED  BY <1>5, <2>1, <2>3, <2>4, <2>5 DEF ContinuesEvent
<1>6. CASE u = t /\ ~ Start(t)
  <2>1. UNCHANGED ask /\ pc'[t] # "idle"
    BY <1>6, StepShape DEF RefuseOperation, Step, Crash, ValidateParent, TakeSequence, Refuse,
       CommitOrigin, PublishFile, Register, RegisterFails, CheckEventParent, CommitEvent, Settle,
       LateFailure, Generate, Fail, AppendAudit, UndoRecords, UnlinkFiles
  <2>2. ask[t].parent = p /\ ask'[t].parent = p  BY <2>1, <1>2, <1>6
  <2>3. pc'[t] = "sequence" /\ p # NoParent => ask'[p[1]].conv = ask'[t].conv
    BY <1>6, <2>1, <2>2, StepShape DEF ValidateParent
  <2>4. ASSUME p # NoParent, pc'[t] \in Writing \/ <<t, "userEvent">> \in records', p \in records'
        PROVE  Hint(p)' < seq'[t]
    <3>1. p \in records /\ Hint(p)' = Hint(p) /\ p \in EventIds  BY <2>4, <1>2, <1>3
    <3>2. CASE TakeSequence(t)
      <4>1. ask[p[1]].conv = ask[t].conv
        BY <1>6, <2>2, <2>4, <3>2 DEF TakeSequence, ContinuesEvent
      <4>2. p \in EventsOf(ask[t].conv)  BY <3>1, <4>1 DEF EventsOf, Stored, EventIds
      <4>3. Hint(p) < NextSequence(ask[t].conv)  BY <4>2, SequenceFacts
      <4>4. seq'[t] = NextSequence(ask[t].conv)  BY <3>2 DEF TakeSequence, TypeOK
      <4>. QED  BY <3>1, <4>3, <4>4
    <3>3. CASE ~ TakeSequence(t)
      <4>1. pc[t] \in Writing \/ <<t, "userEvent">> \in records
        BY <2>4, <3>3, StepShape DEF Writing
      <4>2. Hint(p) < seq[t]  BY <1>6, <2>2, <2>4, <3>1, <4>1 DEF ContinuesEvent
      <4>3. UNCHANGED seq
        BY <3>3, <1>6 DEF RefuseOperation, Step, Crash, ValidateParent, Refuse,
       CommitOrigin, PublishFile, Register, RegisterFails, CheckEventParent, CommitEvent, Settle,
       LateFailure, Generate, Fail, AppendAudit, UndoRecords, UnlinkFiles
      <4>. QED  BY <3>1, <4>2, <4>3
    <3>. QED  BY <3>2, <3>3
  <2>5. p # NoParent => p[1] # t  BY <1>6, <2>2 DEF ContinuesEvent
  <2>. QED  BY <1>3, <1>6, <2>1, <2>2, <2>3, <2>4, <2>5 DEF ContinuesEvent
<1>. QED  BY <1>4, <1>5, <1>6
-----------------------------------------------------------------------------
LEMMA TInitially == Init => TInv
<1>. SUFFICES ASSUME Init PROVE TInv  OBVIOUS
<1>1. TypeOK
  <2>1. Len(Plan("none")) \in Nat \ {0}  BY PlanFacts DEF Answers
  <2>2. \A t \in Turns : done[t] <= Len(Plan(outcome[t]))
    <3>1. \A n \in Nat \ {0} : 0 <= n  OBVIOUS
    <3>. QED  BY <2>1, <3>1 DEF Init
  <2>. QED  BY <2>2 DEF Init, TypeOK, NoAsk
<1>2. \A t \in Turns : TurnOwns(t)
  <2>. SUFFICES ASSUME NEW t \in Turns PROVE TurnOwns(t)  OBVIOUS
  <2>1. OwnsNothing(t) /\ pc[t] = "idle"  BY DEF Init, OwnsNothing, RecordsOf, FilesOf
  <2>2. Whole(t)  BY <1>1, <2>1, CreatedFacts DEF OwnsNothing, Whole
  <2>. QED  BY <2>1, <2>2 DEF TurnOwns
<1>3. \A t \in Turns : ContinuesEvent(t)  BY DEF Init, ContinuesEvent, NoAsk
<1>4. PathsApart /\ ArtifactHasFile  BY DEF Init, PathsApart, ArtifactHasFile
<1>5. HintsBounded
  <2>1. 0 \in Nat /\ \A t \in Turns : seq[t] <= 0  BY DEF Init
  <2>. QED  BY <2>1 DEF HintsBounded
<1>. QED  BY <1>1, <1>2, <1>3, <1>4, <1>5 DEF TInv

LEMMA TPreserved == TInv /\ [Next]_vars => TInv'
<1>. SUFFICES ASSUME TInv, [Next]_vars PROVE TInv'  OBVIOUS
<1>1. CASE UNCHANGED vars
  <2>. USE <1>1 DEF vars
  <2>1. TypeOK'  BY DEF TInv, TypeOK
  <2>2. \A t \in Turns : TurnOwns(t)'
    <3>. SUFFICES ASSUME NEW t \in Turns PROVE TurnOwns(t)'  OBVIOUS
    <3>1. Created(t)' = Created(t) /\ Unfinished(t)' = Unfinished(t) /\ Item(t)' = Item(t)
          /\ Current(t)' = Current(t)
      BY CreatedSame
    <3>2. RecordsOf(t)' = RecordsOf(t) /\ FilesOf(t)' = FilesOf(t)  BY DEF RecordsOf, FilesOf
    <3>3. TurnOwns(t)  BY DEF TInv
    <3>. QED
      BY <3>1, <3>2, <3>3
         DEF TurnOwns, OwnsNothing, OwnsCreated, OwnsCurrent, BeforeAnswer, ArtifactsIn, Whole
  <2>3. \A t \in Turns : ContinuesEvent(t)'  BY DEF TInv, ContinuesEvent, Hint
  <2>4. PathsApart' /\ ArtifactHasFile' /\ HintsBounded'
    BY DEF TInv, PathsApart, Path, ArtifactHasFile, HintsBounded
  <2>. QED  BY <2>1, <2>2, <2>3, <2>4 DEF TInv
<1>2. CASE \E t \in Turns : Start(t) \/ RefuseOperation(t) \/ Step(t) \/ Crash(t)
  <2>1. PICK t \in Turns : Start(t) \/ RefuseOperation(t) \/ Step(t) \/ Crash(t)  BY <1>2
  <2>2. /\ TypeOK /\ HintsBounded /\ PathsApart /\ ArtifactHasFile
        /\ \A u \in Turns : TurnOwns(u) /\ ContinuesEvent(u)
    BY DEF TInv
  <2>3. TypeOK' /\ HintsBounded'  BY <2>1, <2>2, TypeKept
  <2>4. TurnOwns(t)'  BY <2>1, <2>2, <2>3, OwnKept
  <2>5. \A u \in Turns : TurnOwns(u)'
    <3>1. Moves(t)  BY <2>1, <2>2, StepMoves
    <3>. QED  BY <2>2, <2>4, <3>1, OthersOwn
  <2>6. \A u \in Turns : ContinuesEvent(u)'  BY <2>1, <2>2, ContinuesKept
  <2>7. PathsApart'  BY <2>1, <2>2, PathsKept
  <2>8. ArtifactHasFile'  BY <2>1, <2>2, ArtifactsKept
  <2>. QED  BY <2>3, <2>5, <2>6, <2>7, <2>8 DEF TInv
<1>. QED  BY <1>1, <1>2 DEF Next, AllEnded

\* What a turn owns at its end is what was promised of it.
LEMMA OwnedWhole == TInv => TurnsWhole
<1>. SUFFICES ASSUME TInv PROVE TurnsWhole  OBVIOUS
<1>1. TypeOK /\ PathsApart /\ ArtifactHasFile /\ \A t \in Turns : TurnOwns(t)  BY DEF TInv
<1>2. FailedTurnLeavesOneItem
  <2>. SUFFICES ASSUME NEW t \in Turns, pc[t] = "failed", NEW x \in records \cup files, x[1] = t
                PROVE  done[t] < Len(Plan(outcome[t])) /\ x[2] = Item(t)
    BY DEF FailedTurnLeavesOneItem
  <2>1. RecordsOf(t) \cup FilesOf(t) \subseteq Current(t)  BY <1>1 DEF TurnOwns
  <2>2. x \in Current(t)  BY <2>1 DEF RecordsOf, FilesOf
  <2>. QED  BY <2>2 DEF Current, Unfinished
<1>3. ASSUME NEW t \in Turns, pc[t] = "returned"
      PROVE  /\ outcome[t] \in Answers \ {"none"}
             /\ Created(t) = {<<t, Plan(outcome[t])[i]>> : i \in 1 .. Len(Plan(outcome[t]))}
             /\ Created(t) \subseteq records /\ ArtifactsIn(Created(t)) \subseteq files
  <2>1. OwnsCreated(t) /\ ~ Unfinished(t) /\ outcome[t] # "none"  BY <1>1, <1>3 DEF TurnOwns
  <2>2. /\ done[t] \in Nat /\ Len(Plan(outcome[t])) \in Nat
        /\ done[t] <= Len(Plan(outcome[t])) /\ outcome[t] \in Answers
    BY <1>1, CreatedFacts
  <2>3. done[t] = Len(Plan(outcome[t]))
    <3>1. \A n, m \in Nat : n <= m /\ ~ (n < m) => n = m  OBVIOUS
    <3>2. ~ (done[t] < Len(Plan(outcome[t])))  BY <2>1 DEF Unfinished
    <3>. QED  BY <2>2, <3>1, <3>2
  <2>. QED  BY <2>1, <2>2, <2>3 DEF OwnsCreated, RecordsOf, FilesOf, Created
<1>4. CompletedTurnWhole  BY <1>3 DEF CompletedTurnWhole, ArtifactsIn
<1>5. OneTurnPerOperation
  <2>. SUFFICES ASSUME NEW t \in Turns, NEW u \in Turns, pc[t] = "returned", pc[u] = "returned",
                       ask[t].op = ask[u].op, ask[t].conv = ask[u].conv
                PROVE  t = u
    BY DEF OneTurnPerOperation
  <2>1. ASSUME NEW v \in Turns, pc[v] = "returned" PROVE <<v, "userFile">> \in files
    <3>1. PICK i \in 1 .. Len(Plan(outcome[v])) : Plan(outcome[v])[i] = "userFile"
      BY <1>3, <2>1, PlanFacts
    <3>2. <<v, "userFile">> \in Created(v)  BY <1>3, <2>1, <3>1
    <3>. QED  BY <1>3, <2>1, <3>2 DEF ArtifactsIn, Artifacts
  <2>2. <<t, "userFile">> \in files /\ <<u, "userFile">> \in files  BY <2>1
  <2>3. Path(t, "userFile") = Path(u, "userFile")  BY DEF Path
  <2>4. <<t, "userFile">> = <<u, "userFile">>  BY <1>1, <2>2, <2>3 DEF PathsApart
  <2>. QED  BY <2>4
<1>. QED  BY <1>1, <1>2, <1>4, <1>5 DEF TurnsWhole

\* The events of a turn go together, and the event it continues goes with its own
\* turn.
LEMMA OwnedOrdered == TInv => EventsOrdered
<1>. SUFFICES ASSUME TInv PROVE EventsOrdered  OBVIOUS
<1>1. TypeOK /\ \A t \in Turns : TurnOwns(t) /\ ContinuesEvent(t)  BY DEF TInv
<1>2. ASSUME NEW e \in Stored
      PROVE  e[1] \in Turns /\ e[2] \in Events /\ e \in records /\ e = <<e[1], e[2]>>
  BY <1>1 DEF Stored, TypeOK
<1>3. ParentsKept
  <2>. SUFFICES ASSUME NEW e \in Stored, ~ ParentStored(e), e \in Created(e[1])
                PROVE  /\ ParentOf(e)[1] # e[1]
                       /\ pc[ParentOf(e)[1]] \in {"unlink"} \cup (Ended \ {"returned", "refused"})
    BY DEF ParentsKept
  <2>. DEFINE t == e[1]
  <2>1. CASE e[2] = "userEvent"
    <3>1. ParentOf(e) = ask[t].parent  BY <2>1 DEF ParentOf
    <3>2. ask[t].parent # NoParent /\ ask[t].parent \notin records
      BY <3>1 DEF ParentStored
    <3>. QED  BY <1>1, <1>2, <3>1, <3>2 DEF ContinuesEvent, Undone, Ended
  <2>2. CASE e[2] # "userEvent"
    <3>1. PICK i \in 1 .. done[t] : e = <<t, Plan(outcome[t])[i]>>  BY DEF Created
    <3>0. /\ outcome[t] \in Answers /\ done[t] \in Nat /\ Len(Plan(outcome[t])) \in Nat
          /\ done[t] <= Len(Plan(outcome[t]))
      <4>1. t \in Turns  BY <1>2
      <4>. HIDE DEF t
      <4>. QED  BY <1>1, <4>1, CreatedFacts
    <3>2. outcome[t] \in Answers /\ \A j \in 1 .. done[t] : j \in 1 .. Len(Plan(outcome[t]))
      BY <3>0
    <3>3. Created(t) \subseteq records
      <4>1. Whole(t)  BY <1>1, <1>2 DEF TurnOwns
      <4>. QED  BY <1>2, <4>1 DEF Whole
    <3>4. \A j \in 1 .. i : j \in 1 .. done[t]  BY <3>0
    <3>5. CASE e[2] = "contextEvent"
      <4>1. PICK j \in 1 .. i : Plan(outcome[t])[j] = "userEvent"
        BY <3>1, <3>2, <3>5, PlanFacts
      <4>2. <<t, "userEvent">> \in Created(t)  BY <3>4, <4>1 DEF Created
      <4>3. ParentOf(e) = <<t, "userEvent">>  BY <3>5 DEF ParentOf
      <4>. QED  BY <3>3, <4>2, <4>3 DEF ParentStored
    <3>6. CASE e[2] \in {"assistantEvent", "errorEvent"}
      <4>1. PICK j \in 1 .. i : Plan(outcome[t])[j] = "contextEvent"
        BY <3>1, <3>2, <3>6, PlanFacts
      <4>2. <<t, "contextEvent">> \in Created(t)  BY <3>4, <4>1 DEF Created
      <4>3. ParentOf(e) = <<t, "contextEvent">>  BY <3>6 DEF ParentOf
      <4>. QED  BY <3>3, <4>2, <4>3 DEF ParentStored
    <3>. QED  BY <1>2, <2>2, <3>5, <3>6 DEF Events
  <2>. QED  BY <2>1, <2>2
<1>4. SequenceAfterParent
  <2>. SUFFICES ASSUME NEW e \in Stored, ParentOf(e) \in Stored
                PROVE  Hint(ParentOf(e)) < Hint(e)
    BY DEF SequenceAfterParent
  <2>. DEFINE t == e[1]
  <2>0. seq[t] \in Nat  BY <1>1, <1>2 DEF TypeOK
  <2>1. CASE e[2] = "userEvent"
    <3>1. ParentOf(e) = ask[t].parent  BY <2>1 DEF ParentOf
    <3>0. Hint(e) = seq[t]  BY <2>0, <2>1 DEF Hint
    <3>2. ParentOf(e) # NoParent /\ ParentOf(e) \in records
      <4>1. ParentOf(e) = <<ParentOf(e)[1], ParentOf(e)[2]>> /\ ParentOf(e) \in records  BY <1>2
      <4>2. \A a, b : <<a, b>> # <<>>  OBVIOUS
      <4>. QED  BY <4>1, <4>2 DEF NoParent
    <3>3. <<t, "userEvent">> \in records  BY <1>2, <2>1
    <3>. QED  BY <1>1, <1>2, <3>0, <3>1, <3>2, <3>3 DEF ContinuesEvent
  <2>2. CASE e[2] = "contextEvent"
    <3>1. ParentOf(e) = <<t, "userEvent">>  BY <2>2 DEF ParentOf
    <3>2. Hint(ParentOf(e)) = seq[t] /\ Hint(e) = seq[t] + 1  BY <2>0, <2>2, <3>1 DEF Hint
    <3>. QED  BY <2>0, <3>2
  <2>3. CASE e[2] # "userEvent" /\ e[2] # "contextEvent"
    <3>1. ParentOf(e) = <<t, "contextEvent">>  BY <2>3 DEF ParentOf
    <3>2. Hint(ParentOf(e)) = seq[t] + 1 /\ Hint(e) = seq[t] + 2  BY <2>0, <2>3, <3>1 DEF Hint
    <3>. QED  BY <2>0, <3>2
  <2>. QED  BY <2>1, <2>2, <2>3
<1>. QED  BY <1>3, <1>4 DEF EventsOrdered

LEMMA TAlways == Spec => []TInv
<1>. QED  BY TInitially, TPreserved, PTL DEF Spec

\* Turns that run at once, fail, roll back or crash: one that returned keeps its
\* records and files and is its conversation's only one of its operation, one
\* that failed leaves one item at most, and every artifact has its file
\* (execute_turn, _rollback_created, publish_new_workspace_file).
THEOREM TurnsAlwaysWhole == Spec => []TurnsWhole
<1>. QED  BY TAlways, OwnedWhole, PTL

\* An event sorts after the one it follows, and loses it only with the item of a
\* failed turn, or when the turn it continues had not returned and was undone
\* (create_conversation_event, the starting sequence of execute_turn).
THEOREM EventsAlwaysOrdered == Spec => []EventsOrdered
<1>. QED  BY TAlways, OwnedOrdered, PTL

------------------------------------------------------------------------------
\* Copies, with what each has read and what it has at its output path.
CopyRow == [pc : CopyRunning \cup CopyEnded \cup {"idle"}, made : Archive]

\* A writer that registers an artifact has written its file.
WriterAhead == writer \in Arts => writer \in managed /\ writer \notin arts

ForBackup(c) == Kind(c) # "package"

\* A copy that has read the artifact records, one that has read the files to
\* take, one that has found the revision unchanged and one that has published.
ArtsRead(c) ==
    \/ copy[c].pc \in {"identityFile", "files", "revision", "unchanged", "publish", "settle", "register"}
    \/ copy[c].pc = "rows" /\ Kind(c) = "workspace"
FilesRead == {"files", "revision", "unchanged", "publish"}
AtOutput == {"settle", "register", "sync", "unpublish", "done"}

\* Revisions only grow, so a copy whose first and last revisions are the same has
\* seen no other, and a workspace at the revision of the copy has its artifacts.
ReadsSound(c) ==
    LET made == copy[c].made
    IN  /\ made.rev <= rev
        /\ \A n \in made.reads : made.rev <= n /\ n <= rev
        /\ copy[c].pc \in {"idle", "load", "identity"} => made.reads = {}
        /\ ArtsRead(c) /\ rev = made.rev => arts = made.arts
        /\ copy[c].pc \in FilesRead =>
              made.reads # {} /\ (made.reads = {made.rev} => made.files = made.arts)
        /\ copy[c].pc = "publish" => made.reads = {made.rev}
        /\ copy[c].pc = "sync" => made.rev < rev

\* A backup at its output path, or registered, stays there.
PlaceSound(c) ==
    /\ copy[c].pc # "idle" => copy[c].made.by = c
    /\ copy[c].pc \in {"register", "sync"} => ForBackup(c)
    /\ copy[c].pc \in AtOutput /\ ForBackup(c) => out["backup"] = copy[c].made
    /\ copy[c].pc \in {"sync", "done"} /\ ForBackup(c) => c \in inventory
    /\ \A p \in Paths : out[p].by = c =>
          copy[c].pc \in AtOutput \cup {"rollbackError", "crashed"} /\ p = PathOf(Kind(c))

CopyInv ==
    /\ CopyTypeOK /\ WriterAhead
    /\ \A c \in Copies : ReadsSound(c) /\ PlaceSound(c)
    /\ ArchiveIsOneMoment

-----------------------------------------------------------------------------
\* The rows of the copies are typed.
LEMMA CopyTyped ==
    ASSUME CopyInv, NEW c \in Copies
    PROVE  /\ copy \in [Copies -> CopyRow] /\ copy[c] \in CopyRow
           /\ copy[c].pc \in CopyRunning \cup CopyEnded \cup {"idle"}
           /\ copy[c].made \in Archive
           /\ copy[c].made.by \in Copies \cup {None} /\ copy[c].made.kind \in CopyKinds
           /\ copy[c].made.rev \in 0 .. MaxRev /\ copy[c].made.reads \in SUBSET (0 .. MaxRev)
           /\ copy[c].made.arts \in SUBSET Arts /\ copy[c].made.files \in SUBSET Arts
<1>1. copy \in [Copies -> CopyRow]
  BY DEF CopyInv, CopyTypeOK, CopyRow
<1>2. copy[c] \in CopyRow
  BY <1>1
<1>3. copy[c].pc \in CopyRunning \cup CopyEnded \cup {"idle"} /\ copy[c].made \in Archive
  BY <1>2 DEF CopyRow
<1> QED
  BY <1>1, <1>2, <1>3 DEF Archive

\* Revisions are natural numbers.
LEMMA CopyNumbers ==
    ASSUME CopyInv
    PROVE  MaxRev \in Nat /\ rev \in Nat /\ wsRev \in Nat /\ rev <= MaxRev /\ wsRev <= rev
BY CopyAssumption DEF CopyInv, CopyTypeOK

\* An empty path holds a file of no copy.
LEMMA NoFileTyped == NoFile \in Archive /\ NoFile.by \notin Copies
BY CopyAssumption DEF NoFile, Archive, CopyKinds

\* Before any copy nothing is read and no path is taken.
LEMMA CopyInitInv == CopyInit => CopyInv
<1> SUFFICES ASSUME CopyInit PROVE CopyInv
  OBVIOUS
<1>1. [pc |-> "idle", made |-> NoFile] \in CopyRow
  BY NoFileTyped DEF CopyRow
<1>2. /\ rev = 0 /\ wsRev = 0 /\ arts = {} /\ managed = {} /\ writer = "idle"
      /\ out = [p \in Paths |-> NoFile] /\ inventory = {} /\ MaxRev \in Nat
      /\ copy = [c \in Copies |-> [pc |-> "idle", made |-> NoFile]]
  BY CopyAssumption DEF CopyInit
<1>3. CopyTypeOK
  BY <1>1, <1>2, NoFileTyped DEF CopyTypeOK, CopyRow
<1>4. WriterAhead
  BY <1>2, CopyAssumption DEF WriterAhead
<1>5. ASSUME NEW c \in Copies PROVE ReadsSound(c) /\ PlaceSound(c)
  <2>1. copy[c].pc = "idle" /\ copy[c].made = NoFile
    BY <1>2
  <2>2. ReadsSound(c)
    BY <1>2, <2>1 DEF ReadsSound, ArtsRead, FilesRead, NoFile
  <2>3. PlaceSound(c)
    BY <1>2, <2>1, NoFileTyped DEF PlaceSound, AtOutput
  <2> QED
    BY <2>2, <2>3
<1>6. ArchiveIsOneMoment
  BY <1>2 DEF ArchiveIsOneMoment
<1> QED
  BY <1>3, <1>4, <1>5, <1>6 DEF CopyInv

\* A step of c changes its row and no other.
CopyMoves(c) == copy' = [copy EXCEPT ![c] = copy'[c]] /\ copy'[c] \in CopyRow

\* What another step does to the reads of a copy: revisions grow, and the records
\* are the same while the revision is.
LEMMA ReadsKept ==
    ASSUME CopyInv, NEW c \in Copies, copy'[c] = copy[c], rev' \in Nat, rev <= rev',
           rev' = rev => arts' = arts
    PROVE  ReadsSound(c)'
<1>1. ReadsSound(c) /\ copy[c].made.rev \in Nat /\ copy[c].made.reads \subseteq Nat /\ rev \in Nat
  BY CopyTyped, CopyNumbers DEF CopyInv
<1>2. ArtsRead(c)' <=> ArtsRead(c)
  BY DEF ArtsRead, Kind
<1> QED
  BY <1>1, <1>2 DEF ReadsSound

\* What has to be shown of a step of one copy.
LEMMA CopyStepInv ==
    ASSUME CopyInv, NEW c \in Copies, CopyMoves(c),
           rev' \in 0 .. MaxRev, wsRev' \in 0 .. rev', rev <= rev',
           arts' = arts, managed' = managed, writer' = writer,
           inventory' \subseteq Copies, out' \in [Paths -> Archive],
           ArchiveIsOneMoment', ReadsSound(c)', PlaceSound(c)',
           \A q \in Copies \ {c} : copy'[q] = copy[q] => PlaceSound(q)'
    PROVE  CopyInv'
<1>1. copy' \in [Copies -> CopyRow] /\ \A q \in Copies \ {c} : copy'[q] = copy[q]
  BY CopyTyped DEF CopyMoves
<1>2. CopyTypeOK'
  BY <1>1 DEF CopyInv, CopyTypeOK, CopyRow
<1>3. rev' \in Nat
  BY CopyNumbers
<1>4. ASSUME NEW q \in Copies PROVE ReadsSound(q)' /\ PlaceSound(q)'
  <2>1. CASE q = c
    BY <2>1
  <2>2. CASE q # c
    BY <1>1, <1>3, <2>2, ReadsKept
  <2> QED
    BY <2>1, <2>2
<1>5. WriterAhead'
  BY DEF CopyInv, WriterAhead
<1> QED
  BY <1>2, <1>4, <1>5 DEF CopyInv

\* A copy reads, and nothing but its own row changes.
LEMMA CopyReads ==
    ASSUME CopyInv, NEW c \in Copies, CopyMoves(c), ReadsOnly, ReadsSound(c)', PlaceSound(c)'
    PROVE  CopyInv'
<1>1. /\ rev' = rev /\ wsRev' = wsRev /\ arts' = arts /\ managed' = managed
      /\ writer' = writer /\ out' = out /\ inventory' = inventory
  BY DEF ReadsOnly, source
<1>2. \A q \in Copies \ {c} : copy'[q] = copy[q] => PlaceSound(q)'
  BY <1>1 DEF CopyInv, PlaceSound, ForBackup, Kind
<1>3. ArchiveIsOneMoment'
  BY <1>1 DEF CopyInv, ArchiveIsOneMoment
<1>4. rev \in 0 .. MaxRev /\ wsRev \in 0 .. rev /\ inventory \subseteq Copies /\ out \in [Paths -> Archive]
  BY DEF CopyInv, CopyTypeOK
<1> QED
  BY <1>1, <1>2, <1>3, <1>4, CopyNumbers, CopyStepInv

\* A copy goes on with what it holds.
LEMMA CopyGoes ==
    ASSUME CopyInv, NEW c \in Copies, NEW next \in CopyRunning \cup CopyEnded, CopyGo(c, next)
    PROVE  CopyMoves(c) /\ copy'[c].pc = next /\ copy'[c].made = copy[c].made
<1>1. /\ copy'[c] = [copy[c] EXCEPT !.pc = next] /\ copy[c] \in CopyRow
      /\ copy' = [copy EXCEPT ![c] = copy'[c]]
  BY CopyTyped DEF CopyGo
<1>2. copy'[c].pc = next /\ copy'[c].made = copy[c].made /\ copy'[c] \in CopyRow
  BY <1>1 DEF CopyRow
<1> QED
  BY <1>1, <1>2 DEF CopyMoves

\* A copy that only moves on, with what it has read and published.
LEMMA GoesOn ==
    ASSUME CopyInv, NEW c \in Copies, NEW next \in CopyRunning \cup CopyEnded,
           CopyGo(c, next), ReadsOnly, copy[c].pc # "idle",
           ReadsSound(c)',
           next \in {"register", "sync"} => ForBackup(c),
           next \in AtOutput /\ ForBackup(c) => copy[c].pc \in AtOutput,
           next \in {"sync", "done"} /\ ForBackup(c) => copy[c].pc \in {"sync", "done"},
           copy[c].pc \in AtOutput => next \in AtOutput \cup {"rollbackError", "crashed"},
           copy[c].pc \notin {"rollbackError", "crashed"}
    PROVE  CopyInv'
<1>1. CopyMoves(c) /\ copy'[c].pc = next /\ copy'[c].made = copy[c].made
  BY CopyGoes
<1>2. out' = out /\ inventory' = inventory
  BY DEF ReadsOnly
<1>3. PlaceSound(c)
  BY DEF CopyInv
<1>4. PlaceSound(c)'
  BY <1>1, <1>2, <1>3 DEF PlaceSound, ForBackup, Kind
<1> QED
  BY <1>1, <1>4, CopyReads

\* The identity of the workspace is read.
LEMMA CopyIdentityInv == ASSUME CopyInv, NEW c \in Copies, CopyIdentity(c) PROVE CopyInv'
<1> DEFINE next == IF Kind(c) = "workspace" THEN "snapshot" ELSE "rows"
<1>1. next \in CopyRunning \cup CopyEnded /\ CopyGo(c, next) /\ ReadsOnly
  BY DEF CopyIdentity, CopyRunning, CopyEnded
<1>2. copy'[c].pc = next /\ copy'[c].made = copy[c].made
  BY <1>1, CopyGoes
<1>3. /\ rev' = rev /\ arts' = arts /\ rev \in Nat /\ copy[c].made.rev \in Nat
      /\ copy[c].made.reads \subseteq Nat /\ ReadsSound(c)
  BY <1>1, CopyTyped, CopyNumbers DEF ReadsOnly, source, CopyInv
<1>4. ReadsSound(c)'
  BY <1>2, <1>3 DEF ReadsSound, ArtsRead, Kind, FilesRead, CopyIdentity
<1>5. /\ copy[c].pc \notin {"idle", "rollbackError", "crashed"}
      /\ next \in {"register", "sync"} => ForBackup(c)
      /\ next \in AtOutput /\ ForBackup(c) => copy[c].pc \in AtOutput
      /\ next \in {"sync", "done"} /\ ForBackup(c) => copy[c].pc \in {"sync", "done"}
      /\ copy[c].pc \in AtOutput => next \in AtOutput \cup {"rollbackError", "crashed"}
  BY DEF AtOutput, ForBackup, Kind, CopyIdentity
<1> HIDE DEF next
<1> QED
  BY <1>1, <1>4, <1>5, GoesOn

\* workspace.json is read.
LEMMA CopyIdentityFileInv == ASSUME CopyInv, NEW c \in Copies, CopyIdentityFile(c) PROVE CopyInv'
<1> DEFINE next == "rows"
<1>1. next \in CopyRunning \cup CopyEnded /\ CopyGo(c, next) /\ ReadsOnly
  BY DEF CopyIdentityFile, CopyRunning, CopyEnded
<1>2. copy'[c].pc = next /\ copy'[c].made = copy[c].made
  BY <1>1, CopyGoes
<1>3. /\ rev' = rev /\ arts' = arts /\ rev \in Nat /\ copy[c].made.rev \in Nat
      /\ copy[c].made.reads \subseteq Nat /\ ReadsSound(c)
  BY <1>1, CopyTyped, CopyNumbers DEF ReadsOnly, source, CopyInv
<1>4. ReadsSound(c)'
  BY <1>2, <1>3 DEF ReadsSound, ArtsRead, Kind, FilesRead, CopyIdentityFile
<1>5. /\ copy[c].pc \notin {"idle", "rollbackError", "crashed"}
      /\ next \in {"register", "sync"} => ForBackup(c)
      /\ next \in AtOutput /\ ForBackup(c) => copy[c].pc \in AtOutput
      /\ next \in {"sync", "done"} /\ ForBackup(c) => copy[c].pc \in {"sync", "done"}
      /\ copy[c].pc \in AtOutput => next \in AtOutput \cup {"rollbackError", "crashed"}
  BY DEF AtOutput, ForBackup, Kind, CopyIdentityFile
<1> HIDE DEF next
<1> QED
  BY <1>1, <1>4, <1>5, GoesOn

\* The revision is read again, and what was read holds at one moment if it is the same.
LEMMA CopyRevisionInv == ASSUME CopyInv, NEW c \in Copies, CopyRevision(c) PROVE CopyInv'
<1> DEFINE next == IF Kind(c) = "package" THEN "publish" ELSE "unchanged"
<1>1. next \in CopyRunning \cup CopyEnded /\ CopyGo(c, next) /\ ReadsOnly
  BY DEF CopyRevision, CopyRunning, CopyEnded
<1>2. copy'[c].pc = next /\ copy'[c].made = copy[c].made
  BY <1>1, CopyGoes
<1>3. /\ rev' = rev /\ arts' = arts /\ rev \in Nat /\ copy[c].made.rev \in Nat
      /\ copy[c].made.reads \subseteq Nat /\ ReadsSound(c)
  BY <1>1, CopyTyped, CopyNumbers DEF ReadsOnly, source, CopyInv
<1>4. ReadsSound(c)'
  BY <1>2, <1>3 DEF ReadsSound, ArtsRead, Kind, FilesRead, CopyRevision, RevisionAgrees
<1>5. /\ copy[c].pc \notin {"idle", "rollbackError", "crashed"}
      /\ next \in {"register", "sync"} => ForBackup(c)
      /\ next \in AtOutput /\ ForBackup(c) => copy[c].pc \in AtOutput
      /\ next \in {"sync", "done"} /\ ForBackup(c) => copy[c].pc \in {"sync", "done"}
      /\ copy[c].pc \in AtOutput => next \in AtOutput \cup {"rollbackError", "crashed"}
  BY DEF AtOutput, ForBackup, Kind, CopyRevision, RevisionAgrees
<1> HIDE DEF next
<1> QED
  BY <1>1, <1>4, <1>5, GoesOn

\* A copy whose revision is unchanged may publish.
LEMMA CopyUnchangedInv == ASSUME CopyInv, NEW c \in Copies, CopyUnchanged(c) PROVE CopyInv'
<1> DEFINE next == "publish"
<1>1. next \in CopyRunning \cup CopyEnded /\ CopyGo(c, next) /\ ReadsOnly
  BY DEF CopyUnchanged, CopyRunning, CopyEnded
<1>2. copy'[c].pc = next /\ copy'[c].made = copy[c].made
  BY <1>1, CopyGoes
<1>3. /\ rev' = rev /\ arts' = arts /\ rev \in Nat /\ copy[c].made.rev \in Nat
      /\ copy[c].made.reads \subseteq Nat /\ ReadsSound(c)
  BY <1>1, CopyTyped, CopyNumbers DEF ReadsOnly, source, CopyInv
<1>4. ReadsSound(c)'
  BY <1>2, <1>3 DEF ReadsSound, ArtsRead, Kind, FilesRead, CopyUnchanged, SourceUnchanged
<1>5. /\ copy[c].pc \notin {"idle", "rollbackError", "crashed"}
      /\ next \in {"register", "sync"} => ForBackup(c)
      /\ next \in AtOutput /\ ForBackup(c) => copy[c].pc \in AtOutput
      /\ next \in {"sync", "done"} /\ ForBackup(c) => copy[c].pc \in {"sync", "done"}
      /\ copy[c].pc \in AtOutput => next \in AtOutput \cup {"rollbackError", "crashed"}
  BY DEF AtOutput, ForBackup, Kind, CopyUnchanged, SourceUnchanged
<1> HIDE DEF next
<1> QED
  BY <1>1, <1>4, <1>5, GoesOn

\* The published archive is checked.
LEMMA CopySettleInv == ASSUME CopyInv, NEW c \in Copies, CopySettle(c) PROVE CopyInv'
<1> DEFINE next == IF Kind(c) = "package" THEN "done" ELSE "register"
<1>1. next \in CopyRunning \cup CopyEnded /\ CopyGo(c, next) /\ ReadsOnly
  BY DEF CopySettle, CopyRunning, CopyEnded
<1>2. copy'[c].pc = next /\ copy'[c].made = copy[c].made
  BY <1>1, CopyGoes
<1>3. /\ rev' = rev /\ arts' = arts /\ rev \in Nat /\ copy[c].made.rev \in Nat
      /\ copy[c].made.reads \subseteq Nat /\ ReadsSound(c)
  BY <1>1, CopyTyped, CopyNumbers DEF ReadsOnly, source, CopyInv
<1>4. ReadsSound(c)'
  BY <1>2, <1>3 DEF ReadsSound, ArtsRead, Kind, FilesRead, CopySettle
<1>5. /\ copy[c].pc \notin {"idle", "rollbackError", "crashed"}
      /\ next \in {"register", "sync"} => ForBackup(c)
      /\ next \in AtOutput /\ ForBackup(c) => copy[c].pc \in AtOutput
      /\ next \in {"sync", "done"} /\ ForBackup(c) => copy[c].pc \in {"sync", "done"}
      /\ copy[c].pc \in AtOutput => next \in AtOutput \cup {"rollbackError", "crashed"}
  BY DEF AtOutput, ForBackup, Kind, CopySettle
<1> HIDE DEF next
<1> QED
  BY <1>1, <1>4, <1>5, GoesOn

\* A step fails, and the copy goes to its rollback.
LEMMA CopyFailsInv == ASSUME CopyInv, NEW c \in Copies, CopyFails(c) PROVE CopyInv'
<1> DEFINE next == CopyAfterFailure(c)
<1>1. next \in CopyRunning \cup CopyEnded /\ CopyGo(c, next) /\ ReadsOnly
  BY DEF CopyFails, CopyRunning, CopyEnded, CopyAfterFailure
<1>2. copy'[c].pc = next /\ copy'[c].made = copy[c].made
  BY <1>1, CopyGoes
<1>3. /\ rev' = rev /\ arts' = arts /\ rev \in Nat /\ copy[c].made.rev \in Nat
      /\ copy[c].made.reads \subseteq Nat /\ ReadsSound(c)
  BY <1>1, CopyTyped, CopyNumbers DEF ReadsOnly, source, CopyInv
<1>4. ReadsSound(c)'
  BY <1>2, <1>3 DEF ReadsSound, ArtsRead, Kind, FilesRead, CopyFails, CopyAfterFailure, CopyRunning
<1>5. /\ copy[c].pc \notin {"idle", "rollbackError", "crashed"}
      /\ next \in {"register", "sync"} => ForBackup(c)
      /\ next \in AtOutput /\ ForBackup(c) => copy[c].pc \in AtOutput
      /\ next \in {"sync", "done"} /\ ForBackup(c) => copy[c].pc \in {"sync", "done"}
      /\ copy[c].pc \in AtOutput => next \in AtOutput \cup {"rollbackError", "crashed"}
  BY DEF AtOutput, ForBackup, Kind, CopyFails, CopyAfterFailure, CopyRunning
<1> HIDE DEF next
<1> QED
  BY <1>1, <1>4, <1>5, GoesOn

\* A copy crashes and leaves what it has published.
LEMMA CopyCrashInv == ASSUME CopyInv, NEW c \in Copies, CopyCrash(c) PROVE CopyInv'
<1> DEFINE next == "crashed"
<1>1. next \in CopyRunning \cup CopyEnded /\ CopyGo(c, next) /\ ReadsOnly
  BY DEF CopyCrash, CopyRunning, CopyEnded
<1>2. copy'[c].pc = next /\ copy'[c].made = copy[c].made
  BY <1>1, CopyGoes
<1>3. /\ rev' = rev /\ arts' = arts /\ rev \in Nat /\ copy[c].made.rev \in Nat
      /\ copy[c].made.reads \subseteq Nat /\ ReadsSound(c)
  BY <1>1, CopyTyped, CopyNumbers DEF ReadsOnly, source, CopyInv
<1>4. ReadsSound(c)'
  BY <1>2, <1>3 DEF ReadsSound, ArtsRead, Kind, FilesRead, CopyCrash, CopyRunning
<1>5. /\ copy[c].pc \notin {"idle", "rollbackError", "crashed"}
      /\ next \in {"register", "sync"} => ForBackup(c)
      /\ next \in AtOutput /\ ForBackup(c) => copy[c].pc \in AtOutput
      /\ next \in {"sync", "done"} /\ ForBackup(c) => copy[c].pc \in {"sync", "done"}
      /\ copy[c].pc \in AtOutput => next \in AtOutput \cup {"rollbackError", "crashed"}
  BY DEF AtOutput, ForBackup, Kind, CopyCrash, CopyRunning
<1> HIDE DEF next
<1> QED
  BY <1>1, <1>4, <1>5, GoesOn

\* A copy that has not published changes what it holds.
LEMMA ReadsOn ==
    ASSUME CopyInv, NEW c \in Copies, CopyMoves(c), ReadsOnly, ReadsSound(c)',
           copy'[c].made.by = c, copy[c].pc \notin AtOutput \cup {"rollbackError", "crashed"},
           copy'[c].pc \notin AtOutput
    PROVE  CopyInv'
<1>1. out' = out /\ inventory' = inventory
  BY DEF ReadsOnly
<1>2. PlaceSound(c)
  BY DEF CopyInv
<1>3. PlaceSound(c)'
  BY <1>1, <1>2 DEF PlaceSound, AtOutput
<1> QED
  BY <1>3, CopyReads

\* The schema and the revision are read first.
LEMMA CopyLoadInv == ASSUME CopyInv, NEW c \in Copies, CopyLoad(c) PROVE CopyInv'
<1> DEFINE old == copy[c].made  new == copy'[c].made
<1>1. /\ copy' = [copy EXCEPT ![c] = copy'[c]] /\ copy[c] \in CopyRow /\ old \in Archive
      /\ copy'[c] = [copy[c] EXCEPT !.pc = "identity", !.made.rev = wsRev]
      /\ copy[c].pc = "load" /\ ReadsOnly
  BY CopyTyped DEF CopyLoad
<1>2. /\ copy'[c].pc = "identity"
      /\ new = [old EXCEPT !.rev = wsRev]
      /\ copy'[c] = [pc |-> copy'[c].pc, made |-> new]
  BY <1>1 DEF CopyRow
<1>3. /\ rev \in Nat /\ rev \in 0 .. MaxRev /\ wsRev \in Nat /\ wsRev \in 0 .. MaxRev
      /\ wsRev <= rev /\ arts \subseteq Arts /\ rev' = rev /\ arts' = arts
      /\ old.rev \in Nat /\ old.reads \subseteq Nat /\ old.reads \in SUBSET (0 .. MaxRev)
  BY <1>1, CopyTyped, CopyNumbers DEF CopyInv, CopyTypeOK, ReadsOnly, source
<1>4. /\ new.rev = wsRev
      /\ new.by = old.by /\ new.kind = old.kind /\ new.reads = old.reads /\ new.arts = old.arts /\ new.files = old.files
      /\ new \in Archive
  <2>1. /\ new.rev = wsRev
        /\ new.by = old.by /\ new.kind = old.kind /\ new.reads = old.reads /\ new.arts = old.arts /\ new.files = old.files
    BY <1>1, <1>2 DEF Archive
  <2>2. /\ {rev} \in SUBSET (0 .. MaxRev) /\ old.reads \cup {rev} \in SUBSET (0 .. MaxRev)
        /\ arts \in SUBSET Arts /\ old.arts \in SUBSET Arts
    BY <1>1, <1>3 DEF Archive
  <2>3. new \in Archive
    BY <1>1, <1>2, <1>3, <2>2 DEF Archive
  <2> QED
    BY <2>1, <2>3
<1>5. CopyMoves(c)
  BY <1>1, <1>2, <1>4 DEF CopyMoves, CopyRow, CopyRunning
<1>6. ReadsSound(c) /\ old.by = c
  BY <1>1 DEF CopyInv, PlaceSound
<1>7. ReadsSound(c)'
  BY <1>1, <1>2, <1>3, <1>4, <1>6 DEF ReadsSound, ArtsRead, Kind, FilesRead
<1> QED
  BY <1>1, <1>2, <1>4, <1>5, <1>6, <1>7, ReadsOn DEF AtOutput

\* The database is read through a backup of its own.
LEMMA CopySnapshotInv == ASSUME CopyInv, NEW c \in Copies, CopySnapshot(c) PROVE CopyInv'
<1> DEFINE old == copy[c].made  new == copy'[c].made
<1>1. /\ copy' = [copy EXCEPT ![c] = copy'[c]] /\ copy[c] \in CopyRow /\ old \in Archive
      /\ copy'[c] = [copy[c] EXCEPT !.pc = "identityFile", !.made.arts = arts, !.made.reads = {rev}]
      /\ copy[c].pc = "snapshot" /\ ReadsOnly
  BY CopyTyped DEF CopySnapshot
<1>2. /\ copy'[c].pc = "identityFile"
      /\ new = [old EXCEPT !.arts = arts, !.reads = {rev}]
      /\ copy'[c] = [pc |-> copy'[c].pc, made |-> new]
  BY <1>1 DEF CopyRow
<1>3. /\ rev \in Nat /\ rev \in 0 .. MaxRev /\ wsRev \in Nat /\ wsRev \in 0 .. MaxRev
      /\ wsRev <= rev /\ arts \subseteq Arts /\ rev' = rev /\ arts' = arts
      /\ old.rev \in Nat /\ old.reads \subseteq Nat /\ old.reads \in SUBSET (0 .. MaxRev)
  BY <1>1, CopyTyped, CopyNumbers DEF CopyInv, CopyTypeOK, ReadsOnly, source
<1>4. /\ new.arts = arts /\ new.reads = {rev}
      /\ new.by = old.by /\ new.kind = old.kind /\ new.rev = old.rev /\ new.files = old.files
      /\ new \in Archive
  <2>1. /\ new.arts = arts /\ new.reads = {rev}
        /\ new.by = old.by /\ new.kind = old.kind /\ new.rev = old.rev /\ new.files = old.files
    BY <1>1, <1>2 DEF Archive
  <2>2. /\ {rev} \in SUBSET (0 .. MaxRev) /\ old.reads \cup {rev} \in SUBSET (0 .. MaxRev)
        /\ arts \in SUBSET Arts /\ old.arts \in SUBSET Arts
    BY <1>1, <1>3 DEF Archive
  <2>3. new \in Archive
    BY <1>1, <1>2, <1>3, <2>2 DEF Archive
  <2> QED
    BY <2>1, <2>3
<1>5. CopyMoves(c)
  BY <1>1, <1>2, <1>4 DEF CopyMoves, CopyRow, CopyRunning
<1>6. ReadsSound(c) /\ old.by = c
  BY <1>1 DEF CopyInv, PlaceSound
<1>7. ReadsSound(c)'
  BY <1>1, <1>2, <1>3, <1>4, <1>6 DEF ReadsSound, ArtsRead, Kind, FilesRead, CopySnapshot
<1> QED
  BY <1>1, <1>2, <1>4, <1>5, <1>6, <1>7, ReadsOn DEF AtOutput

\* The rows are read in a connection of their own.
LEMMA CopyRowsInv == ASSUME CopyInv, NEW c \in Copies, CopyRows(c) PROVE CopyInv'
<1> DEFINE old == copy[c].made  new == copy'[c].made
<1>1. /\ copy' = [copy EXCEPT ![c] = copy'[c]] /\ copy[c] \in CopyRow /\ old \in Archive
      /\ copy'[c] = [copy[c] EXCEPT !.pc = "files", !.made.reads = @ \cup {rev}, !.made.files = arts, !.made.arts = IF Kind(c) = "workspace" THEN @ ELSE arts]
      /\ copy[c].pc = "rows" /\ ReadsOnly
  BY CopyTyped DEF CopyRows
<1>2. /\ copy'[c].pc = "files"
      /\ new = [old EXCEPT !.reads = @ \cup {rev}, !.files = arts, !.arts = IF Kind(c) = "workspace" THEN @ ELSE arts]
      /\ copy'[c] = [pc |-> copy'[c].pc, made |-> new]
  BY <1>1 DEF CopyRow
<1>3. /\ rev \in Nat /\ rev \in 0 .. MaxRev /\ wsRev \in Nat /\ wsRev \in 0 .. MaxRev
      /\ wsRev <= rev /\ arts \subseteq Arts /\ rev' = rev /\ arts' = arts
      /\ old.rev \in Nat /\ old.reads \subseteq Nat /\ old.reads \in SUBSET (0 .. MaxRev)
  BY <1>1, CopyTyped, CopyNumbers DEF CopyInv, CopyTypeOK, ReadsOnly, source
<1>4. /\ new.reads = old.reads \cup {rev} /\ new.files = arts /\ new.arts = IF Kind(c) = "workspace" THEN old.arts ELSE arts
      /\ new.by = old.by /\ new.kind = old.kind /\ new.rev = old.rev
      /\ new \in Archive
  <2>1. /\ new.reads = old.reads \cup {rev} /\ new.files = arts /\ new.arts = IF Kind(c) = "workspace" THEN old.arts ELSE arts
        /\ new.by = old.by /\ new.kind = old.kind /\ new.rev = old.rev
    BY <1>1, <1>2 DEF Archive
  <2>2. /\ {rev} \in SUBSET (0 .. MaxRev) /\ old.reads \cup {rev} \in SUBSET (0 .. MaxRev)
        /\ arts \in SUBSET Arts /\ old.arts \in SUBSET Arts
    BY <1>1, <1>3 DEF Archive
  <2>3. new \in Archive
    BY <1>1, <1>2, <1>3, <2>2 DEF Archive
  <2> QED
    BY <2>1, <2>3
<1>5. CopyMoves(c)
  BY <1>1, <1>2, <1>4 DEF CopyMoves, CopyRow, CopyRunning
<1>6. ReadsSound(c) /\ old.by = c
  BY <1>1 DEF CopyInv, PlaceSound
<1>7. ReadsSound(c)'
  <2>1. rev = old.rev => arts = new.arts
    BY <1>1, <1>4, <1>6 DEF ReadsSound, ArtsRead, Kind
  <2>2. /\ new.rev <= rev /\ \A n \in new.reads : new.rev <= n /\ n <= rev
        /\ new.reads # {} /\ (new.reads = {new.rev} => rev = old.rev)
    BY <1>3, <1>4, <1>6 DEF ReadsSound
  <2> QED
    BY <1>2, <1>3, <1>4, <2>1, <2>2 DEF ReadsSound, ArtsRead, FilesRead
<1> QED
  BY <1>1, <1>2, <1>4, <1>5, <1>6, <1>7, ReadsOn DEF AtOutput

\* The managed files are read last.
LEMMA CopyFilesInv == ASSUME CopyInv, NEW c \in Copies, CopyFiles(c) PROVE CopyInv'
<1> DEFINE old == copy[c].made  new == copy'[c].made
<1>1. /\ copy' = [copy EXCEPT ![c] = copy'[c]] /\ copy[c] \in CopyRow /\ old \in Archive
      /\ copy'[c] = [copy[c] EXCEPT !.pc = IF Kind(c) = "workspace" THEN "unchanged" ELSE "revision", !.made.reads = @ \cup {rev}]
      /\ copy[c].pc = "files" /\ ReadsOnly
  BY CopyTyped DEF CopyFiles
<1>2. /\ copy'[c].pc = IF Kind(c) = "workspace" THEN "unchanged" ELSE "revision"
      /\ new = [old EXCEPT !.reads = @ \cup {rev}]
      /\ copy'[c] = [pc |-> copy'[c].pc, made |-> new]
  BY <1>1 DEF CopyRow
<1>3. /\ rev \in Nat /\ rev \in 0 .. MaxRev /\ wsRev \in Nat /\ wsRev \in 0 .. MaxRev
      /\ wsRev <= rev /\ arts \subseteq Arts /\ rev' = rev /\ arts' = arts
      /\ old.rev \in Nat /\ old.reads \subseteq Nat /\ old.reads \in SUBSET (0 .. MaxRev)
  BY <1>1, CopyTyped, CopyNumbers DEF CopyInv, CopyTypeOK, ReadsOnly, source
<1>4. /\ new.reads = old.reads \cup {rev}
      /\ new.by = old.by /\ new.kind = old.kind /\ new.rev = old.rev /\ new.arts = old.arts /\ new.files = old.files
      /\ new \in Archive
  <2>1. /\ new.reads = old.reads \cup {rev}
        /\ new.by = old.by /\ new.kind = old.kind /\ new.rev = old.rev /\ new.arts = old.arts /\ new.files = old.files
    BY <1>1, <1>2 DEF Archive
  <2>2. /\ {rev} \in SUBSET (0 .. MaxRev) /\ old.reads \cup {rev} \in SUBSET (0 .. MaxRev)
        /\ arts \in SUBSET Arts /\ old.arts \in SUBSET Arts
    BY <1>1, <1>3 DEF Archive
  <2>3. new \in Archive
    BY <1>1, <1>2, <1>3, <2>2 DEF Archive
  <2> QED
    BY <2>1, <2>3
<1>5. CopyMoves(c)
  BY <1>1, <1>2, <1>4 DEF CopyMoves, CopyRow, CopyRunning
<1>6. ReadsSound(c) /\ old.by = c
  BY <1>1 DEF CopyInv, PlaceSound
<1>7. ReadsSound(c)'
  BY <1>1, <1>2, <1>3, <1>4, <1>6 DEF ReadsSound, ArtsRead, Kind, FilesRead
<1> QED
  BY <1>1, <1>2, <1>4, <1>5, <1>6, <1>7, ReadsOn DEF AtOutput

\* A copy begins.
LEMMA CopyStartInv ==
    ASSUME CopyInv, NEW c \in Copies, NEW kind \in CopyKinds, CopyStart(c, kind)
    PROVE  CopyInv'
<1> DEFINE next == IF out[PathOf(kind)] = NoFile THEN "load" ELSE "refused"
           new == [NoFile EXCEPT !.by = c, !.kind = kind]
<1>1. /\ copy' = [copy EXCEPT ![c] = copy'[c]] /\ copy[c] \in CopyRow
      /\ copy'[c] = [pc |-> next, made |-> new]
      /\ copy[c].pc = "idle" /\ ReadsOnly
  BY CopyTyped DEF CopyStart
<1>2. new \in Archive /\ new.by = c /\ new.kind = kind /\ new.rev = 0 /\ new.reads = {}
  <2>1. NoFile \in Archive /\ NoFile.rev = 0 /\ NoFile.reads = {}
    BY NoFileTyped DEF NoFile
  <2> QED
    BY <2>1 DEF Archive
<1>3. copy'[c].pc = next /\ copy'[c].made = new
  BY <1>1
<1>4. CopyMoves(c)
  BY <1>1, <1>2 DEF CopyMoves, CopyRow, CopyRunning, CopyEnded
<1>5. rev \in Nat /\ rev' = rev
  BY <1>1, CopyNumbers DEF ReadsOnly, source
<1>6. ReadsSound(c)'
  BY <1>2, <1>3, <1>5 DEF ReadsSound, ArtsRead, FilesRead
<1> QED
  BY <1>1, <1>2, <1>3, <1>4, <1>6, ReadsOn DEF AtOutput

\* A backup is linked at a path that is free; an export replaces what is there.
LEMMA CopyPublishInv == ASSUME CopyInv, NEW c \in Copies, CopyPublish(c) PROVE CopyInv'
<1> DEFINE made == copy[c].made  path == PathOf(Kind(c))
<1>1. "settle" \in CopyRunning /\ CopyGo(c, "settle") /\ copy[c].pc = "publish"
  BY DEF CopyPublish, CopyRunning
<1>2. CopyMoves(c) /\ copy'[c].pc = "settle" /\ copy'[c].made = made
  BY <1>1, CopyGoes
<1>3. /\ rev' = rev /\ wsRev' = wsRev /\ arts' = arts /\ managed' = managed
      /\ writer' = writer /\ inventory' = inventory
      /\ out' = [out EXCEPT ![path] = made] /\ out \in [Paths -> Archive]
      /\ ForBackup(c) => out["backup"] = NoFile
      /\ rev \in 0 .. MaxRev /\ wsRev \in 0 .. rev /\ inventory \subseteq Copies
  BY DEF CopyPublish, source, CopyInv, CopyTypeOK, OutputFree, PathOf, ForBackup
<1>4. made \in Archive /\ made.by = c /\ path \in Paths /\ (ForBackup(c) => path = "backup")
  BY <1>1, CopyTyped DEF CopyInv, PlaceSound, PathOf, Paths, ForBackup
<1>5. /\ out' \in [Paths -> Archive] /\ out'[path] = made
      /\ \A p \in Paths \ {path} : out'[p] = out[p]
  BY <1>3, <1>4
<1>6. ReadsSound(c) /\ ReadsSound(c)'
  BY <1>1, <1>2, <1>3 DEF CopyInv, ReadsSound, ArtsRead, Kind, FilesRead
<1>7. made.reads = {made.rev} /\ made.files = made.arts
  BY <1>1, <1>6 DEF ReadsSound, FilesRead
<1>8. ArchiveIsOneMoment'
  BY <1>5, <1>7 DEF CopyInv, ArchiveIsOneMoment
<1>9. PlaceSound(c)'
  BY <1>1, <1>2, <1>4, <1>5 DEF CopyInv, PlaceSound, ForBackup, Kind, AtOutput
<1>10. ASSUME NEW q \in Copies \ {c}, copy'[q] = copy[q] PROVE PlaceSound(q)'
  <2>1. PlaceSound(q) /\ (ForBackup(q)' <=> ForBackup(q)) /\ Kind(q)' = Kind(q)
    BY <1>10 DEF CopyInv, ForBackup, Kind
  <2>2. ASSUME copy[q].pc \in AtOutput, ForBackup(q) PROVE out'["backup"] = copy[q].made
    <3>1. out["backup"] = copy[q].made /\ copy[q].made.by = q
      BY <2>1, <2>2 DEF PlaceSound, AtOutput
    <3>2. path # "backup"
      BY <1>3, <1>4, <3>1, NoFileTyped DEF PathOf, ForBackup
    <3> QED
      BY <1>5, <3>1, <3>2 DEF Paths
  <2>3. \A p \in Paths : out'[p].by = q => out[p].by = q
    BY <1>4, <1>5
  <2> QED
    BY <1>3, <1>10, <2>1, <2>2, <2>3 DEF PlaceSound
<1> QED
  BY <1>2, <1>3, <1>5, <1>6, <1>8, <1>9, <1>10, CopyNumbers, CopyStepInv

\* A backup is recorded in the inventory if the revision is still its own.
LEMMA CopyRegisterInv ==
    ASSUME CopyInv, NEW c \in Copies, CopyRegister(c)
    PROVE  CopyInv' /\ RegisteredIsCurrent
<1>1. "sync" \in CopyRunning /\ CopyGo(c, "sync") /\ copy[c].pc = "register"
  BY DEF CopyRegister, CopyRunning
<1>2. CopyMoves(c) /\ copy'[c].pc = "sync" /\ copy'[c].made = copy[c].made
  BY <1>1, CopyGoes
<1>3. /\ rev' = rev + 1 /\ wsRev' = rev /\ arts' = arts /\ managed' = managed
      /\ writer' = writer /\ inventory' = inventory \cup {c} /\ out' = out
      /\ out \in [Paths -> Archive] /\ inventory \subseteq Copies
      /\ rev = copy[c].made.rev /\ rev < MaxRev
  BY DEF CopyRegister, StillCurrent, CopyInv, CopyTypeOK
<1>4. MaxRev \in Nat /\ rev \in Nat /\ rev' \in 0 .. MaxRev /\ wsRev' \in 0 .. rev' /\ rev <= rev'
  BY <1>3, CopyNumbers
<1>5. ReadsSound(c) /\ PlaceSound(c) /\ copy[c].made.reads \subseteq Nat
  BY CopyTyped DEF CopyInv
<1>6. ReadsSound(c)'
  BY <1>1, <1>2, <1>3, <1>4, <1>5 DEF ReadsSound, ArtsRead, FilesRead
<1>7. PlaceSound(c)'
  BY <1>1, <1>2, <1>3, <1>5 DEF PlaceSound, AtOutput, ForBackup, Kind
<1>8. \A q \in Copies \ {c} : copy'[q] = copy[q] => PlaceSound(q)'
  BY <1>3 DEF CopyInv, PlaceSound, ForBackup, Kind
<1>9. ArchiveIsOneMoment'
  BY <1>3 DEF CopyInv, ArchiveIsOneMoment
<1>10. CopyInv'
  BY <1>2, <1>3, <1>4, <1>6, <1>7, <1>8, <1>9, CopyStepInv
<1>11. copy[c].made.arts = arts /\ out["backup"] = copy[c].made
  BY <1>1, <1>3, <1>5 DEF ReadsSound, ArtsRead, PlaceSound, AtOutput
<1>12. RegisteredIsCurrent
  BY <1>3, <1>11 DEF RegisteredIsCurrent
<1> QED
  BY <1>10, <1>12

\* The workspace identity follows the record of the backup.
LEMMA CopySyncInv == ASSUME CopyInv, NEW c \in Copies, CopySync(c) PROVE CopyInv'
<1>1. "done" \in CopyEnded /\ CopyGo(c, "done") /\ copy[c].pc = "sync"
  BY DEF CopySync, CopyEnded
<1>2. CopyMoves(c) /\ copy'[c].pc = "done" /\ copy'[c].made = copy[c].made
  BY <1>1, CopyGoes
<1>3. /\ rev' = rev /\ wsRev' = copy[c].made.rev + 1 /\ arts' = arts /\ managed' = managed
      /\ writer' = writer /\ inventory' = inventory /\ out' = out
      /\ out \in [Paths -> Archive] /\ inventory \subseteq Copies /\ rev \in 0 .. MaxRev
  BY DEF CopySync, CopyInv, CopyTypeOK
<1>4. /\ rev \in Nat /\ copy[c].made.rev \in Nat /\ copy[c].made.reads \subseteq Nat
      /\ ReadsSound(c) /\ PlaceSound(c)
  BY CopyTyped, CopyNumbers DEF CopyInv
<1>5. wsRev' \in 0 .. rev
  BY <1>1, <1>3, <1>4 DEF ReadsSound
<1>6. ReadsSound(c)'
  BY <1>2, <1>3, <1>4 DEF ReadsSound, ArtsRead, FilesRead
<1>7. PlaceSound(c)'
  BY <1>1, <1>2, <1>3, <1>4 DEF PlaceSound, AtOutput, ForBackup, Kind
<1>8. \A q \in Copies \ {c} : copy'[q] = copy[q] => PlaceSound(q)'
  BY <1>3 DEF CopyInv, PlaceSound, ForBackup, Kind
<1>9. ArchiveIsOneMoment'
  BY <1>3 DEF CopyInv, ArchiveIsOneMoment
<1> QED
  BY <1>2, <1>3, <1>4, <1>5, <1>6, <1>7, <1>8, <1>9, CopyStepInv

\* The rollback removes the archive the copy has published.
LEMMA CopyUnpublishInv == ASSUME CopyInv, NEW c \in Copies, CopyUnpublish(c) PROVE CopyInv'
<1> DEFINE next == IF out' = [out EXCEPT ![PathOf(Kind(c))] = NoFile] /\ CopyGo(c, "failed")
                 THEN "failed" ELSE "rollbackError"
           path == PathOf(Kind(c))
<1>1. /\ next \in CopyRunning \cup CopyEnded /\ CopyGo(c, next) /\ copy[c].pc = "unpublish"
      /\ next \in {"failed", "rollbackError"}
      /\ out' = IF next = "failed" THEN [out EXCEPT ![path] = NoFile] ELSE out
  BY DEF CopyUnpublish, CopyEnded
<1> HIDE DEF next
<1>2. CopyMoves(c) /\ copy'[c].pc = next /\ copy'[c].made = copy[c].made
  BY <1>1, CopyGoes
<1>3. /\ rev' = rev /\ wsRev' = wsRev /\ arts' = arts /\ managed' = managed
      /\ writer' = writer /\ inventory' = inventory /\ out \in [Paths -> Archive]
      /\ rev \in 0 .. MaxRev /\ wsRev \in 0 .. rev /\ inventory \subseteq Copies
      /\ path \in Paths
  BY DEF CopyUnpublish, source, CopyInv, CopyTypeOK, PathOf, Paths
<1>4. /\ out' \in [Paths -> Archive] /\ (next = "failed" => out'[path] = NoFile)
      /\ \A p \in Paths \ {path} : out'[p] = out[p]
      /\ \A p \in Paths : out'[p] \in {out[p], NoFile}
  BY <1>1, <1>3, NoFileTyped
<1>5. ReadsSound(c)'
  BY <1>1, <1>2, <1>3 DEF CopyInv, ReadsSound, ArtsRead, Kind, FilesRead
<1>6. ArchiveIsOneMoment'
  BY <1>4 DEF CopyInv, ArchiveIsOneMoment
<1>7. PlaceSound(c)'
  <2>1. PlaceSound(c)
    BY DEF CopyInv
  <2>2. \A p \in Paths : out'[p].by = c => out[p].by = c /\ next = "rollbackError"
    BY <1>1, <1>4, <2>1, NoFileTyped DEF PlaceSound
  <2> QED
    BY <1>1, <1>2, <2>1, <2>2 DEF PlaceSound, AtOutput, Kind, ForBackup
<1>8. ASSUME NEW q \in Copies \ {c}, copy'[q] = copy[q] PROVE PlaceSound(q)'
  <2>1. PlaceSound(q) /\ PlaceSound(c) /\ (ForBackup(q)' <=> ForBackup(q)) /\ Kind(q)' = Kind(q)
    BY <1>8 DEF CopyInv, ForBackup, Kind
  <2>2. ASSUME copy[q].pc \in AtOutput, ForBackup(q) PROVE out'["backup"] = copy[q].made
    <3>1. out["backup"] = copy[q].made /\ copy[q].made.by = q
      BY <2>1, <2>2 DEF PlaceSound, AtOutput
    <3>2. ~ForBackup(c)
      BY <1>1, <2>1, <3>1 DEF PlaceSound, AtOutput
    <3>3. path # "backup"
      BY <3>2 DEF PathOf, ForBackup
    <3> QED
      BY <1>4, <3>1, <3>3 DEF Paths
  <2>3. \A p \in Paths : out'[p].by = q => out[p].by = q
    BY <1>4, NoFileTyped
  <2> QED
    BY <1>3, <1>8, <2>1, <2>2, <2>3 DEF PlaceSound
<1> QED
  BY <1>2, <1>3, <1>4, <1>5, <1>6, <1>7, <1>8, CopyNumbers, CopyStepInv

\* The other processes: they change neither an archive nor a copy.
LEMMA WriterInv == ASSUME CopyInv, Writer PROVE CopyInv'
<1>1. out' = out /\ inventory' = inventory /\ copy' = copy
  BY DEF Writer
<1>2. MaxRev \in Nat /\ rev \in Nat /\ wsRev \in Nat /\ rev <= MaxRev /\ wsRev <= rev
  BY CopyNumbers
<1>3. /\ arts \subseteq managed /\ managed \subseteq Arts
      /\ writer \in Arts \cup {"idle", "syncing"} /\ "idle" \notin Arts /\ "syncing" \notin Arts
      /\ writer \in Arts => writer \in managed /\ writer \notin arts
  BY CopyAssumption DEF CopyInv, CopyTypeOK, WriterAhead
<1>4. /\ rev' \in Nat /\ wsRev' \in Nat /\ rev' <= MaxRev /\ wsRev' <= rev' /\ rev <= rev'
      /\ rev' = rev => arts' = arts
      /\ arts' \subseteq managed' /\ managed' \subseteq Arts
      /\ writer' \in Arts \cup {"idle", "syncing"}
      /\ writer' \in Arts => writer' \in managed' /\ writer' \notin arts'
  <2>1. CASE \E a \in Arts : WriteFile(a)
    BY <1>2, <1>3, <2>1 DEF WriteFile
  <2>2. CASE CommitWrite
    BY <1>2, <1>3, <2>2 DEF CommitWrite
  <2>3. CASE SyncWorkspace
    BY <1>2, <1>3, <2>3 DEF SyncWorkspace
  <2>4. CASE WriterStops
    BY <1>2, <1>3, <2>4 DEF WriterStops
  <2> QED
    BY <2>1, <2>2, <2>3, <2>4 DEF Writer
<1>5. CopyTypeOK' /\ WriterAhead'
  BY <1>1, <1>2, <1>4 DEF CopyInv, CopyTypeOK, WriterAhead
<1>6. \A c \in Copies : ReadsSound(c)' /\ PlaceSound(c)'
  <2> TAKE c \in Copies
  <2>1. ReadsSound(c)'
    BY <1>1, <1>4, ReadsKept
  <2>2. PlaceSound(c)'
    BY <1>1 DEF CopyInv, PlaceSound, ForBackup, Kind
  <2> QED
    BY <2>1, <2>2
<1>7. ArchiveIsOneMoment'
  BY <1>1 DEF CopyInv, ArchiveIsOneMoment
<1> QED
  BY <1>5, <1>6, <1>7 DEF CopyInv

\* Every step keeps the invariant, and a registered backup is current.
LEMMA CopyNextInv == CopyInv /\ [CopyNext]_copyVars => CopyInv' /\ [RegisteredIsCurrent]_copyVars
<1> SUFFICES ASSUME CopyInv, [CopyNext]_copyVars PROVE CopyInv' /\ RegisteredIsCurrent
  OBVIOUS
<1>1. CASE Writer
  BY <1>1, WriterInv DEF Writer, RegisteredIsCurrent
<1>2. ASSUME NEW c \in Copies, CopyStep(c) PROVE CopyInv' /\ RegisteredIsCurrent
  <2>1. CASE CopyRegister(c)
    BY <2>1, CopyRegisterInv
  <2>2. CASE inventory' = inventory
    <3>1. RegisteredIsCurrent
      BY <2>2 DEF RegisteredIsCurrent
    <3>2. CopyRegister(c) \/ CopyInv'
      BY <1>2, CopyStartInv, CopyLoadInv, CopyIdentityInv, CopySnapshotInv, CopyIdentityFileInv,
         CopyRowsInv, CopyFilesInv, CopyRevisionInv, CopyUnchangedInv, CopyPublishInv,
         CopySettleInv, CopySyncInv, CopyFailsInv, CopyUnpublishInv, CopyCrashInv
      DEF CopyStep
    <3> QED
      BY <2>1, <3>1, <3>2
  <2> QED
    BY <1>2, <2>1, <2>2
    DEF CopyStep, CopyStart, CopyLoad, CopyIdentity, CopySnapshot, CopyIdentityFile, CopyRows,
        CopyFiles, CopyRevision, CopyUnchanged, CopyPublish, CopySettle, CopySync, CopyFails,
        CopyUnpublish, CopyCrash, ReadsOnly
<1>3. CASE UNCHANGED copyVars
  <2>1. /\ rev' = rev /\ wsRev' = wsRev /\ arts' = arts /\ managed' = managed
        /\ writer' = writer /\ out' = out /\ inventory' = inventory /\ copy' = copy
    BY <1>3 DEF copyVars, source
  <2>2. CopyTypeOK' /\ WriterAhead' /\ ArchiveIsOneMoment'
    BY <2>1 DEF CopyInv, CopyTypeOK, WriterAhead, ArchiveIsOneMoment
  <2>3. \A c \in Copies : ReadsSound(c)' /\ PlaceSound(c)'
    BY <2>1 DEF CopyInv, ReadsSound, ArtsRead, PlaceSound, ForBackup, Kind
  <2> QED
    BY <2>1, <2>2, <2>3 DEF CopyInv, RegisteredIsCurrent
<1> QED
  BY <1>1, <1>2, <1>3 DEF CopyNext

\* The invariant gives the properties of states.
LEMMA CopySafe ==
    ASSUME CopyInv
    PROVE  CopyTypeOK /\ ArchiveIsOneMoment /\ FinishedBackupStays /\ FailedCopyLeavesNothing
<1>1. FinishedBackupStays
  BY DEF FinishedBackupStays, CopyInv, PlaceSound, ForBackup, AtOutput
<1>2. FailedCopyLeavesNothing
  BY DEF FailedCopyLeavesNothing, CopyInv, PlaceSound, AtOutput
<1> QED
  BY <1>1, <1>2 DEF CopyInv

\* For any number of copies of any kind beside writers, failures and crashes: a
\* published archive is the workspace at one revision, a finished backup stays at
\* its path and in the inventory, and a failed copy leaves nothing; a backup is
\* recorded only at the revision it was taken from (_create_backup,
\* export_workspace, export_state_package, register_backup).
THEOREM CopiesAlwaysSound == CopySpec => CopiesSound
BY CopyInitInv, CopyNextInv, CopySafe, PTL DEF CopySpec, CopiesSound

------------------------------------------------------------------------------
\* The workspace that a return builds.
StagedBy(r) == [there |-> TRUE, has |-> {r}]

\* A return that holds a staged workspace, and one that may have put it in place.
Holding == {"validate", "check", "moveAside", "replace"}
Placed == {"settle", "fresh", "cleanup", "finish", "undoTarget"}

RetRow == [pc : ReturnRunning \cup ReturnEnded \cup {"idle"}, import : BOOLEAN,
           existed : BOOLEAN, published : BOOLEAN,
           checked : Archives \cup {"none"}, staged : Archives \cup {"none"}]

ReturnTypes ==
    /\ archive \in Archives /\ target \in Dir
    /\ stage \in [Returns -> Dir] /\ aside \in [Returns -> Dir]
    /\ ret \in [Returns -> RetRow]

\* A file is alone, a commit is in a workspace, a workspace was published.
DirSound(d) ==
    /\ d.there \/ d = Absent
    /\ "file" \in d.has => d.has = {"file"}
    /\ "commit" \in d.has => d.has \cap Returns # {}
    /\ \A r \in Returns : r \in d.has => ret[r].published

DirsSound == DirSound(target) /\ \A r \in Returns : DirSound(aside[r])

\* What a return knows of the archive.
FromChecked(r) ==
    /\ ret[r].checked \in Sound \cup {"none"}
    /\ ret[r].staged # "none" => ret[r].staged = ret[r].checked
    /\ ret[r].pc \in {"verified", "read"} => ret[r].checked # "none"
    /\ ret[r].pc = "verified" /\ ret[r].import => ret[r].staged # "none"
    /\ ret[r].pc \in {"stage"} \cup Holding \/ ret[r].published \/ stage[r].there
          => ret[r].staged # "none"

\* Where the directories of a return are.
OwnPlaces(r) ==
    /\ stage[r] \in {Absent, StagedBy(r)}
    /\ r \notin aside[r].has
    /\ ret[r].pc \in {"idle", "verified", "read", "stage"} => stage[r] = Absent
    /\ ret[r].pc \in Holding => stage[r] = StagedBy(r)
    /\ ret[r].published => /\ stage[r] = Absent
                           /\ ret[r].pc \in Placed \cup {"undoAside", "undoStage", "done",
                                                         "failed", "rollbackError", "crashed"}
    /\ ret[r].pc \in (Placed \ {"undoTarget"}) \cup {"done"} => ret[r].published
    /\ ret[r].pc = "undoTarget" => ret[r].published \/ aside[r].there
    /\ ret[r].pc \in {"idle", "verified", "read", "stage", "validate", "check", "moveAside",
                      "finish", "undoStage", "done", "failed", "refused"} => aside[r] = Absent
    /\ ret[r].pc = "failed" /\ ~ret[r].import => stage[r] = Absent
    /\ ret[r].pc = "fresh" => ~ret[r].import

\* The workspace of a return is at the target, or moved aside.
KeptSomewhere(q) == q \in target.has \/ \E s \in Returns : q \in aside[s].has

\* Of two returns, the one whose workspace is at the target while the other may
\* still undo its own has moved the other's aside.
Overtaken(r, q) ==
    ret[q].published /\ ret[q].pc \in Placed /\ r \in target.has => q \in aside[r].has

\* A workspace is lost only to a return whose workspace it has displaced.
LostToOther(q) ==
    ret[q].published /\ ret[q].pc \in Placed \cup {"done"} =>
        KeptSomewhere(q) \/ \E s \in Returns \ {q} : s \in aside[q].has

PairSound ==
    Paired => /\ \A r, q \in Returns : r # q => Overtaken(r, q)
              /\ \A q \in Returns : LostToOther(q)

\* A return that is alone finds what it left.
AloneSound(r) ==
    /\ ret[r].pc \in {"undoAside", "undoStage", "failed"} => r \notin target.has
    /\ ret[r].published /\ ret[r].pc \in Placed => r \in target.has
    /\ ret[r].existed =>
          /\ ret[r].pc \in {"read", "stage", "validate", "check", "undoStage", "failed"}
                => target.there
          /\ ret[r].pc = "replace" => aside[r].there
          /\ ret[r].import /\ ret[r].pc \in {"settle", "cleanup", "undoTarget", "undoAside"}
                => aside[r].there
    /\ ret[r].pc = "moveAside" => target.there

ReturnInv ==
    /\ ReturnTypes /\ DirsSound
    /\ \A r \in Returns : FromChecked(r) /\ OwnPlaces(r)
    /\ PairSound
    /\ Alone => \A r \in Returns : AloneSound(r)

-----------------------------------------------------------------------------
\* Before any return the archive is what it is, and nothing is staged or moved aside.
LEMMA ReturnInitInv == ReturnInit => ReturnInv
<1> SUFFICES ASSUME ReturnInit PROVE ReturnInv
  OBVIOUS
<1>1. ReturnTypes
  <2>1. Absent \in Dir /\ Empty \in Dir
    BY DEF Absent, Empty, Dir
  <2>2. [pc |-> "idle", import |-> FALSE, existed |-> FALSE,
         published |-> FALSE, checked |-> "none", staged |-> "none"] \in RetRow
    BY DEF RetRow
  <2> QED
    BY <2>1, <2>2 DEF ReturnInit, ReturnTypes
<1>2. DirsSound
  BY DEF ReturnInit, DirsSound, DirSound, Absent, Empty
<1>3. \A r \in Returns : FromChecked(r) /\ OwnPlaces(r)
  BY DEF ReturnInit, FromChecked, OwnPlaces, Absent, Holding, Placed
<1>4. PairSound
  BY DEF ReturnInit, PairSound, Overtaken, LostToOther
<1>5. \A r \in Returns : AloneSound(r)
  BY DEF ReturnInit, AloneSound
<1> QED
  BY <1>1, <1>2, <1>3, <1>4, <1>5 DEF ReturnInv

\* A step of r changes its row and no other, and it has begun.
RetStep(r) == ret' = [ret EXCEPT ![r] = ret'[r]] /\ ret'[r] \in RetRow /\ ret'[r].pc # "idle"

\* Nothing returns to "idle", so few returns now were few before.
LEMMA FewBefore ==
    ASSUME NEW r \in Returns, ReturnTypes,
           RetStep(r)
    PROVE  /\ \A q \in Returns \ {r} : ret'[q] = ret[q]
           /\ ret' \in [Returns -> RetRow]
           /\ Paired' => Paired
           /\ Alone' => Alone /\ \A q \in Returns \ {r} : ret[q].pc = "idle"
<1>1. ret'[r].pc # "idle" /\ \A q \in Returns \ {r} : ret'[q] = ret[q]
  BY DEF RetStep, ReturnTypes
<1>2. ret' \in [Returns -> RetRow]
  BY DEF RetStep, ReturnTypes
<1>3. Paired' => Paired
  BY <1>1 DEF Paired
<1>4. Alone' => Alone /\ \A q \in Returns \ {r} : ret[q].pc = "idle"
  BY <1>1 DEF Alone
<1> QED
  BY <1>1, <1>2, <1>3, <1>4

\* What has to be shown of a step of r beyond what it looks like to the others.
LEMMA StepInv ==
    ASSUME ReturnInv, NEW r \in Returns, RetStep(r),
           archive' = archive, target' \in Dir,
           stage' \in [Returns -> Dir], aside' \in [Returns -> Dir],
           \A q \in Returns \ {r} : stage'[q] = stage[q] /\ aside'[q] = aside[q],
           DirsSound', PairSound',
           FromChecked(r)', OwnPlaces(r)', Alone => AloneSound(r)'
    PROVE  ReturnInv'
<1>1. /\ \A q \in Returns \ {r} : ret'[q] = ret[q]
      /\ ret' \in [Returns -> RetRow]
      /\ Alone' => Alone /\ \A q \in Returns \ {r} : ret[q].pc = "idle"
  BY FewBefore DEF ReturnInv
<1>2. ReturnTypes'
  BY <1>1 DEF ReturnInv, ReturnTypes
<1>3. \A q \in Returns : FromChecked(q)' /\ OwnPlaces(q)'
  <2> TAKE q \in Returns
  <2>1. CASE q = r
    BY <2>1
  <2>2. CASE q # r
    <3>1. ret'[q] = ret[q] /\ stage'[q] = stage[q] /\ aside'[q] = aside[q]
      BY <1>1, <2>2
    <3>2. FromChecked(q)'
      BY <3>1 DEF ReturnInv, FromChecked
    <3>3. OwnPlaces(q)'
      BY <3>1 DEF ReturnInv, OwnPlaces
    <3> QED
      BY <3>2, <3>3
  <2> QED
    BY <2>1, <2>2
<1>4. ASSUME Alone', NEW q \in Returns PROVE AloneSound(q)'
  <2>1. CASE q = r
    BY <1>1, <1>4, <2>1
  <2>2. CASE q # r
    <3>1. ret'[q].pc = "idle"
      BY <1>1, <1>4, <2>2
    <3> QED
      BY <3>1 DEF AloneSound, Placed
  <2> QED
    BY <2>1, <2>2
<1> QED
  BY <1>2, <1>3, <1>4 DEF ReturnInv

\* A step that moves no workspace.
LEMMA PairKept ==
    ASSUME ReturnInv, Paired' => Paired, aside' = aside,
           \A q \in Returns : /\ q \in target'.has <=> q \in target.has
                              /\ ret'[q].published = ret[q].published
                              /\ ret'[q].published /\ ret'[q].pc \in Placed => ret[q].pc \in Placed
                              /\ ret'[q].published /\ ret'[q].pc = "done"
                                    => ret[q].pc \in Placed \cup {"done"}
    PROVE  PairSound'
<1>1. ASSUME Paired', NEW p \in Returns, NEW q \in Returns, p # q PROVE Overtaken(p, q)'
  <2>1. Overtaken(p, q)
    BY <1>1 DEF ReturnInv, PairSound
  <2>2. p \in target'.has <=> p \in target.has
    OBVIOUS
  <2> QED
    BY <2>1, <2>2 DEF Overtaken
<1>2. ASSUME Paired', NEW q \in Returns PROVE LostToOther(q)'
  <2>1. LostToOther(q)
    BY <1>2 DEF ReturnInv, PairSound
  <2>2. KeptSomewhere(q) => KeptSomewhere(q)'
    BY DEF KeptSomewhere
  <2>3. ret'[q].published /\ ret'[q].pc \in Placed \cup {"done"}
           => ret[q].published /\ ret[q].pc \in Placed \cup {"done"}
    OBVIOUS
  <2> QED
    BY <2>1, <2>2, <2>3 DEF LostToOther
<1> QED
  BY <1>1, <1>2 DEF PairSound

\* A step that leaves the target and the directories moved aside as they are.
LEMMA SameDirs ==
    ASSUME ReturnInv, NEW r \in Returns, RetStep(r), target' = target, aside' = aside,
           ret'[r].published = ret[r].published,
           ret'[r].published /\ ret'[r].pc \in Placed \cup {"done"} => ret[r].pc \in Placed
    PROVE  DirsSound' /\ PairSound'
<1>1. /\ \A q \in Returns \ {r} : ret'[q] = ret[q]
      /\ Paired' => Paired
  BY FewBefore DEF ReturnInv
<1>2. \A q \in Returns : ret'[q].published = ret[q].published
  BY <1>1
<1>3. DirsSound'
  BY <1>2 DEF ReturnInv, DirsSound, DirSound
<1>4. PairSound'
  BY <1>1, <1>2, PairKept
<1> QED
  BY <1>3, <1>4

\* A return looks, and the directories stay as they are.
LEMMA LooksInv ==
    ASSUME ReturnInv, NEW r \in Returns, RetStep(r), LooksOnly,
           ret'[r].published = ret[r].published,
           ret'[r].published /\ ret'[r].pc \in Placed \cup {"done"} => ret[r].pc \in Placed,
           FromChecked(r)', OwnPlaces(r)', Alone => AloneSound(r)'
    PROVE  ReturnInv'
<1>1. DirsSound' /\ PairSound'
  BY SameDirs DEF LooksOnly
<1> QED
  BY <1>1, StepInv DEF LooksOnly, ReturnInv, ReturnTypes

ReturnPCs == ReturnRunning \cup ReturnEnded

\* A return that moves on keeps the rest of its row.
LEMMA GoRow ==
    ASSUME ReturnInv, NEW r \in Returns, NEW next \in ReturnPCs, ReturnGo(r, next)
    PROVE  RetStep(r) /\ ret'[r] = [ret[r] EXCEPT !.pc = next]
<1>1. ret'[r] = [ret[r] EXCEPT !.pc = next] /\ ret[r] \in RetRow
  BY DEF ReturnInv, ReturnTypes, ReturnGo
<1>2. ret' = [ret EXCEPT ![r] = ret'[r]]
  BY <1>1 DEF ReturnInv, ReturnTypes, ReturnGo
<1>3. next # "idle" /\ ret'[r] \in RetRow /\ ret'[r].pc = next
  BY <1>1 DEF RetRow, ReturnPCs, ReturnRunning, ReturnEnded
<1> QED
  BY <1>1, <1>2, <1>3 DEF RetStep

\* verify_backup and load_state_package: what a return keeps of the archive is sound.
LEMMA VerifiedInv ==
    ASSUME ReturnInv, NEW r \in Returns, NEW import \in BOOLEAN, Verified(r, import)
    PROVE  ReturnInv'
<1> DEFINE ok == Accepted(archive)
<1>1. archive \in Archives /\ (ok => archive \in Sound)
  BY DEF ReturnInv, ReturnTypes, Accepted, MembersOk, ChecksumsOk, ManifestOk, PayloadOk,
         Archives, Sound
<1>2. /\ ret' = [ret EXCEPT ![r] = ret'[r]] /\ ret[r] \in RetRow
      /\ ret'[r] = [ret[r] EXCEPT !.pc = IF ok THEN "verified" ELSE "refused",
                                  !.import = import,
                                  !.checked = IF ok THEN archive ELSE "none",
                                  !.staged = IF import /\ ok THEN archive ELSE "none"]
  BY DEF ReturnInv, ReturnTypes, Verified
<1>3. /\ ret'[r].pc \in {"verified", "refused"} /\ (ret'[r].pc = "verified" => ok)
      /\ ret'[r].import = import
      /\ ret'[r].existed = ret[r].existed /\ ret'[r].published = ret[r].published
      /\ ret'[r].checked = IF ok THEN archive ELSE "none"
      /\ ret'[r].staged = IF import /\ ok THEN archive ELSE "none"
      /\ ret'[r] \in RetRow
  BY <1>1, <1>2 DEF RetRow, ReturnRunning, ReturnEnded
<1>4. RetStep(r)
  BY <1>2, <1>3 DEF RetStep
<1>5. ret[r].pc = "idle" /\ LooksOnly
  BY DEF Verified
<1>6. stage[r] = Absent /\ aside[r] = Absent /\ ~ret[r].published
  BY <1>5 DEF ReturnInv, OwnPlaces, Placed
<1>7. stage'[r] = Absent /\ aside'[r] = Absent
  BY <1>5, <1>6 DEF LooksOnly
<1> HIDE DEF ok
<1>8. FromChecked(r)'
  BY <1>1, <1>3, <1>6, <1>7 DEF FromChecked, Holding, Absent, Sound
<1>9. OwnPlaces(r)'
  BY <1>3, <1>6, <1>7 DEF OwnPlaces, Holding, Placed, Absent
<1>10. AloneSound(r)'
  BY <1>3, <1>6 DEF AloneSound
<1> QED
  BY <1>3, <1>4, <1>5, <1>6, <1>8, <1>9, <1>10, LooksInv DEF Placed

\* _prepare_target and its counterpart of the package: the return learns what is at the target.
LEMMA PrepareInv ==
    ASSUME ReturnInv, NEW r \in Returns, PrepareTarget(r) \/ TargetConflicts(r)
    PROVE  ReturnInv'
<1>1. /\ ret' = [ret EXCEPT ![r] = ret'[r]] /\ ret[r] \in RetRow
      /\ ret'[r] = [ret[r] EXCEPT !.pc = IF ~Vacant(target) THEN "refused"
                                         ELSE IF ret[r].import THEN "stage" ELSE "read",
                                  !.existed = target.there]
      /\ ret[r].pc = "verified" /\ LooksOnly /\ target.there \in BOOLEAN
  BY DEF ReturnInv, ReturnTypes, PrepareTarget, TargetConflicts, Dir
<1>2. /\ ret'[r].pc = IF ~Vacant(target) THEN "refused"
                      ELSE IF ret[r].import THEN "stage" ELSE "read"
      /\ ret'[r].existed = target.there
      /\ ret'[r].import = ret[r].import /\ ret'[r].published = ret[r].published
      /\ ret'[r].checked = ret[r].checked /\ ret'[r].staged = ret[r].staged
      /\ ret'[r] \in RetRow
  BY <1>1 DEF RetRow, ReturnRunning, ReturnEnded
<1>3. RetStep(r)
  BY <1>1, <1>2 DEF RetStep
<1>4. stage[r] = Absent /\ aside[r] = Absent /\ ~ret[r].published
  BY <1>1 DEF ReturnInv, OwnPlaces, Placed
<1>5. stage'[r] = Absent /\ aside'[r] = Absent /\ target' = target
  BY <1>1, <1>4 DEF LooksOnly
<1>6. FromChecked(r)'
  BY <1>1, <1>2, <1>4, <1>5 DEF ReturnInv, FromChecked, Holding, Absent
<1>7. OwnPlaces(r)'
  BY <1>2, <1>4, <1>5 DEF OwnPlaces, Holding, Placed, Absent
<1>8. AloneSound(r)'
  BY <1>2, <1>4, <1>5 DEF AloneSound
<1> QED
  BY <1>1, <1>2, <1>3, <1>4, <1>6, <1>7, <1>8, LooksInv DEF Placed

\* The archive is read a second time, after it was verified.
LEMMA ReadAgainInv ==
    ASSUME ReturnInv, NEW r \in Returns, ReadAgain(r)
    PROVE  ReturnInv'
<1>1. /\ ret' = [ret EXCEPT ![r] = ret'[r]] /\ ret[r] \in RetRow /\ archive \in Archives
      /\ ret'[r] = [ret[r] EXCEPT !.pc = IF SameDigest(r) THEN "stage" ELSE "refused",
                                  !.staged = IF SameDigest(r) THEN archive ELSE "none"]
      /\ ret[r].pc = "read" /\ LooksOnly
  BY DEF ReturnInv, ReturnTypes, ReadAgain
<1>2. /\ ret'[r].pc = IF SameDigest(r) THEN "stage" ELSE "refused"
      /\ ret'[r].staged = IF SameDigest(r) THEN archive ELSE "none"
      /\ ret'[r].existed = ret[r].existed
      /\ ret'[r].import = ret[r].import /\ ret'[r].published = ret[r].published
      /\ ret'[r].checked = ret[r].checked
      /\ ret'[r] \in RetRow
  BY <1>1 DEF RetRow, ReturnRunning, ReturnEnded
<1>3. RetStep(r)
  BY <1>1, <1>2 DEF RetStep
<1>4. stage[r] = Absent /\ aside[r] = Absent /\ ~ret[r].published
  BY <1>1 DEF ReturnInv, OwnPlaces, Placed
<1>5. stage'[r] = Absent /\ aside'[r] = Absent /\ target' = target
  BY <1>1, <1>4 DEF LooksOnly
<1>6. FromChecked(r)'
  BY <1>1, <1>2, <1>4, <1>5 DEF ReturnInv, FromChecked, SameDigest, Holding, Absent, Sound
<1>7. OwnPlaces(r)'
  BY <1>2, <1>4, <1>5 DEF OwnPlaces, Holding, Placed, Absent
<1>8. Alone => AloneSound(r)'
  BY <1>1, <1>2, <1>4, <1>5 DEF ReturnInv, AloneSound
<1> QED
  BY <1>1, <1>2, <1>3, <1>4, <1>6, <1>7, <1>8, LooksInv DEF Placed

\* A look that only moves r on.
LEMMA GoLooks ==
    ASSUME ReturnInv, NEW r \in Returns, NEW next \in ReturnPCs, ReturnGo(r, next), LooksOnly,
           ret[r].published /\ next \in Placed \cup {"done"} => ret[r].pc \in Placed,
           next \notin {"verified", "read", "stage"},
           next \in Holding => ret[r].pc \in Holding,
           OwnPlaces(r)', Alone => AloneSound(r)'
    PROVE  ReturnInv'
<1>1. RetStep(r) /\ ret'[r] = [ret[r] EXCEPT !.pc = next]
  BY GoRow
<1>2. ret[r] \in RetRow
  BY DEF ReturnInv, ReturnTypes
<1>3. /\ ret'[r].pc = next /\ ret'[r].import = ret[r].import
      /\ ret'[r].published = ret[r].published /\ ret'[r].checked = ret[r].checked
      /\ ret'[r].staged = ret[r].staged
  BY <1>1, <1>2 DEF RetRow
<1>4. FromChecked(r)'
  BY <1>3 DEF ReturnInv, FromChecked, LooksOnly
<1> QED
  BY <1>1, <1>3, <1>4, LooksInv

\* The row of a return that moves on, field by field.
LEMMA GoFields ==
    ASSUME ReturnInv, NEW r \in Returns, NEW next \in ReturnPCs, ReturnGo(r, next)
    PROVE  /\ ret'[r].pc = next /\ ret'[r].import = ret[r].import
           /\ ret'[r].existed = ret[r].existed /\ ret'[r].published = ret[r].published
           /\ ret'[r].checked = ret[r].checked /\ ret'[r].staged = ret[r].staged
<1>1. ret'[r] = [ret[r] EXCEPT !.pc = next] /\ ret[r] \in RetRow
  BY GoRow DEF ReturnInv, ReturnTypes
<1> QED
  BY <1>1 DEF RetRow

\* The staged workspace is validated.
LEMMA ValidateInv == ASSUME ReturnInv, NEW r \in Returns, Validate(r) PROVE ReturnInv'
<1> DEFINE next == "check"
<1>1. next \in ReturnPCs /\ ReturnGo(r, next) /\ LooksOnly
  BY DEF Validate, ReturnPCs, ReturnRunning, ReturnEnded
<1>2. /\ stage'[r] = stage[r] /\ aside'[r] = aside[r] /\ target' = target
      /\ OwnPlaces(r) /\ (Alone => AloneSound(r))
  BY <1>1 DEF LooksOnly, ReturnInv
<1>3. /\ ret'[r].pc = next /\ ret'[r].import = ret[r].import
      /\ ret'[r].existed = ret[r].existed /\ ret'[r].published = ret[r].published
  BY <1>1, GoFields
<1>4. OwnPlaces(r)'
  BY <1>2, <1>3 DEF OwnPlaces, Validate, Holding, Placed
<1>5. Alone => AloneSound(r)'
  BY <1>2, <1>3 DEF AloneSound, OwnPlaces, Validate, Holding, Placed
<1>6. /\ next \notin {"verified", "read", "stage"} /\ (next \in Holding => ret[r].pc \in Holding)
      /\ (ret[r].published /\ next \in Placed \cup {"done"} => ret[r].pc \in Placed)
  BY <1>2 DEF OwnPlaces, Validate, Holding, Placed
<1> HIDE DEF next
<1> QED
  BY <1>1, <1>4, <1>5, <1>6, GoLooks

\* The target is looked at again before anything is moved.
LEMMA CheckInv == ASSUME ReturnInv, NEW r \in Returns, Check(r) PROVE ReturnInv'
<1> DEFINE next == IF target.there THEN "moveAside" ELSE "replace"
<1>1. next \in ReturnPCs /\ ReturnGo(r, next) /\ LooksOnly
  BY DEF Check, ReturnPCs, ReturnRunning, ReturnEnded
<1>2. /\ stage'[r] = stage[r] /\ aside'[r] = aside[r] /\ target' = target
      /\ OwnPlaces(r) /\ (Alone => AloneSound(r))
  BY <1>1 DEF LooksOnly, ReturnInv
<1>3. /\ ret'[r].pc = next /\ ret'[r].import = ret[r].import
      /\ ret'[r].existed = ret[r].existed /\ ret'[r].published = ret[r].published
  BY <1>1, GoFields
<1>4. OwnPlaces(r)'
  BY <1>2, <1>3 DEF OwnPlaces, Check, Holding, Placed
<1>5. Alone => AloneSound(r)'
  BY <1>2, <1>3 DEF AloneSound, OwnPlaces, Check, Holding, Placed, TargetAsFound, Vacant, ReturnTypes, Dir
<1>6. /\ next \notin {"verified", "read", "stage"} /\ (next \in Holding => ret[r].pc \in Holding)
      /\ (ret[r].published /\ next \in Placed \cup {"done"} => ret[r].pc \in Placed)
  BY <1>2 DEF OwnPlaces, Check, Holding, Placed
<1> HIDE DEF next
<1> QED
  BY <1>1, <1>4, <1>5, <1>6, GoLooks

\* A published workspace is settled: the published flag is already set.
LEMMA SettleInv == ASSUME ReturnInv, NEW r \in Returns, ReturnSettle(r) PROVE ReturnInv'
<1> DEFINE next == IF ret[r].import THEN "cleanup" ELSE "fresh"
<1>1. next \in ReturnPCs /\ ReturnGo(r, next) /\ LooksOnly
  BY DEF ReturnSettle, ReturnPCs, ReturnRunning, ReturnEnded
<1>2. /\ stage'[r] = stage[r] /\ aside'[r] = aside[r] /\ target' = target
      /\ OwnPlaces(r) /\ (Alone => AloneSound(r))
  BY <1>1 DEF LooksOnly, ReturnInv
<1>3. /\ ret'[r].pc = next /\ ret'[r].import = ret[r].import
      /\ ret'[r].existed = ret[r].existed /\ ret'[r].published = ret[r].published
  BY <1>1, GoFields
<1>4. OwnPlaces(r)'
  BY <1>2, <1>3 DEF OwnPlaces, ReturnSettle, Holding, Placed
<1>5. Alone => AloneSound(r)'
  BY <1>2, <1>3 DEF AloneSound, OwnPlaces, ReturnSettle, Holding, Placed, ReturnTypes, RetRow
<1>6. /\ next \notin {"verified", "read", "stage"} /\ (next \in Holding => ret[r].pc \in Holding)
      /\ (ret[r].published /\ next \in Placed \cup {"done"} => ret[r].pc \in Placed)
  BY <1>2 DEF OwnPlaces, ReturnSettle, Holding, Placed
<1> HIDE DEF next
<1> QED
  BY <1>1, <1>4, <1>5, <1>6, GoLooks

\* A restored workspace whose identity is looked at again.
LEMMA FreshInv == ASSUME ReturnInv, NEW r \in Returns, Fresh(r) PROVE ReturnInv'
<1> DEFINE next == "cleanup"
<1>1. next \in ReturnPCs /\ ReturnGo(r, next) /\ LooksOnly
  BY DEF Fresh, ReturnPCs, ReturnRunning, ReturnEnded
<1>2. /\ stage'[r] = stage[r] /\ aside'[r] = aside[r] /\ target' = target
      /\ OwnPlaces(r) /\ (Alone => AloneSound(r))
  BY <1>1 DEF LooksOnly, ReturnInv
<1>3. /\ ret'[r].pc = next /\ ret'[r].import = ret[r].import
      /\ ret'[r].existed = ret[r].existed /\ ret'[r].published = ret[r].published
  BY <1>1, GoFields
<1>4. OwnPlaces(r)'
  BY <1>2, <1>3 DEF OwnPlaces, Fresh, Holding, Placed
<1>5. Alone => AloneSound(r)'
  BY <1>2, <1>3 DEF AloneSound, OwnPlaces, Fresh, Holding, Placed
<1>6. /\ next \notin {"verified", "read", "stage"} /\ (next \in Holding => ret[r].pc \in Holding)
      /\ (ret[r].published /\ next \in Placed \cup {"done"} => ret[r].pc \in Placed)
  BY <1>2 DEF OwnPlaces, Fresh, Holding, Placed
<1> HIDE DEF next
<1> QED
  BY <1>1, <1>4, <1>5, <1>6, GoLooks

\* A return that has cleaned up is done.
LEMMA FinishInv == ASSUME ReturnInv, NEW r \in Returns, Finish(r) PROVE ReturnInv'
<1> DEFINE next == "done"
<1>1. next \in ReturnPCs /\ ReturnGo(r, next) /\ LooksOnly
  BY DEF Finish, ReturnPCs, ReturnRunning, ReturnEnded
<1>2. /\ stage'[r] = stage[r] /\ aside'[r] = aside[r] /\ target' = target
      /\ OwnPlaces(r) /\ (Alone => AloneSound(r))
  BY <1>1 DEF LooksOnly, ReturnInv
<1>3. /\ ret'[r].pc = next /\ ret'[r].import = ret[r].import
      /\ ret'[r].existed = ret[r].existed /\ ret'[r].published = ret[r].published
  BY <1>1, GoFields
<1>4. OwnPlaces(r)'
  BY <1>2, <1>3 DEF OwnPlaces, Finish, Holding, Placed
<1>5. Alone => AloneSound(r)'
  BY <1>2, <1>3 DEF AloneSound, OwnPlaces, Finish, Holding, Placed
<1>6. /\ next \notin {"verified", "read", "stage"} /\ (next \in Holding => ret[r].pc \in Holding)
      /\ (ret[r].published /\ next \in Placed \cup {"done"} => ret[r].pc \in Placed)
  BY <1>2 DEF OwnPlaces, Finish, Holding, Placed
<1> HIDE DEF next
<1> QED
  BY <1>1, <1>4, <1>5, <1>6, GoLooks

\* A step fails, and the return goes to its rollback.
LEMMA FailsInv == ASSUME ReturnInv, NEW r \in Returns, Fails(r) PROVE ReturnInv'
<1> DEFINE next == ReturnAfterFailure(r)
<1>1. next \in ReturnPCs /\ ReturnGo(r, next) /\ LooksOnly
  BY DEF Fails, ReturnPCs, ReturnRunning, ReturnEnded, ReturnAfterFailure
<1>2. /\ stage'[r] = stage[r] /\ aside'[r] = aside[r] /\ target' = target
      /\ OwnPlaces(r) /\ (Alone => AloneSound(r))
  BY <1>1 DEF LooksOnly, ReturnInv
<1>3. /\ ret'[r].pc = next /\ ret'[r].import = ret[r].import
      /\ ret'[r].existed = ret[r].existed /\ ret'[r].published = ret[r].published
  BY <1>1, GoFields
<1>4. OwnPlaces(r)'
  BY <1>2, <1>3 DEF OwnPlaces, Fails, Holding, Placed, ReturnAfterFailure, ReturnRunning, ReturnInv, ReturnTypes, Dir, DirsSound, DirSound
<1>5. ASSUME Alone PROVE AloneSound(r)'
  <2>1. AloneSound(r) /\ (ret[r].published \/ r \notin target.has)
    BY <1>2, <1>5 DEF ReturnInv, DirsSound, DirSound
  <2>2. CASE next = "refused"
    BY <1>3, <2>2 DEF AloneSound, Placed
  <2>3. CASE next = "undoTarget"
    <3>1. ret[r].published => r \in target.has
      BY <1>2, <2>1, <2>3 DEF AloneSound, OwnPlaces, Placed, Fails, ReturnRunning
    <3>2. ret[r].existed /\ ret[r].import /\ ret[r].published => aside[r].there
      BY <1>2, <2>1, <2>3 DEF AloneSound, OwnPlaces, Placed, Fails, ReturnRunning
    <3>3. ret[r].published \/ aside[r].there
      BY <2>3 DEF ReturnAfterFailure
    <3> QED
      BY <1>2, <1>3, <2>3, <3>1, <3>2, <3>3 DEF AloneSound
  <2>4. CASE next = "undoStage"
    <3>1. ~ret[r].published /\ ~aside[r].there
      BY <2>4 DEF ReturnAfterFailure
    <3>2. ret[r].pc \in {"stage", "validate", "check", "moveAside", "replace"}
      BY <1>2, <2>4, <3>1 DEF OwnPlaces, Placed, Fails, ReturnRunning, ReturnAfterFailure
    <3>3. ret[r].existed => target.there
      BY <2>1, <3>1, <3>2 DEF AloneSound
    <3> QED
      BY <1>2, <1>3, <2>1, <2>4, <3>1, <3>3 DEF AloneSound, Placed
  <2> QED
    BY <2>2, <2>3, <2>4 DEF ReturnAfterFailure
<1>6. /\ next \notin {"verified", "read", "stage"} /\ (next \in Holding => ret[r].pc \in Holding)
      /\ (ret[r].published /\ next \in Placed \cup {"done"} => ret[r].pc \in Placed)
  BY <1>2 DEF OwnPlaces, Fails, Holding, Placed, ReturnAfterFailure, ReturnRunning
<1> HIDE DEF next
<1> QED
  BY <1>1, <1>4, <1>5, <1>6, GoLooks

\* A return crashes and leaves its directories where they are.
LEMMA CrashInv == ASSUME ReturnInv, NEW r \in Returns, ReturnCrash(r) PROVE ReturnInv'
<1> DEFINE next == "crashed"
<1>1. next \in ReturnPCs /\ ReturnGo(r, next) /\ LooksOnly
  BY DEF ReturnCrash, ReturnPCs, ReturnRunning, ReturnEnded
<1>2. /\ stage'[r] = stage[r] /\ aside'[r] = aside[r] /\ target' = target
      /\ OwnPlaces(r) /\ (Alone => AloneSound(r))
  BY <1>1 DEF LooksOnly, ReturnInv
<1>3. /\ ret'[r].pc = next /\ ret'[r].import = ret[r].import
      /\ ret'[r].existed = ret[r].existed /\ ret'[r].published = ret[r].published
  BY <1>1, GoFields
<1>4. OwnPlaces(r)'
  BY <1>2, <1>3 DEF OwnPlaces, ReturnCrash, Holding, Placed
<1>5. Alone => AloneSound(r)'
  BY <1>2, <1>3 DEF AloneSound, OwnPlaces, ReturnCrash, Holding, Placed
<1>6. /\ next \notin {"verified", "read", "stage"} /\ (next \in Holding => ret[r].pc \in Holding)
      /\ (ret[r].published /\ next \in Placed \cup {"done"} => ret[r].pc \in Placed)
  BY <1>2 DEF OwnPlaces, ReturnCrash, Holding, Placed
<1> HIDE DEF next
<1> QED
  BY <1>1, <1>4, <1>5, <1>6, GoLooks

-----------------------------------------------------------------------------
\* A return extracts the archive into its staging directory.
LEMMA BuildInv == ASSUME ReturnInv, NEW r \in Returns, Build(r) PROVE ReturnInv'
<1>1. "validate" \in ReturnPCs /\ ReturnGo(r, "validate") /\ ret[r].pc = "stage"
  BY DEF Build, ReturnPCs, ReturnRunning
<1>2. /\ ret'[r].pc = "validate" /\ ret'[r].import = ret[r].import
      /\ ret'[r].existed = ret[r].existed /\ ret'[r].published = ret[r].published
      /\ ret'[r].checked = ret[r].checked /\ ret'[r].staged = ret[r].staged
  BY <1>1, GoFields
<1>3. RetStep(r)
  BY <1>1, GoRow
<1>4. /\ target' = target /\ aside' = aside /\ archive' = archive
      /\ stage' = [stage EXCEPT ![r] = StagedBy(r)]
      /\ target \in Dir /\ aside \in [Returns -> Dir]
  BY DEF Build, StagedBy, ReturnInv, ReturnTypes
<1>5. StagedBy(r) \in Dir
  BY DEF StagedBy, Dir
<1>6. /\ stage' \in [Returns -> Dir] /\ stage'[r] = StagedBy(r)
      /\ \A q \in Returns \ {r} : stage'[q] = stage[q]
  BY <1>4, <1>5 DEF ReturnInv, ReturnTypes
<1>7. aside[r] = Absent /\ ~ret[r].published /\ ret[r].staged # "none"
  BY <1>1 DEF ReturnInv, OwnPlaces, FromChecked, Placed
<1>8. DirsSound' /\ PairSound'
  BY <1>2, <1>3, <1>4, <1>7, SameDirs
<1>9. FromChecked(r)'
  BY <1>2, <1>7 DEF ReturnInv, FromChecked
<1>10. OwnPlaces(r)'
  BY <1>2, <1>4, <1>6, <1>7 DEF OwnPlaces, Holding, Placed, Absent, StagedBy
<1>11. Alone => AloneSound(r)'
  BY <1>1, <1>2, <1>4, <1>7 DEF ReturnInv, AloneSound
<1> QED
  BY <1>3, <1>4, <1>6, <1>8, <1>9, <1>10, <1>11, StepInv

\* The end of a rollback: the staging directory may go.
LEMMA UndoLast ==
    ASSUME ReturnInv, NEW r \in Returns, UndoStage(r) \/ UndoFails(r)
    PROVE  ReturnInv'
<1> DEFINE next == IF UndoStage(r) THEN "failed" ELSE "rollbackError"
<1>1. /\ next \in ReturnPCs /\ ReturnGo(r, next)
      /\ stage' = stage \/ stage' = [stage EXCEPT ![r] = Absent]
      /\ target' = target /\ aside' = aside /\ archive' = archive
      /\ ret[r].pc \in {"undoStage", "undoTarget", "undoAside"}
  BY DEF UndoStage, UndoFails, ReturnPCs, ReturnEnded
<1>2. /\ ret'[r].pc = next /\ ret'[r].import = ret[r].import
      /\ ret'[r].existed = ret[r].existed /\ ret'[r].published = ret[r].published
      /\ ret'[r].checked = ret[r].checked /\ ret'[r].staged = ret[r].staged
  BY <1>1, GoFields
<1>3. RetStep(r)
  BY <1>1, GoRow
<1>4. Absent \in Dir /\ ~Absent.there
  BY DEF Absent, Dir
<1>5. /\ stage' \in [Returns -> Dir] /\ stage'[r] \in {stage[r], Absent}
      /\ \A q \in Returns \ {r} : stage'[q] = stage[q]
  BY <1>1, <1>4 DEF ReturnInv, ReturnTypes
<1>6. next = "failed" => ret[r].pc = "undoStage" /\ (~ret[r].import => stage'[r] = Absent)
  BY <1>4 DEF UndoStage, ReturnInv, ReturnTypes
<1>7. target \in Dir /\ aside \in [Returns -> Dir]
  BY DEF ReturnInv, ReturnTypes
<1>8. DirsSound' /\ PairSound'
  BY <1>1, <1>2, <1>3, SameDirs DEF Placed
<1>9. FromChecked(r)'
  BY <1>2, <1>4, <1>5 DEF ReturnInv, FromChecked, Holding
<1>10. OwnPlaces(r)'
  BY <1>1, <1>2, <1>5, <1>6 DEF ReturnInv, OwnPlaces, Holding, Placed
<1>11. Alone => AloneSound(r)'
  BY <1>1, <1>2, <1>6 DEF ReturnInv, AloneSound, Placed
<1> QED
  BY <1>1, <1>3, <1>5, <1>7, <1>8, <1>9, <1>10, <1>11, StepInv

\* A workspace or its return is not idle.
LEMMA NotIdle ==
    ASSUME ReturnInv, NEW q \in Returns, ret[q].published \/ aside[q] # Absent
    PROVE  ret[q].pc # "idle"
BY DEF ReturnInv, OwnPlaces, Placed

\* What is at the target is renamed to the return's own name.
LEMMA MoveAsideInv == ASSUME ReturnInv, NEW r \in Returns, MoveAside(r) PROVE ReturnInv'
<1>1. "replace" \in ReturnPCs /\ ReturnGo(r, "replace") /\ ret[r].pc = "moveAside"
  BY DEF MoveAside, ReturnPCs, ReturnRunning
<1>2. /\ ret'[r].pc = "replace" /\ ret'[r].import = ret[r].import
      /\ ret'[r].existed = ret[r].existed /\ ret'[r].published = ret[r].published
      /\ ret'[r].checked = ret[r].checked /\ ret'[r].staged = ret[r].staged
  BY <1>1, GoFields
<1>3. RetStep(r)
  BY <1>1, GoRow
<1>4. /\ target' = Absent /\ stage' = stage /\ archive' = archive /\ target.there
      /\ aside' = [aside EXCEPT ![r] = target]
  BY DEF MoveAside
<1>5. /\ Absent \in Dir /\ target \in Dir /\ stage \in [Returns -> Dir]
      /\ aside \in [Returns -> Dir]
  BY DEF Absent, Dir, ReturnInv, ReturnTypes
<1>6. /\ aside' \in [Returns -> Dir] /\ aside'[r] = target
      /\ \A q \in Returns \ {r} : aside'[q] = aside[q]
  BY <1>4, <1>5
<1>7. aside[r] = Absent /\ ~ret[r].published /\ stage[r] = StagedBy(r)
  BY <1>1 DEF ReturnInv, OwnPlaces, Placed, Holding
<1>8. r \notin target.has /\ DirSound(target)
  BY <1>7 DEF ReturnInv, DirsSound, DirSound
<1>9. /\ Paired' => Paired
      /\ \A q \in Returns \ {r} : ret'[q] = ret[q]
      /\ \A q \in Returns : ret'[q].published = ret[q].published
  BY <1>2, <1>3, FewBefore DEF ReturnInv
<1>10. DirsSound'
  <2>1. DirSound(target)'
    BY <1>4 DEF DirSound, Absent
  <2>2. ASSUME NEW q \in Returns PROVE DirSound(aside[q])'
    BY <1>6, <1>8, <1>9 DEF ReturnInv, DirsSound, DirSound
  <2> QED
    BY <2>1, <2>2 DEF DirsSound
<1>11. PairSound'
  <2>1. ASSUME NEW p \in Returns, NEW q \in Returns PROVE Overtaken(p, q)'
    BY <1>4 DEF Overtaken, Absent
  <2>2. ASSUME Paired', NEW q \in Returns, ret'[q].published, ret'[q].pc \in Placed \cup {"done"}
        PROVE  KeptSomewhere(q)' \/ \E s \in Returns \ {q} : s \in aside'[q].has
    <3>1. q # r /\ LostToOther(q)
      BY <1>7, <1>9, <2>2 DEF ReturnInv, PairSound
    <3>2. KeptSomewhere(q) \/ \E s \in Returns \ {q} : s \in aside[q].has
      BY <1>9, <2>2, <3>1 DEF LostToOther
    <3>3. CASE q \in target.has
      BY <1>6, <3>3 DEF KeptSomewhere
    <3>4. CASE \E s \in Returns : q \in aside[s].has
      <4>1. PICK s \in Returns : q \in aside[s].has
        BY <3>4
      <4>2. s # r
        BY <1>7, <4>1 DEF Absent
      <4> QED
        BY <1>6, <4>1, <4>2 DEF KeptSomewhere
    <3> QED
      BY <1>6, <3>1, <3>2, <3>3, <3>4 DEF KeptSomewhere
  <2> QED
    BY <2>1, <2>2 DEF PairSound, LostToOther
<1>12. FromChecked(r)'
  BY <1>1, <1>2, <1>4 DEF ReturnInv, FromChecked, Holding
<1>13. OwnPlaces(r)'
  BY <1>2, <1>4, <1>6, <1>7, <1>8 DEF OwnPlaces, Holding, Placed
<1>14. Alone => AloneSound(r)'
  BY <1>2, <1>4, <1>6, <1>7 DEF AloneSound
<1> QED
  BY <1>3, <1>4, <1>5, <1>6, <1>10, <1>11, <1>12, <1>13, <1>14, StepInv

\* What was moved aside is removed once the workspace is in place.
LEMMA CleanupInv == ASSUME ReturnInv, NEW r \in Returns, Cleanup(r) PROVE ReturnInv'
<1>1. "finish" \in ReturnPCs /\ ReturnGo(r, "finish") /\ ret[r].pc = "cleanup"
  BY DEF Cleanup, ReturnPCs, ReturnRunning
<1>2. /\ ret'[r].pc = "finish" /\ ret'[r].import = ret[r].import
      /\ ret'[r].existed = ret[r].existed /\ ret'[r].published = ret[r].published
      /\ ret'[r].checked = ret[r].checked /\ ret'[r].staged = ret[r].staged
  BY <1>1, GoFields
<1>3. RetStep(r)
  BY <1>1, GoRow
<1>4. /\ target' = target /\ stage' = stage /\ archive' = archive /\ aside[r].has = {}
      /\ aside' = [aside EXCEPT ![r] = Absent]
  BY DEF Cleanup, Vacant
<1>5. /\ Absent \in Dir /\ Absent.has = {} /\ target \in Dir
      /\ stage \in [Returns -> Dir] /\ aside \in [Returns -> Dir]
  BY DEF Absent, Dir, ReturnInv, ReturnTypes
<1>6. /\ aside' \in [Returns -> Dir] /\ aside'[r] = Absent
      /\ \A q \in Returns \ {r} : aside'[q] = aside[q]
  BY <1>4, <1>5
<1>7. \A q \in Returns : aside'[q].has = aside[q].has
  BY <1>4, <1>5, <1>6
<1>8. ret[r].published /\ stage[r] = Absent
  BY <1>1 DEF ReturnInv, OwnPlaces, Placed
<1>9. /\ Paired' => Paired
      /\ \A q \in Returns \ {r} : ret'[q] = ret[q]
      /\ \A q \in Returns : ret'[q].published = ret[q].published
  BY <1>2, <1>3, FewBefore DEF ReturnInv
<1>10. DirsSound'
  <2>1. ASSUME NEW q \in Returns PROVE DirSound(aside[q])'
    BY <1>6, <1>7, <1>9 DEF ReturnInv, DirsSound, DirSound
  <2> QED
    BY <1>4, <1>9, <2>1 DEF ReturnInv, DirsSound, DirSound
<1>11. PairSound'
  <2>1. \A q \in Returns : ret'[q].pc \in Placed \cup {"done"} => ret[q].pc \in Placed \cup {"done"}
    BY <1>1, <1>9 DEF Placed
  <2>2. \A q \in Returns : ret'[q].pc \in Placed => ret[q].pc \in Placed
    BY <1>1, <1>9 DEF Placed
  <2>3. ASSUME Paired', NEW p \in Returns, NEW q \in Returns, p # q PROVE Overtaken(p, q)'
    BY <1>4, <1>7, <1>9, <2>2, <2>3 DEF ReturnInv, PairSound, Overtaken
  <2>4. ASSUME Paired', NEW q \in Returns PROVE LostToOther(q)'
    BY <1>4, <1>7, <1>9, <2>1, <2>4 DEF ReturnInv, PairSound, LostToOther, KeptSomewhere
  <2> QED
    BY <2>3, <2>4 DEF PairSound
<1>12. FromChecked(r)'
  BY <1>2, <1>4, <1>8 DEF ReturnInv, FromChecked, Holding
<1>13. OwnPlaces(r)'
  BY <1>2, <1>4, <1>5, <1>6, <1>8 DEF OwnPlaces, Holding, Placed
<1>14. Alone => AloneSound(r)'
  BY <1>1, <1>2, <1>4, <1>8 DEF ReturnInv, AloneSound, Placed
<1> QED
  BY <1>3, <1>4, <1>5, <1>6, <1>10, <1>11, <1>12, <1>13, <1>14, StepInv

\* os.replace puts the staged workspace at the target.
LEMMA ReplaceInv == ASSUME ReturnInv, NEW r \in Returns, Replace(r) PROVE ReturnInv'
<1>1. /\ ret' = [ret EXCEPT ![r] = ret'[r]] /\ ret[r] \in RetRow
      /\ ret'[r] = [ret[r] EXCEPT !.pc = "settle", !.published = TRUE]
      /\ ret[r].pc = "replace"
  BY DEF ReturnInv, ReturnTypes, Replace
<1>2. /\ ret'[r].pc = "settle" /\ ret'[r].import = ret[r].import
      /\ ret'[r].existed = ret[r].existed /\ ret'[r].published
      /\ ret'[r].checked = ret[r].checked /\ ret'[r].staged = ret[r].staged
      /\ ret'[r] \in RetRow
  BY <1>1 DEF RetRow, ReturnRunning
<1>3. RetStep(r)
  BY <1>1, <1>2 DEF RetStep
<1>4. stage[r] = StagedBy(r) /\ ~ret[r].published
  BY <1>1 DEF ReturnInv, OwnPlaces, Placed, Holding
<1>5. /\ target' = StagedBy(r) /\ stage' = [stage EXCEPT ![r] = Absent] /\ archive' = archive
      /\ aside' = aside /\ target.has = {}
  BY <1>4 DEF Replace, Replaceable, Vacant
<1>6. /\ Absent \in Dir /\ StagedBy(r) \in Dir
      /\ stage \in [Returns -> Dir] /\ aside \in [Returns -> Dir]
      /\ target'.there /\ target'.has = {r}
  BY <1>5 DEF Absent, StagedBy, Dir, ReturnInv, ReturnTypes
<1>7. /\ stage' \in [Returns -> Dir] /\ stage'[r] = Absent
      /\ \A q \in Returns \ {r} : stage'[q] = stage[q]
  BY <1>5, <1>6
<1>8. /\ Paired' => Paired
      /\ \A q \in Returns \ {r} : ret'[q] = ret[q]
      /\ \A q \in Returns : ret[q].published => ret'[q].published
  BY <1>2, <1>3, FewBefore DEF ReturnInv
<1>9. DirsSound'
  <2>1. DirSound(target)'
    BY <1>2, <1>6, ReturnAssumption DEF DirSound
  <2>2. ASSUME NEW q \in Returns PROVE DirSound(aside[q])'
    BY <1>5, <1>8 DEF ReturnInv, DirsSound, DirSound
  <2> QED
    BY <2>1, <2>2 DEF DirsSound
<1>10. PairSound'
  <2>1. ASSUME Paired', NEW q \in Returns, q # r, ret[q].published,
               ret[q].pc \in Placed \cup {"done"}
        PROVE  q \in aside[r].has \/ \E s \in Returns \ {q} : s \in aside[q].has
    <3>1. LostToOther(q)
      BY <1>8, <2>1 DEF ReturnInv, PairSound
    <3>2. SUFFICES ASSUME NEW s \in Returns, q \in aside[s].has PROVE q \in aside[r].has
      BY <1>5, <2>1, <3>1, <3>2 DEF LostToOther, KeptSomewhere
    <3>3. s # q
      BY <3>2 DEF ReturnInv, OwnPlaces
    <3>4. ret[s].pc # "idle" /\ ret[q].pc # "idle"
      BY <2>1, <3>2, NotIdle DEF Absent
    <3>5. s = r
      BY <1>1, <1>8, <2>1, <3>3, <3>4 DEF Paired
    <3> QED
      BY <3>2, <3>5
  <2>2. ASSUME Paired', NEW q \in Returns, q # r, ret[q].published,
               ret[q].pc \in Placed \cup {"done"}
        PROVE  q \in aside[r].has
    <3>1. SUFFICES ASSUME NEW s \in Returns \ {q}, s \in aside[q].has PROVE FALSE
      BY <2>1, <2>2
    <3>2. ret[s].published /\ s # r
      BY <1>4, <3>1 DEF ReturnInv, DirsSound, DirSound
    <3>3. ret[s].pc # "idle" /\ ret[q].pc # "idle"
      BY <2>2, <3>2, NotIdle
    <3> QED
      BY <1>1, <1>8, <2>2, <3>1, <3>2, <3>3 DEF Paired
  <2>3. ASSUME Paired', NEW p \in Returns, NEW q \in Returns, p # q PROVE Overtaken(p, q)'
    BY <1>5, <1>6, <1>8, <2>2, <2>3 DEF Overtaken
  <2>4. ASSUME Paired', NEW q \in Returns PROVE LostToOther(q)'
    BY <1>5, <1>6, <1>8, <2>2, <2>4 DEF LostToOther, KeptSomewhere
  <2> QED
    BY <2>3, <2>4 DEF PairSound
<1>11. FromChecked(r)'
  BY <1>1, <1>2 DEF ReturnInv, FromChecked, Holding
<1>12. OwnPlaces(r)'
  BY <1>2, <1>5, <1>7 DEF ReturnInv, OwnPlaces, Holding, Placed
<1>13. Alone => AloneSound(r)'
  BY <1>1, <1>2, <1>5, <1>6 DEF ReturnInv, AloneSound
<1> QED
  BY <1>3, <1>5, <1>6, <1>7, <1>9, <1>10, <1>11, <1>12, <1>13, StepInv

\* The rollback removes what is at the target, whoever put it there.
LEMMA UndoTargetInv == ASSUME ReturnInv, NEW r \in Returns, UndoTarget(r) PROVE ReturnInv'
<1>1. "undoAside" \in ReturnPCs /\ ReturnGo(r, "undoAside") /\ ret[r].pc = "undoTarget"
  BY DEF UndoTarget, ReturnPCs, ReturnRunning
<1>2. /\ ret'[r].pc = "undoAside" /\ ret'[r].import = ret[r].import
      /\ ret'[r].existed = ret[r].existed /\ ret'[r].published = ret[r].published
      /\ ret'[r].checked = ret[r].checked /\ ret'[r].staged = ret[r].staged
  BY <1>1, GoFields
<1>3. RetStep(r)
  BY <1>1, GoRow
<1>4. /\ target' = IF ret[r].published THEN Absent ELSE target
      /\ stage' = stage /\ aside' = aside /\ archive' = archive
  BY DEF UndoTarget
<1>5. /\ Absent \in Dir /\ Absent.has = {} /\ target \in Dir /\ target' \in Dir
      /\ stage \in [Returns -> Dir] /\ aside \in [Returns -> Dir]
  BY <1>4 DEF Absent, Dir, ReturnInv, ReturnTypes
<1>6. /\ Paired' => Paired
      /\ \A q \in Returns \ {r} : ret'[q] = ret[q]
      /\ \A q \in Returns : ret'[q].published = ret[q].published
  BY <1>2, <1>3, FewBefore DEF ReturnInv
<1>7. r \notin target'.has
  BY <1>4, <1>5 DEF ReturnInv, DirsSound, DirSound
<1>8. DirsSound'
  BY <1>4, <1>5, <1>6 DEF ReturnInv, DirsSound, DirSound
<1>9. PairSound'
  <2>1. ASSUME Paired', NEW p \in Returns, NEW q \in Returns, p # q PROVE Overtaken(p, q)'
    <3>1. Overtaken(p, q)
      BY <1>6, <2>1 DEF ReturnInv, PairSound
    <3>2. ret'[q].pc \in Placed => ret'[q] = ret[q]
      BY <1>2, <1>6 DEF Placed
    <3>3. p \in target'.has => p \in target.has
      BY <1>4, <1>5
    <3> QED
      BY <1>4, <3>1, <3>2, <3>3 DEF Overtaken
  <2>2. ASSUME Paired', NEW q \in Returns, ret'[q].published, ret'[q].pc \in Placed \cup {"done"}
        PROVE  KeptSomewhere(q)' \/ \E s \in Returns \ {q} : s \in aside'[q].has
    <3>1. q # r /\ ret'[q] = ret[q]
      BY <1>2, <1>6, <2>2 DEF Placed
    <3>2. LostToOther(q) /\ Overtaken(q, r)
      BY <1>6, <2>2, <3>1 DEF ReturnInv, PairSound
    <3>3. KeptSomewhere(q) \/ \E s \in Returns \ {q} : s \in aside[q].has
      BY <2>2, <3>1, <3>2 DEF LostToOther
    <3>4. CASE q \in target.has /\ ret[r].published
      <4>1. r \in aside[q].has
        BY <1>1, <3>2, <3>4 DEF Overtaken, Placed
      <4> QED
        BY <1>4, <3>1, <4>1
    <3> QED
      BY <1>4, <3>3, <3>4 DEF KeptSomewhere
  <2> QED
    BY <2>1, <2>2 DEF PairSound, LostToOther
<1>10. FromChecked(r)'
  BY <1>2, <1>4 DEF ReturnInv, FromChecked, Holding
<1>11. OwnPlaces(r)'
  BY <1>1, <1>2, <1>4 DEF ReturnInv, OwnPlaces, Holding, Placed
<1>12. Alone => AloneSound(r)'
  BY <1>1, <1>2, <1>4, <1>7 DEF ReturnInv, AloneSound, Placed
<1> QED
  BY <1>3, <1>4, <1>5, <1>8, <1>9, <1>10, <1>11, <1>12, StepInv

\* The rollback puts back what it had moved aside.
LEMMA UndoAsideInv == ASSUME ReturnInv, NEW r \in Returns, UndoAside(r) PROVE ReturnInv'
<1>1. "undoStage" \in ReturnPCs /\ ReturnGo(r, "undoStage") /\ ret[r].pc = "undoAside"
  BY DEF UndoAside, ReturnPCs, ReturnRunning
<1>2. /\ ret'[r].pc = "undoStage" /\ ret'[r].import = ret[r].import
      /\ ret'[r].existed = ret[r].existed /\ ret'[r].published = ret[r].published
      /\ ret'[r].checked = ret[r].checked /\ ret'[r].staged = ret[r].staged
  BY <1>1, GoFields
<1>3. RetStep(r)
  BY <1>1, GoRow
<1>4. /\ stage' = stage /\ archive' = archive
      /\ \/ /\ aside[r].there /\ target.has = {}
            /\ target' = aside[r] /\ aside' = [aside EXCEPT ![r] = Absent]
         \/ /\ ~aside[r].there /\ aside' = aside
            /\ target' = IF ret[r].existed /\ ~ret[r].import /\ ~target.there
                         THEN Empty ELSE target
  BY DEF UndoAside, Vacant
<1>5. /\ Absent \in Dir /\ Empty \in Dir /\ Absent.has = {} /\ Empty.has = {} /\ Empty.there
      /\ target \in Dir /\ stage \in [Returns -> Dir] /\ aside \in [Returns -> Dir]
  BY DEF Absent, Empty, Dir, ReturnInv, ReturnTypes
<1>6. /\ aside' \in [Returns -> Dir] /\ target' \in Dir
      /\ \A q \in Returns \ {r} : aside'[q] = aside[q]
  BY <1>4, <1>5
<1>7. DirSound(target) /\ \A q \in Returns : DirSound(aside[q])
  BY DEF ReturnInv, DirsSound
<1>8. aside'[r] = Absent
  BY <1>4, <1>5, <1>7 DEF DirSound
<1>9. /\ Paired' => Paired
      /\ \A q \in Returns \ {r} : ret'[q] = ret[q]
      /\ \A q \in Returns : ret'[q].published = ret[q].published
  BY <1>2, <1>3, FewBefore DEF ReturnInv
<1>10. target' = aside[r] \/ (target'.there /\ target'.has = {}) \/ target' = target
  BY <1>4, <1>5
<1>11. DirsSound'
  <2>1. DirSound(target)'
    BY <1>7, <1>9, <1>10 DEF DirSound
  <2>2. ASSUME NEW q \in Returns PROVE DirSound(aside[q])'
    <3>1. CASE q = r
      BY <1>5, <1>8, <3>1 DEF DirSound
    <3>2. CASE q # r
      BY <1>6, <1>7, <1>9, <3>2 DEF DirSound
    <3> QED
      BY <3>1, <3>2
  <2> QED
    BY <2>1, <2>2 DEF DirsSound
<1>12. PairSound'
  <2>1. \A q \in Returns : ret'[q].pc \in Placed \cup {"done"} => q # r /\ ret'[q] = ret[q]
    BY <1>2, <1>9 DEF Placed
  <2>2. ASSUME Paired', NEW p \in Returns, NEW q \in Returns, p # q,
               ret'[q].published, ret'[q].pc \in Placed, p \in target'.has
        PROVE  q \in aside'[p].has
    <3>1. Overtaken(p, q) /\ q # r /\ ret'[q] = ret[q]
      BY <1>9, <2>1, <2>2 DEF ReturnInv, PairSound
    <3>2. CASE target' = aside[r]
      <4>1. p # r /\ ret[p].published
        BY <1>7, <2>2, <3>2 DEF ReturnInv, OwnPlaces, DirSound
      <4>2. ret[p].pc # "idle" /\ ret[q].pc # "idle"
        BY <2>2, <3>1, <4>1, NotIdle
      <4> QED
        BY <1>1, <1>9, <2>2, <3>1, <4>1, <4>2 DEF Paired
    <3>3. CASE target' = target
      <4>1. q \in aside[p].has
        BY <2>2, <3>1, <3>3 DEF Overtaken
      <4>2. CASE p = r /\ aside[r].there
        BY <1>4, <1>5, <1>7, <2>2, <3>3, <4>2
      <4>3. CASE p = r /\ ~aside[r].there
        BY <1>5, <1>7, <4>1, <4>3 DEF DirSound
      <4> QED
        BY <1>6, <4>1, <4>2, <4>3
    <3> QED
      BY <1>10, <2>2, <3>2, <3>3
  <2>3. ASSUME Paired', NEW q \in Returns, ret'[q].published, ret'[q].pc \in Placed \cup {"done"}
        PROVE  KeptSomewhere(q)' \/ \E s \in Returns \ {q} : s \in aside'[q].has
    <3>1. q # r /\ LostToOther(q) /\ ret'[q] = ret[q]
      BY <1>9, <2>1, <2>3 DEF ReturnInv, PairSound
    <3>2. KeptSomewhere(q) \/ \E s \in Returns \ {q} : s \in aside[q].has
      BY <2>3, <3>1 DEF LostToOther
    <3>3. CASE q \in target.has
      <4>1. q \in target'.has
        BY <1>4, <1>5, <1>7, <3>3 DEF DirSound
      <4> QED
        BY <4>1 DEF KeptSomewhere
    <3>4. CASE \E s \in Returns : q \in aside[s].has
      <4>1. PICK s \in Returns : q \in aside[s].has
        BY <3>4
      <4>2. CASE s = r
        <5>1. q \in target'.has
          BY <1>4, <1>5, <1>7, <4>1, <4>2 DEF DirSound
        <5> QED
          BY <5>1 DEF KeptSomewhere
      <4>3. CASE s # r
        BY <1>6, <4>1, <4>3 DEF KeptSomewhere
      <4> QED
        BY <4>2, <4>3
    <3> QED
      BY <1>6, <3>1, <3>2, <3>3, <3>4 DEF KeptSomewhere
  <2> QED
    BY <2>2, <2>3 DEF PairSound, Overtaken, LostToOther
<1>13. FromChecked(r)'
  BY <1>2, <1>4 DEF ReturnInv, FromChecked, Holding
<1>14. OwnPlaces(r)'
  BY <1>1, <1>2, <1>4, <1>5, <1>8 DEF ReturnInv, OwnPlaces, Holding, Placed
<1>15. ASSUME Alone PROVE AloneSound(r)'
  <2>1. AloneSound(r) /\ r \notin aside[r].has /\ r \notin target.has
    BY <1>1, <1>15 DEF ReturnInv, OwnPlaces, AloneSound
  <2>2. r \notin target'.has
    BY <1>10, <2>1
  <2>3. ret[r].existed => target'.there
    BY <1>1, <1>4, <1>5, <2>1 DEF AloneSound
  <2> QED
    BY <1>2, <2>2, <2>3 DEF AloneSound, Placed
<1> QED
  BY <1>3, <1>4, <1>5, <1>6, <1>11, <1>12, <1>13, <1>14, <1>15, StepInv

\* The owner, who may put something into the target or an archive in its place.
LEMMA OwnerInv == ASSUME ReturnInv, Owner PROVE ReturnInv'
<1>1. stage' = stage /\ aside' = aside /\ ret' = ret
  BY DEF Owner, PutFile, CommitThere, ArchiveChanges
<1>2. target \in Dir /\ archive \in Archives /\ DirSound(target)
  BY DEF ReturnInv, ReturnTypes, DirsSound
<1>3. /\ archive' \in Archives /\ target' \in Dir
      /\ target.there => target'.there
      /\ target'.there \/ target' = Absent
      /\ "file" \in target'.has => target'.has = {"file"}
      /\ "commit" \in target'.has => target'.has \cap Returns # {}
      /\ \A q \in Returns : q \in target'.has <=> q \in target.has
  <2>1. CASE PutFile
    BY <1>2, <2>1, ReturnAssumption DEF PutFile, Dir, DirSound
  <2>2. CASE CommitThere
    <3>1. /\ archive' = archive /\ target.has \cap Returns # {} /\ target.there
          /\ target'.there = target.there /\ target'.has = target.has \cup {"commit"}
          /\ target' = [there |-> target.there, has |-> target.has \cup {"commit"}]
      BY <1>2, <2>2 DEF CommitThere, Dir, DirSound, Absent
    <3>2. "file" \notin target.has /\ "commit" \notin Returns /\ "file" # "commit"
      BY <1>2, <3>1, ReturnAssumption DEF DirSound
    <3> QED
      BY <1>2, <3>1, <3>2 DEF Dir
  <2>3. CASE ArchiveChanges
    BY <1>2, <2>3 DEF ArchiveChanges, DirSound
  <2> QED
    BY <2>1, <2>2, <2>3 DEF Owner
<1>4. DirsSound'
  BY <1>1, <1>2, <1>3 DEF ReturnInv, DirsSound, DirSound
<1>5. PairSound'
  <2>1. Paired' => Paired
    BY <1>1 DEF Paired
  <2> QED
    BY <1>1, <1>3, <2>1, PairKept
<1>6. \A q \in Returns : FromChecked(q)' /\ OwnPlaces(q)'
  BY <1>1 DEF ReturnInv, FromChecked, OwnPlaces
<1>7. ASSUME Alone', NEW q \in Returns PROVE AloneSound(q)'
  <2>1. AloneSound(q)
    BY <1>1, <1>7 DEF ReturnInv, Alone
  <2> QED
    BY <1>1, <1>3, <2>1 DEF AloneSound
<1> QED
  BY <1>1, <1>3, <1>4, <1>5, <1>6, <1>7 DEF ReturnInv, ReturnTypes

\* Every step keeps the invariant.
LEMMA ReturnNextInv == ReturnInv /\ [ReturnNext]_returnVars => ReturnInv'
<1> SUFFICES ASSUME ReturnInv, [ReturnNext]_returnVars PROVE ReturnInv'
  OBVIOUS
<1>1. CASE Owner
  BY <1>1, OwnerInv
<1>2. ASSUME NEW r \in Returns, ReturnStep(r) PROVE ReturnInv'
  <2>1. CASE VerifyBackup(r) \/ LoadPackage(r)
    BY <2>1, VerifiedInv DEF VerifyBackup, LoadPackage
  <2>2. CASE PrepareTarget(r) \/ TargetConflicts(r)
    BY <2>2, PrepareInv
  <2>3. CASE ReadAgain(r)
    BY <2>3, ReadAgainInv
  <2>4. CASE StageRestore(r) \/ StageImport(r)
    BY <2>4, BuildInv DEF StageRestore, StageImport
  <2>5. CASE ValidateRestored(r) \/ ValidateImported(r)
    BY <2>5, ValidateInv DEF ValidateRestored, ValidateImported
  <2>6. CASE Check(r) \/ ReturnSettle(r) \/ Fresh(r) \/ Finish(r) \/ Fails(r) \/ ReturnCrash(r)
    BY <2>6, CheckInv, SettleInv, FreshInv, FinishInv, FailsInv, CrashInv
  <2>7. CASE MoveAside(r) \/ Replace(r) \/ Cleanup(r)
    BY <2>7, MoveAsideInv, ReplaceInv, CleanupInv
  <2>8. CASE UndoTarget(r) \/ UndoAside(r) \/ UndoStage(r) \/ UndoFails(r)
    BY <2>8, UndoTargetInv, UndoAsideInv, UndoLast
  <2> QED
    BY <1>2, <2>1, <2>2, <2>3, <2>4, <2>5, <2>6, <2>7, <2>8 DEF ReturnStep
<1>3. CASE UNCHANGED returnVars
  <2>1. archive' = archive /\ target' = target /\ stage' = stage /\ aside' = aside /\ ret' = ret
    BY <1>3 DEF returnVars
  <2>2. ReturnTypes' /\ DirsSound' /\ \A r \in Returns : FromChecked(r)' /\ OwnPlaces(r)'
    BY <2>1 DEF ReturnInv, ReturnTypes, DirsSound, DirSound, FromChecked, OwnPlaces
  <2>3. PairSound'
    BY <2>1 DEF ReturnInv, PairSound, Paired, Overtaken, LostToOther, KeptSomewhere
  <2>4. Alone' => \A r \in Returns : AloneSound(r)'
    BY <2>1 DEF ReturnInv, Alone, AloneSound
  <2> QED
    BY <2>2, <2>3, <2>4 DEF ReturnInv
<1> QED
  BY <1>1, <1>2, <1>3 DEF ReturnNext
-----------------------------------------------------------------------------
\* The invariant gives the properties of states.
LEMMA ReturnSafe ==
    ASSUME ReturnInv
    PROVE  ReturnTypeOK /\ StagedAsVerified /\ DoneWorkspaceKept /\ FailedReturnLeavesTarget
<1>1. ReturnTypeOK
  <2>1. stage \in [Returns -> {Absent} \cup {[there |-> TRUE, has |-> {r}] : r \in Returns}]
    BY DEF ReturnInv, ReturnTypes, OwnPlaces, StagedBy
  <2>2. \A d \in Places : d.there \/ d = Absent
    <3>1. target.there \/ target = Absent
      BY DEF ReturnInv, DirsSound, DirSound
    <3>2. \A r \in Returns : aside[r].there \/ aside[r] = Absent
      BY DEF ReturnInv, DirsSound, DirSound
    <3>3. \A r \in Returns : stage[r].there \/ stage[r] = Absent
      <4> TAKE r \in Returns
      <4>1. stage[r] \in {Absent, StagedBy(r)}
        BY DEF ReturnInv, OwnPlaces
      <4> QED
        BY <4>1 DEF StagedBy
    <3> QED
      BY <3>1, <3>2, <3>3 DEF Places
  <2> QED
    BY <2>1, <2>2 DEF ReturnTypeOK, ReturnInv, ReturnTypes, RetRow, OwnPlaces
<1>2. StagedAsVerified
  BY DEF StagedAsVerified, ReturnInv, FromChecked, ReturnTypes, RetRow
<1>3. DoneWorkspaceKept
  <2> SUFFICES ASSUME NEW r \in Returns, Paired, ret[r].pc = "done" PROVE KeptSomewhere(r)
    BY DEF DoneWorkspaceKept, KeptSomewhere
  <2>1. aside[r] = Absent /\ ret[r].published /\ LostToOther(r)
    BY DEF ReturnInv, OwnPlaces, PairSound
  <2> QED
    BY <2>1 DEF LostToOther, Absent
<1>4. FailedReturnLeavesTarget
  <2> SUFFICES ASSUME NEW r \in Returns, Alone, ret[r].pc = "failed"
               PROVE  /\ target.has \subseteq {"file"} /\ aside[r] = Absent
                      /\ ~ret[r].import => stage[r] = Absent
                      /\ ret[r].existed => target.there
    BY DEF FailedReturnLeavesTarget
  <2>1. OwnPlaces(r) /\ AloneSound(r) /\ DirSound(target) /\ target \in Dir
    BY DEF ReturnInv, DirsSound, ReturnTypes
  <2>2. ASSUME NEW q \in Returns, q \in target.has PROVE FALSE
    <3>1. ret[q].pc # "idle" /\ q # r
      BY <2>1, <2>2, NotIdle DEF DirSound, AloneSound
    <3> QED
      BY <3>1 DEF Alone
  <2>3. target.has \subseteq {"file"}
    BY <2>1, <2>2 DEF DirSound, Dir
  <2> QED
    BY <2>1, <2>3 DEF OwnPlaces, AloneSound
<1> QED
  BY <1>1, <1>2, <1>3, <1>4

\* Where the file of the owner may be.
FileAt(d) == "file" \in d.has

\* A file of the owner leaves the target only by the owner's hand, whatever the returns do.
LEMMA FileKept == ReturnInv /\ [ReturnNext]_returnVars => FileNeverLost
<1> SUFFICES ASSUME ReturnInv, [ReturnNext]_returnVars, FileThere, Alone PROVE FileThere'
  BY DEF FileNeverLost
<1>1. FileAt(target) \/ \E q \in Returns : FileAt(aside[q])
  <2>1. ASSUME NEW q \in Returns PROVE ~FileAt(stage[q])
    <3>1. stage[q] \in {Absent, StagedBy(q)}
      BY DEF ReturnInv, OwnPlaces
    <3> QED
      BY <3>1, ReturnAssumption DEF FileAt, StagedBy, Absent
  <2> QED
    BY <2>1 DEF FileThere, Places, FileAt
<1>2. SUFFICES FileAt(target)' \/ \E q \in Returns : FileAt(aside'[q])
  BY DEF FileThere, Places, FileAt
<1>3. CASE Owner \/ UNCHANGED returnVars
  <2>1. aside' = aside /\ (FileAt(target) => FileAt(target'))
    BY <1>3 DEF Owner, PutFile, CommitThere, ArchiveChanges, returnVars, FileAt, ReturnInv,
                ReturnTypes, Dir
  <2> QED
    BY <1>1, <2>1 DEF FileAt
<1>4. ASSUME NEW r \in Returns, ReturnStep(r) PROVE FileAt(target)' \/ \E q \in Returns : FileAt(aside'[q])
  <2>1. CASE MoveAside(r)
    <3>1. aside[r] = Absent /\ aside' = [aside EXCEPT ![r] = target] /\ aside \in [Returns -> Dir]
      BY <2>1 DEF MoveAside, ReturnInv, OwnPlaces, ReturnTypes
    <3>2. ~FileAt(aside[r])
      BY <3>1 DEF FileAt, Absent
    <3> QED
      BY <1>1, <3>1, <3>2
  <2>2. CASE Replace(r)
    BY <1>1, <2>2 DEF Replace, Replaceable, Vacant, FileAt
  <2>3. CASE Cleanup(r)
    <3>1. /\ ~FileAt(aside[r]) /\ target' = target /\ aside' = [aside EXCEPT ![r] = Absent]
          /\ aside \in [Returns -> Dir]
      BY <2>3 DEF Cleanup, Vacant, FileAt, ReturnInv, ReturnTypes
    <3> QED
      BY <1>1, <3>1 DEF FileAt
  <2>4. CASE UndoTarget(r)
    <3>1. /\ aside' = aside /\ target' = IF ret[r].published THEN Absent ELSE target
          /\ ret[r].pc = "undoTarget" /\ AloneSound(r) /\ DirSound(target) /\ r # "file"
      BY <2>4, ReturnAssumption DEF UndoTarget, ReturnInv, DirsSound
    <3>2. ret[r].published => ~FileAt(target)
      BY <3>1 DEF AloneSound, DirSound, FileAt, Placed
    <3> QED
      BY <1>1, <3>1, <3>2 DEF FileAt
  <2>5. CASE UndoAside(r)
    <3>1. aside \in [Returns -> Dir] /\ Absent.has = {}
      BY DEF ReturnInv, ReturnTypes, Absent
    <3>2. CASE aside[r].there
      <4>1. ~FileAt(target) /\ target' = aside[r] /\ aside' = [aside EXCEPT ![r] = Absent]
        BY <2>5, <3>2 DEF UndoAside, Vacant, FileAt
      <4> QED
        BY <1>1, <3>1, <4>1 DEF FileAt
    <3>3. CASE ~aside[r].there
      <4>1. aside' = aside /\ (target' = target \/ ~target.there)
        BY <2>5, <3>3 DEF UndoAside
      <4>2. ~target.there => ~FileAt(target)
        BY DEF ReturnInv, DirsSound, DirSound, FileAt, Absent
      <4> QED
        BY <1>1, <4>1, <4>2 DEF FileAt
    <3> QED
      BY <3>2, <3>3
  <2>6. CASE target' = target /\ aside' = aside
    BY <1>1, <2>6 DEF FileAt
  <2> QED
    BY <1>4, <2>1, <2>2, <2>3, <2>4, <2>5, <2>6
    DEF ReturnStep, VerifyBackup, LoadPackage, Verified, PrepareTarget, TargetConflicts,
        ReadAgain, StageRestore, StageImport, Build, ValidateRestored, ValidateImported, Validate,
        Check, ReturnSettle, Fresh, Finish, Fails, UndoStage, UndoFails, ReturnCrash, LooksOnly
<1> QED
  BY <1>3, <1>4 DEF ReturnNext

\* For any number of returns, restores and imports, beside the owner of the target,
\* failures and crashes: what is at the target is whole and from a sound archive,
\* the owner's files stay, a second return never removes the first one's finished
\* workspace, and a return that failed alone leaves the target as it found it
\* (restore_backup, import_state_package and their rollbacks).
THEOREM ReturnsAlwaysSound == ReturnSpec => ReturnsSound
<1>1. ReturnInv /\ [ReturnNext]_returnVars => [FileNeverLost]_returnVars
  BY FileKept
<1> QED
  BY <1>1, ReturnInitInv, ReturnNextInv, ReturnSafe, PTL DEF ReturnSpec, ReturnsSound
=============================================================================
