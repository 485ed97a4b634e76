--------------------------- MODULE WorkItemsProofs ---------------------------
(***************************************************************************)
(* Work items, for any number of clients, items and linked records.  What  *)
(* is stored is sound only because of what clients have prepared: a row    *)
(* computed outside the transaction must still agree with the stored item  *)
(* whenever the revision it was computed from is the item's.               *)
(***************************************************************************)
EXTENDS WorkItems, TLAPS

(* A row that may be written to an item: the rules a load checks. *)
RowSound(i, row) ==
    /\ row.life # "none"
    /\ row.status # "proposed" => row.trusted
    /\ SemanticsValid(i, row)

(* The lifecycle lets the item's stored status become the row's. *)
StatusFollows(i, row) ==
    row.status = items[i].status \/ row.status \in AllowedTransitions[items[i].status]

(* What a client has prepared was computed from a revision the item has    *)
(* had; if it still has it, the item is new or active and its status may   *)
(* become the row's.                                                       *)
PreparedAgrees(c) ==
    LET i == pending[c].item
        row == pending[c].row
    IN  /\ i \in Items
        /\ RowSound(i, row)
        /\ row.rev <= items[i].rev
        /\ row.rev = items[i].rev /\ Exists(i) => Active(i) /\ StatusFollows(i, row)

AllPreparedAgree == \A c \in Clients : pending[c] # NoOp => PreparedAgrees(c)

(* An item that was never created is as it was at first, and no other has  *)
(* revision zero.                                                          *)
RowsNumbered == \A i \in Items : IF Exists(i) THEN items[i].rev # 0 ELSE items[i] = FreshItem

(* While no two operations overlapped, what the one client under way has   *)
(* validated against the stored items is still true of them.               *)
AloneAgrees ==
    ~overlapped =>
        /\ \A c, d \in Clients : pending[c] # NoOp /\ pending[d] # NoOp => c = d
        /\ \A c \in Clients : pending[c] # NoOp =>
              IF pending[c].row.life = "active"
              THEN DependencyGraphValid(pending[c].item, pending[c].row)
              ELSE Active(pending[c].item)

WInv ==
    /\ TypeOK /\ RowsNumbered /\ StoredRowsSound /\ AllPreparedAgree
    /\ AloneAgrees /\ NoDependencyCycle
-----------------------------------------------------------------------------
(* Leaving nodes out of an acyclic graph leaves it acyclic. *)
LEMMA AcyclicSub ==
    ASSUME NEW S, NEW T, S \subseteq T, NEW f, NEW g, AcyclicOn(T, f),
           \A n \in S : g[n] = f[n]
    PROVE  AcyclicOn(S, g)
<1> SUFFICES ASSUME NEW loop \in SUBSET S, loop # {}
             PROVE  \E n \in loop : g[n] \intersect loop = {}
  BY DEF AcyclicOn
<1>1. loop \in SUBSET T
  OBVIOUS
<1>2. PICK n \in loop : f[n] \intersect loop = {}
  BY <1>1 DEF AcyclicOn
<1>3. g[n] = f[n]
  OBVIOUS
<1> QED BY <1>2, <1>3

LEMMA FreshItemType == FreshItem \in Item
BY DEF FreshItem, Item, Status, Verification

LEMMA InitWInv == Init => WInv
<1> SUFFICES ASSUME Init PROVE WInv
  OBVIOUS
<1>1. TypeOK
  <2>1. NoOp \in [item : Items \union {"none"}, row : Item]
    BY FreshItemType DEF NoOp
  <2>2. pending \in [Clients -> [item : Items \union {"none"}, row : Item]]
    BY <2>1 DEF Init
  <2>3. commits \in 0..MaxCommits
    BY WorkItemAssumption DEF Init
  <2> QED BY <2>2, <2>3, FreshItemType DEF Init, TypeOK
<1>2. \A i \in Items : items[i] = FreshItem /\ ~Exists(i)
  BY DEF Init, Exists, FreshItem
<1>3. RowsNumbered /\ StoredRowsSound
  BY <1>2 DEF RowsNumbered, StoredRowsSound
<1>4. AllPreparedAgree /\ AloneAgrees
  BY DEF Init, AllPreparedAgree, AloneAgrees
<1>5. {n \in Items : Active(n)} = {}
  BY <1>2 DEF Active, FreshItem
<1>6. NoDependencyCycle
  BY <1>5 DEF NoDependencyCycle, AcyclicOn
<1> QED BY <1>1, <1>3, <1>4, <1>6 DEF WInv
-----------------------------------------------------------------------------
(* What an operation prepares for an item, in general. *)
MayPrepare(i, row) ==
    /\ row \in Item /\ RowSound(i, row)
    /\ row.rev = items[i].rev
    /\ Exists(i) => Active(i) /\ StatusFollows(i, row)
    /\ IF row.life = "active" THEN DependencyGraphValid(i, row) ELSE Active(i)

LEMMA PrepareStep ==
    ASSUME WInv, NEW c \in Clients, NEW i \in Items, NEW row,
           pending[c] = NoOp, MayPrepare(i, row), Prepare(c, i, row)
    PROVE  WInv'
<1> DEFINE op == [item |-> i, row |-> row]
<1>1. /\ pending' = [pending EXCEPT ![c] = op]
      /\ overlapped' = (overlapped \/ \E d \in Clients : pending[d] # NoOp)
      /\ UNCHANGED <<items, projectActive, commits, live>>
  BY DEF Prepare
<1>2. op.item = i /\ op.row = row /\ op \in [item : Items \union {"none"}, row : Item]
  BY DEF MayPrepare
<1> HIDE DEF op
<1>3. pending'[c] = op /\ \A d \in Clients \ {c} : pending'[d] = pending[d]
  BY <1>1 DEF WInv, TypeOK
<1>4. TypeOK'
  <2>1. pending' \in [Clients -> [item : Items \union {"none"}, row : Item]]
    BY <1>1, <1>2 DEF WInv, TypeOK
  <2>2. overlapped' \in BOOLEAN
    BY <1>1 DEF WInv, TypeOK
  <2> QED BY <1>1, <2>1, <2>2 DEF WInv, TypeOK
<1>5. RowsNumbered' /\ StoredRowsSound'
  BY <1>1 DEF WInv, RowsNumbered, StoredRowsSound, Exists, SemanticsValid
<1>6. AllPreparedAgree'
  <2> SUFFICES ASSUME NEW d \in Clients, pending'[d] # NoOp PROVE PreparedAgrees(d)'
    BY DEF AllPreparedAgree
  <2>1. CASE d = c
    <3>1. items[i].rev \in Nat
      BY DEF WInv, TypeOK, Item
    <3> QED BY <1>1, <1>2, <1>3, <2>1, <3>1 DEF PreparedAgrees, MayPrepare, RowSound,
               SemanticsValid, StatusFollows, Exists, Active
  <2>2. CASE d # c
    BY <1>1, <1>3, <2>2 DEF WInv, AllPreparedAgree, PreparedAgrees, RowSound,
               SemanticsValid, StatusFollows, Exists, Active
  <2> QED BY <2>1, <2>2
<1>7. AloneAgrees'
  <2> SUFFICES ASSUME ~overlapped'
               PROVE  /\ \A d, e \in Clients : pending'[d] # NoOp /\ pending'[e] # NoOp => d = e
                      /\ \A d \in Clients : pending'[d] # NoOp =>
                            IF pending'[d].row.life = "active"
                            THEN DependencyGraphValid(pending[d].item, pending[d].row)'
                            ELSE Active(pending[d].item)'
    BY DEF AloneAgrees
  <2>1. \A d \in Clients \ {c} : pending'[d] = NoOp
    BY <1>1, <1>3
  <2>2. DependencyGraphValid(i, row)' <=> DependencyGraphValid(i, row)
    BY <1>1 DEF DependencyGraphValid, Active
  <2>3. Active(i)' <=> Active(i)
    BY <1>1 DEF Active
  <2>4. IF pending'[c].row.life = "active"
        THEN DependencyGraphValid(pending[c].item, pending[c].row)'
        ELSE Active(pending[c].item)'
    BY <1>1, <1>2, <1>3, <2>2, <2>3 DEF MayPrepare, DependencyGraphValid, Active
  <2> QED BY <2>1, <2>4
<1>8. NoDependencyCycle'
  <2>1. overlapped => overlapped'
    BY <1>1
  <2> QED BY <1>1, <2>1 DEF WInv, NoDependencyCycle, Active
<1> QED BY <1>4, <1>5, <1>6, <1>7, <1>8 DEF WInv

(* A prepared operation is given up. *)
LEMMA AbandonStep ==
    ASSUME WInv, NEW c \in Clients, Abandon(c)
    PROVE  WInv'
<1>1. /\ pending' = [pending EXCEPT ![c] = NoOp]
      /\ UNCHANGED <<items, projectActive, commits, live, overlapped>>
  BY DEF Abandon
<1>2. pending'[c] = NoOp /\ \A d \in Clients \ {c} : pending'[d] = pending[d]
  BY <1>1 DEF WInv, TypeOK
<1>3. TypeOK'
  <2>1. NoOp \in [item : Items \union {"none"}, row : Item]
    BY FreshItemType DEF NoOp
  <2> QED BY <1>1, <2>1 DEF WInv, TypeOK
<1>4. RowsNumbered' /\ StoredRowsSound'
  BY <1>1 DEF WInv, RowsNumbered, StoredRowsSound, Exists, SemanticsValid
<1>5. AllPreparedAgree'
  BY <1>1, <1>2 DEF WInv, AllPreparedAgree, PreparedAgrees, RowSound, SemanticsValid,
                    StatusFollows, Exists, Active
<1>6. AloneAgrees'
  <2> SUFFICES ASSUME ~overlapped, NEW d \in Clients, pending'[d] # NoOp
               PROVE  /\ \A e \in Clients : pending'[e] # NoOp => d = e
                      /\ IF pending'[d].row.life = "active"
                         THEN DependencyGraphValid(pending[d].item, pending[d].row)'
                         ELSE Active(pending[d].item)'
    BY <1>1 DEF AloneAgrees
  <2>1. d # c /\ pending'[d] = pending[d]
    BY <1>2
  <2> QED BY <1>1, <1>2, <2>1 DEF WInv, AloneAgrees, DependencyGraphValid, Active
<1>7. NoDependencyCycle'
  BY <1>1 DEF WInv, NoDependencyCycle, Active
<1> QED BY <1>3, <1>4, <1>5, <1>6, <1>7 DEF WInv

(* What a commit finds, by the revision it compares, and what it writes. *)
LEMMA CommitFinds ==
    ASSUME WInv, NEW c \in Clients, Commit(c)
    PROVE  LET i == pending[c].item
               row == pending[c].row
               new == [row EXCEPT !.rev = items[i].rev + 1]
           IN  /\ i \in Items /\ row \in Item /\ new \in Item
               /\ RowSound(i, row) /\ RowSound(i, new)
               /\ new.rev = items[i].rev + 1 /\ items[i].rev \in Nat
               /\ new.life = row.life /\ new.status = row.status /\ new.deps = row.deps
               /\ Exists(i) => Active(i) /\ StatusFollows(i, row)
               /\ items' = [items EXCEPT ![i] = new]
               /\ items'[i] = new /\ \A j \in Items \ {i} : items'[j] = items[j]
               /\ pending'[c] = NoOp /\ \A d \in Clients \ {c} : pending'[d] = pending[d]
<1> DEFINE i == pending[c].item
           row == pending[c].row
           new == [row EXCEPT !.rev = items[i].rev + 1]
<1>1. PreparedAgrees(c) /\ row.rev = items[i].rev /\ items[i].life \in {"none", "active"}
  BY DEF WInv, AllPreparedAgree, Commit, RevisionUnchanged
<1>2. i \in Items /\ row \in Item /\ RowSound(i, row)
  BY <1>1 DEF WInv, TypeOK, PreparedAgrees
<1>3. items[i] \in Item /\ items[i].rev \in Nat
  BY <1>2 DEF WInv, TypeOK, Item
<1>4. new \in Item
  BY <1>2, <1>3 DEF Item
<1>5. /\ new.rev = items[i].rev + 1 /\ new.life = row.life /\ new.status = row.status
      /\ new.deps = row.deps /\ new.trusted = row.trusted /\ new.started = row.started
      /\ new.completed = row.completed /\ new.blockers = row.blockers
      /\ new.verification = row.verification /\ new.evidence = row.evidence
  BY <1>2 DEF Item
<1>6. items' = [items EXCEPT ![i] = new] /\ pending' = [pending EXCEPT ![c] = NoOp]
  BY DEF Commit
<1>7. RowSound(i, new)
  BY <1>2, <1>5 DEF RowSound, SemanticsValid
<1>8. Exists(i) => Active(i) /\ StatusFollows(i, row)
  BY <1>1 DEF PreparedAgrees
<1> HIDE DEF new
<1>9. items'[i] = new /\ \A j \in Items \ {i} : items'[j] = items[j]
  BY <1>2, <1>6 DEF WInv, TypeOK
<1>10. pending'[c] = NoOp /\ \A d \in Clients \ {c} : pending'[d] = pending[d]
  BY <1>6 DEF WInv, TypeOK
<1> QED BY <1>2, <1>3, <1>4, <1>5, <1>6, <1>7, <1>8, <1>9, <1>10 DEF new

LEMMA CommitStep ==
    ASSUME WInv, NEW c \in Clients, Commit(c)
    PROVE  WInv'
<1> DEFINE i == pending[c].item
           row == pending[c].row
           new == [row EXCEPT !.rev = items[i].rev + 1]
<1>1. /\ i \in Items /\ row \in Item /\ new \in Item
      /\ RowSound(i, row) /\ RowSound(i, new)
      /\ new.rev = items[i].rev + 1 /\ items[i].rev \in Nat
      /\ new.life = row.life /\ new.status = row.status /\ new.deps = row.deps
      /\ items' = [items EXCEPT ![i] = new]
      /\ items'[i] = new /\ \A j \in Items \ {i} : items'[j] = items[j]
      /\ pending'[c] = NoOp /\ \A d \in Clients \ {c} : pending'[d] = pending[d]
  BY CommitFinds
<1>2. /\ commits' = commits + 1 /\ commits < MaxCommits
      /\ pending' = [pending EXCEPT ![c] = NoOp] /\ pending[c] # NoOp
      /\ UNCHANGED <<projectActive, live, overlapped>>
  BY DEF Commit
<1> HIDE DEF new, row, i
<1>3. TypeOK'
  <2>1. items' \in [Items -> Item]
    BY <1>1 DEF WInv, TypeOK
  <2>2. commits' \in 0..MaxCommits
    BY <1>2, WorkItemAssumption DEF WInv, TypeOK
  <2>3. NoOp \in [item : Items \union {"none"}, row : Item]
    BY FreshItemType DEF NoOp
  <2>4. pending' \in [Clients -> [item : Items \union {"none"}, row : Item]]
    BY <1>2, <2>3 DEF WInv, TypeOK
  <2> QED BY <1>2, <2>1, <2>2, <2>4 DEF WInv, TypeOK
<1>4. RowsNumbered'
  <2>1. items'[i].life # "none" /\ items'[i].rev # 0
    BY <1>1 DEF RowSound
  <2> QED BY <1>1, <2>1 DEF WInv, RowsNumbered, Exists
<1>5. StoredRowsSound'
  <2> SUFFICES ASSUME NEW j \in Items, Exists(j)'
               PROVE  /\ items'[j].status # "proposed" => items'[j].trusted
                      /\ SemanticsValid(j, items[j])'
    BY DEF StoredRowsSound
  <2>1. CASE j = i
    BY <1>1, <2>1 DEF RowSound, SemanticsValid
  <2>2. CASE j # i
    BY <1>1, <2>2 DEF WInv, StoredRowsSound, Exists, SemanticsValid
  <2> QED BY <2>1, <2>2
<1>6. AllPreparedAgree'
  <2> SUFFICES ASSUME NEW d \in Clients, pending'[d] # NoOp PROVE PreparedAgrees(d)'
    BY DEF AllPreparedAgree
  <2>1. d # c /\ pending'[d] = pending[d] /\ PreparedAgrees(d)
    BY <1>1 DEF WInv, AllPreparedAgree
  <2>2. pending[d].row \in Item /\ pending[d].row.rev \in Nat
    BY DEF WInv, TypeOK, Item
  <2>3. CASE pending[d].item = i
    <3>1. pending[d].row.rev < new.rev
      BY <1>1, <2>1, <2>2, <2>3 DEF PreparedAgrees
    <3> QED BY <1>1, <2>1, <2>2, <2>3, <3>1 DEF PreparedAgrees, RowSound, SemanticsValid
  <2>4. CASE pending[d].item # i
    BY <1>1, <2>1, <2>4 DEF PreparedAgrees, RowSound, SemanticsValid, StatusFollows,
                            Exists, Active
  <2> QED BY <2>3, <2>4
<1>7. AloneAgrees'
  BY <1>1, <1>2 DEF WInv, AloneAgrees
<1>8. NoDependencyCycle'
  <2> SUFFICES ASSUME ~overlapped
               PROVE  LET nodes == {n \in Items : Active(n)'}
                      IN  AcyclicOn(nodes, [n \in nodes |-> items'[n].deps])
    BY <1>2 DEF NoDependencyCycle
  <2> DEFINE nodes == {n \in Items : Active(n)}
             after == {n \in Items : Active(n)'}
             grown == nodes \union {i}
             g == [n \in after |-> items'[n].deps]
  <2>1. CASE row.life = "active"
    <3> DEFINE f == [n \in grown |-> IF n = i THEN row.deps ELSE items[n].deps]
    <3>1. AcyclicOn(grown, f)
      BY <1>2, <2>1 DEF WInv, AloneAgrees, DependencyGraphValid, row, i
    <3>2. after \subseteq grown
      BY <1>1 DEF Active
    <3>3. \A n \in after : g[n] = f[n]
      BY <1>1, <3>2
    <3> HIDE DEF f
    <3> QED BY <3>1, <3>2, <3>3, AcyclicSub
  <2>2. CASE row.life # "active"
    <3> DEFINE f == [n \in nodes |-> items[n].deps]
    <3>1. AcyclicOn(nodes, f)
      BY DEF WInv, NoDependencyCycle
    <3>2. after \subseteq nodes /\ i \notin after
      BY <1>1, <2>2 DEF Active
    <3>3. \A n \in after : g[n] = f[n]
      BY <1>1, <3>2
    <3> HIDE DEF f
    <3> QED BY <3>1, <3>2, <3>3, AcyclicSub
  <2> QED BY <2>1, <2>2
<1> QED BY <1>3, <1>4, <1>5, <1>6, <1>7, <1>8 DEF WInv
-----------------------------------------------------------------------------
(* The rows each operation prepares. *)
LEMMA NewRow ==
    ASSUME WInv, NEW c \in Clients, NEW i \in Items, NEW status \in {"ready", "proposed"},
           NEW trusted \in BOOLEAN, NEW deps \in SUBSET Items, NEW links \in SUBSET Sources,
           status = "ready" => trusted,
           pending[c] = NoOp, PrepareNew(c, i, status, trusted, deps, links)
    PROVE  WInv'
<1> DEFINE row == [FreshItem EXCEPT !.life = "active", !.status = status,
                     !.trusted = trusted, !.deps = deps, !.links = links]
<1>1. ~Exists(i) /\ ValuesValid(i, row) /\ Prepare(c, i, row)
  BY DEF PrepareNew
<1>2. /\ row \in Item /\ row.life = "active" /\ row.status = status
      /\ row.trusted = trusted /\ row.rev = 0
  BY FreshItemType DEF FreshItem, Item, Status
<1>3. items[i].rev = 0
  BY <1>1 DEF WInv, RowsNumbered, FreshItem
<1> HIDE DEF row
<1>4. MayPrepare(i, row)
  BY <1>1, <1>2, <1>3 DEF MayPrepare, RowSound, ValuesValid, RelationsValid
<1> QED BY <1>1, <1>4, PrepareStep

(* A mutation of an item it has loaded. *)
LEMMA ChangedRow ==
    ASSUME WInv, NEW c \in Clients, NEW i \in Items, NEW row \in Item,
           pending[c] = NoOp, Loadable(i), ValuesValid(i, row), row.trusted,
           row.rev = items[i].rev, row.life = items[i].life, StatusFollows(i, row),
           Prepare(c, i, row)
    PROVE  WInv'
<1>1. MayPrepare(i, row)
  BY DEF MayPrepare, RowSound, Loadable, Active, ValuesValid, RelationsValid
<1> QED BY <1>1, PrepareStep

LEMMA OperationStep ==
    ASSUME WInv, NEW c \in Clients, NEW i \in Items, Operation(c, i)
    PROVE  WInv'
<1>1. pending[c] = NoOp /\ items[i] \in Item
  BY DEF Operation, WInv, TypeOK
<1>2. CASE Create(c, i)
  BY <1>1, <1>2, NewRow DEF Create
<1>3. CASE Propose(c, i)
  BY <1>1, <1>3, NewRow DEF Propose
<1>4. CASE UpdateDefinition(c, i)
  <2>1. PICK deps \in SUBSET Items, links \in SUBSET Sources :
           LET row == [items[i] EXCEPT !.deps = deps, !.links = links, !.trusted = TRUE]
           IN  ValuesValid(i, row) /\ Prepare(c, i, row)
    BY <1>4 DEF UpdateDefinition
  <2> DEFINE row == [items[i] EXCEPT !.deps = deps, !.links = links, !.trusted = TRUE]
  <2>2. /\ row \in Item /\ row.trusted /\ row.rev = items[i].rev
        /\ row.life = items[i].life /\ row.status = items[i].status
    BY <1>1 DEF Item
  <2>3. Loadable(i) /\ ValuesValid(i, row) /\ Prepare(c, i, row)
    BY <1>4, <2>1 DEF UpdateDefinition
  <2> HIDE DEF row
  <2> QED BY <1>1, <2>2, <2>3, ChangedRow DEF StatusFollows
<1>5. CASE Transition(c, i)
  <2>1. PICK to \in Status, blockers \in SUBSET Items :
           /\ TransitionAllowed(i, to)
           /\ ValuesValid(i, TransitionRow(i, to, blockers))
           /\ Prepare(c, i, TransitionRow(i, to, blockers))
    BY <1>5 DEF Transition
  <2> DEFINE row == TransitionRow(i, to, blockers)
             started == items[i].started \/ to \in {"in_progress", "completed"}
             kept == IF to = "blocked" THEN blockers ELSE {}
  <2>2. started \in BOOLEAN /\ kept \in SUBSET Items /\ (to = "completed") \in BOOLEAN
    OBVIOUS
  <2>3. row = [items[i] EXCEPT !.status = to, !.started = started,
                  !.completed = (to = "completed"), !.blockers = kept, !.trusted = TRUE]
    BY DEF TransitionRow
  <2> HIDE DEF row, started, kept
  <2>4. /\ row \in Item /\ row.trusted /\ row.rev = items[i].rev
        /\ row.life = items[i].life /\ row.status = to
    BY <1>1, <2>2, <2>3 DEF Item
  <2>5. Loadable(i) /\ ValuesValid(i, row) /\ Prepare(c, i, row) /\ StatusFollows(i, row)
    BY <1>5, <2>1, <2>4 DEF Transition, StatusFollows, TransitionAllowed, row
  <2> QED BY <1>1, <2>4, <2>5, ChangedRow
<1>6. CASE SetVerification(c, i)
  <2>1. PICK v \in Verification, evidence \in SUBSET Sources :
           LET row == [items[i] EXCEPT !.verification = v, !.evidence = evidence, !.trusted = TRUE]
           IN  ValuesValid(i, row) /\ Prepare(c, i, row)
    BY <1>6 DEF SetVerification
  <2> DEFINE row == [items[i] EXCEPT !.verification = v, !.evidence = evidence, !.trusted = TRUE]
  <2>2. /\ row \in Item /\ row.trusted /\ row.rev = items[i].rev
        /\ row.life = items[i].life /\ row.status = items[i].status
    BY <1>1 DEF Item
  <2>3. Loadable(i) /\ ValuesValid(i, row) /\ Prepare(c, i, row)
    BY <1>6, <2>1 DEF SetVerification
  <2> HIDE DEF row
  <2> QED BY <1>1, <2>2, <2>3, ChangedRow DEF StatusFollows
<1>7. CASE Archive(c, i)
  <2> DEFINE row == [items[i] EXCEPT !.life = "archived", !.trusted = TRUE]
  <2>1. Loadable(i) /\ Prepare(c, i, row)
    BY <1>7 DEF Archive
  <2>2. /\ row \in Item /\ row.trusted /\ row.rev = items[i].rev /\ row.life = "archived"
        /\ row.status = items[i].status /\ row.completed = items[i].completed
        /\ row.started = items[i].started /\ row.blockers = items[i].blockers
        /\ row.deps = items[i].deps /\ row.verification = items[i].verification
        /\ row.evidence = items[i].evidence
    BY <1>1 DEF Item
  <2> HIDE DEF row
  <2>3. SemanticsValid(i, row)
    BY <2>1, <2>2 DEF Loadable, Readable, ValuesValid, SemanticsValid
  <2>4. MayPrepare(i, row)
    BY <2>1, <2>2, <2>3 DEF MayPrepare, RowSound, Loadable, StatusFollows
  <2> QED BY <1>1, <2>1, <2>4, PrepareStep
<1> QED BY <1>2, <1>3, <1>4, <1>5, <1>6, <1>7 DEF Operation

LEMMA NextWInv == WInv /\ [Next]_vars => WInv'
<1> SUFFICES ASSUME WInv, [Next]_vars PROVE WInv'
  OBVIOUS
<1>1. ASSUME UNCHANGED <<items, commits, pending, overlapped>>,
             projectActive' \in BOOLEAN, live' \subseteq Sources
      PROVE  WInv'
  <2>1. TypeOK' /\ RowsNumbered' /\ StoredRowsSound'
    BY <1>1 DEF WInv, TypeOK, RowsNumbered, StoredRowsSound, Exists, SemanticsValid
  <2>2. AllPreparedAgree'
    BY <1>1 DEF WInv, AllPreparedAgree, PreparedAgrees, RowSound, SemanticsValid,
                StatusFollows, Exists, Active
  <2>3. AloneAgrees' /\ NoDependencyCycle'
    BY <1>1 DEF WInv, AloneAgrees, DependencyGraphValid, NoDependencyCycle, Active
  <2> QED BY <2>1, <2>2, <2>3 DEF WInv
<1>2. CASE ArchiveProject
  BY <1>1, <1>2 DEF ArchiveProject, WInv, TypeOK
<1>3. ASSUME NEW s \in Sources, ArchiveSource(s) PROVE WInv'
  BY <1>1, <1>3 DEF ArchiveSource, WInv, TypeOK
<1>4. CASE UNCHANGED vars
  BY <1>1, <1>4 DEF vars, WInv, TypeOK
<1> QED BY <1>2, <1>3, <1>4, OperationStep, CommitStep, AbandonStep DEF Next

LEMMA WInvAlways == Spec => []WInv
BY InitWInv, NextWInv, PTL DEF Spec
-----------------------------------------------------------------------------
(* An operation stores nothing: it leaves a row with its client. *)
LEMMA OperationPrepares ==
    ASSUME NEW c \in Clients, NEW i \in Items, Operation(c, i)
    PROVE  \E row : Prepare(c, i, row)
<1>1. CASE Create(c, i) \/ Propose(c, i)
  BY <1>1 DEF Create, Propose, PrepareNew
<1>2. CASE UpdateDefinition(c, i)
  BY <1>2 DEF UpdateDefinition
<1>3. CASE Transition(c, i)
  BY <1>3 DEF Transition
<1>4. CASE SetVerification(c, i) \/ Archive(c, i)
  BY <1>4 DEF SetVerification, Archive
<1> QED BY <1>1, <1>2, <1>3, <1>4 DEF Operation

(* Only a commit changes the stored items, and no step brings a project or *)
(* a record back.                                                          *)
LEMMA ItemsByCommit ==
    ASSUME Next
    PROVE  /\ items' # items => \E c \in Clients : Commit(c)
           /\ ~projectActive => ~projectActive'
           /\ live' \subseteq live
<1>1. CASE \E c \in Clients, i \in Items : Operation(c, i)
  <2>1. UNCHANGED <<items, projectActive, live>>
    BY <1>1, OperationPrepares DEF Prepare
  <2> QED BY <2>1
<1>2. CASE \E c \in Clients : Commit(c) \/ Abandon(c)
  BY <1>2 DEF Commit, Abandon
<1>3. CASE ArchiveProject \/ \E s \in Sources : ArchiveSource(s)
  BY <1>3 DEF ArchiveProject, ArchiveSource
<1> QED BY <1>1, <1>2, <1>3 DEF Next

(* What a step may make of one item. *)
LEMMA ItemFollows ==
    ASSUME WInv, [Next]_vars, NEW i \in Items
    PROVE  /\ items[i].life = "archived" => items'[i] = items[i]
           /\ Exists(i) => \/ items'[i].status = items[i].status
                           \/ items'[i].status \in AllowedTransitions[items[i].status]
<1>1. CASE items' = items
  BY <1>1
<1>2. CASE items' # items
  <2>1. PICK c \in Clients : Commit(c)
    BY <1>2, ItemsByCommit DEF vars
  <2>2. CASE i = pending[c].item
    BY <2>1, <2>2, CommitFinds DEF Exists, Active, StatusFollows
  <2>3. CASE i # pending[c].item
    BY <2>1, <2>3, CommitFinds
  <2> QED BY <2>2, <2>3
<1> QED BY <1>1, <1>2

(* What is dead stays dead: no commit brings back an archived item or      *)
(* takes a finished one out of its status.                                 *)
LEMMA DeadStays ==
    ASSUME WInv, [Next]_vars, NEW i \in Items
    PROVE  /\ items[i].life = "archived" => items'[i].life = "archived"
           /\ items[i].status \in Terminal => items'[i].status \in Terminal
<1>1. items[i].status \in Terminal => Exists(i) /\ AllowedTransitions[items[i].status] = {}
  BY DEF WInv, RowsNumbered, Terminal, FreshItem, AllowedTransitions
<1> QED BY <1>1, ItemFollows

(* No operation can load an item that links something dead. *)
LEMMA StrandedNotLoaded ==
    ASSUME WInv, NEW i \in Items, Stranded(i), NEW c \in Clients
    PROVE  ~Operation(c, i)
<1>1. items[i] \in Item
  BY DEF WInv, TypeOK
<1>2. ~Loadable(i)
  <2> SUFFICES ASSUME Loadable(i) PROVE FALSE
    OBVIOUS
  <2>1. ValuesValid(i, items[i])
    BY DEF Loadable, Readable
  <2>2. /\ projectActive
        /\ items[i].links \union items[i].evidence \subseteq live
    BY <2>1 DEF ValuesValid
  <2>3. /\ \A n \in items[i].deps \union items[i].blockers : Active(n)
        /\ \A n \in items[i].blockers : items[n].status \notin Terminal
    BY <2>1 DEF ValuesValid, RelationsValid
  <2> QED BY <2>2, <2>3 DEF Stranded, Active
<1> QED BY <1>2 DEF Stranded, Operation, Create, Propose, PrepareNew, UpdateDefinition,
                    Transition, SetVerification, Archive

LEMMA NextWorkSteps == WInv /\ [Next]_vars => [LifecycleFollowed /\ StrandedForever]_vars
<1> SUFFICES ASSUME WInv, Next PROVE LifecycleFollowed /\ StrandedForever
  OBVIOUS
<1>1. LifecycleFollowed
  BY ItemFollows DEF LifecycleFollowed
<1>2. StrandedForever
  <2> SUFFICES ASSUME NEW i \in Items, Stranded(i) PROVE Stranded(i)'
    BY DEF StrandedForever
  <2>1. \A c \in Clients : pending'[c].item # i
    <3>1. CASE \E c \in Clients, j \in Items : Operation(c, j)
      <4>1. PICK c \in Clients, j \in Items : Operation(c, j)
        BY <3>1
      <4>2. j # i
        BY <4>1, StrandedNotLoaded
      <4>3. \E row : pending' = [pending EXCEPT ![c] = [item |-> j, row |-> row]]
        BY <4>1, OperationPrepares DEF Prepare
      <4> QED BY <4>2, <4>3 DEF Stranded, WInv, TypeOK
    <3>2. CASE \E c \in Clients : Commit(c) \/ Abandon(c)
      <4>1. PICK c \in Clients : pending' = [pending EXCEPT ![c] = NoOp]
        BY <3>2 DEF Commit, Abandon
      <4>2. NoOp.item # i
        BY WorkItemAssumption DEF NoOp
      <4> QED BY <4>1, <4>2 DEF Stranded, WInv, TypeOK
    <3>3. CASE pending' = pending
      BY <3>3 DEF Stranded
    <3> QED BY <3>1, <3>2, <3>3 DEF Next, ArchiveProject, ArchiveSource
  <2>2. items'[i] = items[i]
    <3>1. CASE items' = items
      BY <3>1
    <3>2. CASE items' # items
      <4>1. PICK c \in Clients : Commit(c)
        BY <3>2, ItemsByCommit
      <4> QED BY <4>1, CommitFinds DEF Stranded
    <3> QED BY <3>1, <3>2
  <2>3. (~projectActive => ~projectActive') /\ live' \subseteq live
    BY ItemsByCommit
  <2>4. items[i].deps \subseteq Items /\ items[i].blockers \subseteq Items
    BY DEF WInv, TypeOK, Item
  <2> QED BY <2>1, <2>2, <2>3, <2>4, DeadStays DEF Stranded, Exists
<1> QED BY <1>1, <1>2

(* For any number of clients, items and links: every stored item follows   *)
(* the rules a load checks and holds no untrusted work, although values    *)
(* are validated before the transaction; and there is no dependency cycle  *)
(* unless two operations overlapped.                                       *)
THEOREM WorkAlwaysSound == Spec => []WorkSound
<1>1. WInv => WorkSound
  BY DEF WInv, WorkSound
<1> QED BY <1>1, WInvAlways, PTL

(* For any number of clients, items and links: every committed step        *)
(* follows the lifecycle, an archived item is frozen, and an item that     *)
(* links something dead can never be changed again.                        *)
THEOREM WorkStepsAlwaysSound == Spec => WorkStepsSound
<1>1. WInv /\ [Next]_vars => [LifecycleFollowed /\ StrandedForever]_vars
  BY NextWorkSteps
<1> QED BY <1>1, WInvAlways, PTL DEF Spec, WorkStepsSound
=============================================================================
