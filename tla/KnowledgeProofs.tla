--------------------------- MODULE KnowledgeProofs ---------------------------
(***************************************************************************)
(* Proofs about the records of knowledge, for any number of clients and    *)
(* records.  Truth records stay honest; procedures replace each other one  *)
(* to one and keep what was accepted; memories stay readable, are taken    *)
(* from elsewhere once, and are reported as they were at one revision.     *)
(* Each time the argument is about writes that are pending and reports     *)
(* that are half read: a write has been computed from the row it read, so  *)
(* what it may contain is told by that row and its revision (PendingTruth, *)
(* PendingProc, PendingMemo); a report has seen rows that are, or were at  *)
(* the revision it names, in the table (ReaderSound).                      *)
(***************************************************************************)
EXTENDS Procedures, Memories, FiniteSetTheorems, TLAPS

(* Every stored row can be read, leads somewhere, and is what its review   *)
(* acknowledged.                                                           *)
RowSound(t) ==
    /\ TruthParses(truth[t])
    /\ LinksResolve(truth[t].links)
    /\ truth[t].review = reviewed[t]

RowsSound ==
    /\ truth \in [Truths -> TruthRow \union {None}]
    /\ reviewed \in [Truths -> Reviews]
    /\ \A t \in Truths : truth[t] # None => RowSound(t)

(* A pending truth write holds a row that can be read, of the kind and with *)
(* the links its record has; until its revision is overtaken, archiving     *)
(* would keep the review that is there.                                    *)
PendingTruth(w) ==
    /\ w.id \in Truths /\ w.row \in TruthRow /\ w.rev \in Nat \ {0}
    /\ truth[w.id] # None
    /\ TruthParses(w.row)
    /\ w.row.kind = truth[w.id].kind /\ w.row.links = truth[w.id].links
    /\ w.row.secret = truth[w.id].secret
    /\ w.rev <= truth[w.id].rev
    /\ w.rev = truth[w.id].rev /\ ~w.row.active => w.row.review = truth[w.id].review

PendingSound ==
    /\ pending = [c \in Clients |-> pending[c]]
    /\ \A c \in Clients : pending[c] # None /\ pending[c].table = "truth" => PendingTruth(pending[c])

KInv == RowsSound /\ PendingSound /\ commits \in Nat
-----------------------------------------------------------------------------
(* What the parser looks at. *)
LEMMA ParsesSame ==
    ASSUME NEW r, NEW q, q.kind = r.kind, q.source = r.source, q.links = r.links,
           q.provenance = r.provenance, q.review = r.review, q.reviewer = r.reviewer
    PROVE  TruthParses(q) = TruthParses(r)
<1>. QED  BY DEF TruthParses

(* A record that is there with its kind goes on to be what links want. *)
LEMMA LinksLast ==
    ASSUME RowsSound,
           \A t \in Truths : truth[t] # None =>
              truth'[t] # None /\ TruthParses(truth'[t]) /\ truth'[t].kind = truth[t].kind,
           NEW links, \A l \in links : l[2] \in Truths, LinksResolve(links)
    PROVE  LinksResolve(links)'
<1>. SUFFICES ASSUME NEW l \in links
              PROVE  TruthIs(l[2], Wanted(l[1]))'
  BY DEF LinksResolve
<1>1. TruthIs(l[2], Wanted(l[1]))
  BY DEF LinksResolve
<1>. QED  BY <1>1 DEF TruthIs, Wanted

(* The links of a row lead to identifiers. *)
LEMMA LinksTyped ==
    ASSUME NEW row \in TruthRow
    PROVE  \A l \in row.links : l[2] \in Truths
<1>1. row.links \subseteq {"supports", "contradicts", "contextualizes", "claim_ids",
                           "evidence_ids"} \X Truths
  BY DEF TruthRow
<1>. QED  BY <1>1

(* What a transaction makes of the row that waits for it. *)
Committed(row, n, dated) == [row EXCEPT !.rev = n, !.dated = dated]

LEMMA RowCommitted ==
    ASSUME NEW row \in TruthRow, NEW n \in Nat \ {0}, NEW dated \in BOOLEAN
    PROVE  LET new == Committed(row, n, dated)
           IN  /\ new \in TruthRow /\ new.kind = row.kind /\ new.source = row.source
               /\ new.links = row.links /\ new.provenance = row.provenance
               /\ new.review = row.review /\ new.reviewer = row.reviewer
               /\ new.active = row.active /\ new.rev = n /\ new.secret = row.secret
<1>1. PICK new : new = [row EXCEPT !.rev = n, !.dated = dated]  OBVIOUS
<1>2. /\ new \in TruthRow /\ new.kind = row.kind /\ new.source = row.source
      /\ new.links = row.links /\ new.provenance = row.provenance
      /\ new.review = row.review /\ new.reviewer = row.reviewer
      /\ new.active = row.active /\ new.rev = n /\ new.secret = row.secret
  <2>1. CASE dated = TRUE  BY <1>1, <2>1 DEF TruthRow
  <2>2. CASE dated = FALSE  BY <1>1, <2>2 DEF TruthRow
  <2>. QED  BY <2>1, <2>2
<1>. QED  BY <1>1, <1>2 DEF Committed

(* A new truth record that parses and whose links resolve. *)
LEMMA InsertKept ==
    ASSUME KInv, NEW t \in Truths, truth[t] = None, NEW row \in TruthRow,
           TruthParses(row), LinksResolve(row.links), Insert(t, row)
    PROVE  KInv'
<1>1. /\ truth' = [truth EXCEPT ![t] = row] /\ reviewed' = [reviewed EXCEPT ![t] = row.review]
      /\ commits' = commits + 1 /\ pending' = pending
  BY DEF Insert
<1>2. /\ truth'[t] = row /\ reviewed'[t] = row.review
      /\ \A u \in Truths \ {t} : truth'[u] = truth[u] /\ reviewed'[u] = reviewed[u]
  BY <1>1 DEF KInv, RowsSound
<1>3. row # None  BY TruthAssumption
<1>4. \A u \in Truths : truth[u] # None =>
         truth'[u] # None /\ TruthParses(truth'[u]) /\ truth'[u].kind = truth[u].kind
  BY <1>2 DEF KInv, RowsSound, RowSound
<1>5. ASSUME NEW u \in Truths, truth'[u] # None PROVE RowSound(u)'
  <2>1. CASE u = t
    <3>1. LinksResolve(row.links)'  BY <1>4, LinksLast, LinksTyped DEF KInv
    <3>. QED  BY <1>2, <2>1, <3>1 DEF RowSound
  <2>2. CASE u # t
    <3>1. truth'[u] = truth[u] /\ reviewed'[u] = reviewed[u] /\ RowSound(u)
          /\ truth[u] \in TruthRow
      BY <1>2, <1>5, <2>2 DEF KInv, RowsSound
    <3>2. \A l \in truth[u].links : l[2] \in Truths  BY <3>1, LinksTyped
    <3>3. PICK links : links = truth[u].links  OBVIOUS
    <3>4. LinksResolve(links)'  BY <1>4, <3>1, <3>2, <3>3, LinksLast DEF KInv, RowSound
    <3>. QED  BY <3>1, <3>3, <3>4 DEF RowSound
  <2>. QED  BY <2>1, <2>2
<1>6. RowsSound'
  <2>1. truth' \in [Truths -> TruthRow \union {None}]  BY <1>1 DEF KInv, RowsSound
  <2>2. row.review \in Reviews  BY DEF TruthRow
  <2>3. reviewed' \in [Truths -> Reviews]  BY <1>1, <2>2 DEF KInv, RowsSound
  <2>. QED  BY <2>1, <2>3, <1>5 DEF RowsSound
<1>7. PendingSound'
  <2>. SUFFICES ASSUME NEW c \in Clients, pending[c] # None, pending[c].table = "truth"
                PROVE  PendingTruth(pending[c])'
    BY <1>1 DEF KInv, PendingSound
  <2>1. PendingTruth(pending[c])  BY DEF KInv, PendingSound
  <2>2. pending[c].id # t /\ pending[c].id \in Truths  BY <2>1 DEF PendingTruth
  <2>. QED  BY <1>1, <1>2, <2>1, <2>2 DEF PendingTruth
<1>8. commits' \in Nat  BY <1>1 DEF KInv
<1>. QED  BY <1>6, <1>7, <1>8 DEF KInv

(* The links a client may pass. *)
LEMMA LinkSetsTyped ==
    ASSUME NEW kind \in Kinds, NEW links \in LinkSets(kind)
    PROVE  links \in SUBSET ({"supports", "contradicts", "contextualizes", "claim_ids",
                              "evidence_ids"} \X Truths)
<1>. DEFINE pairs == Relations(kind) \X {t \in Truths : truth[t] # None}
<1>1. links = {} \/ \E k, l \in pairs : links = {k, l}  BY DEF LinkSets
<1>2. Relations(kind) \subseteq {"supports", "contradicts", "contextualizes", "claim_ids",
                                 "evidence_ids"}
  BY DEF Relations, Kinds
<1>3. links \subseteq pairs  BY <1>1
<1>. QED  BY <1>2, <1>3

(* A record that a create writes: what the checks before it allow is what    *)
(* the parser accepts.                                                     *)
LEMMA NewRowParses ==
    ASSUME NEW kind \in Kinds, NEW s \in Source, NEW review \in Reviews, NEW links,
           NEW secret \in BOOLEAN, NEW subject \in Truths \union {None},
           links \in SUBSET ({"supports", "contradicts", "contextualizes", "claim_ids",
                              "evidence_ids"} \X Truths),
           LinksShaped(kind, links)
    PROVE  /\ kind # "trust_assessment" /\ SourceValid(s) =>
                 /\ NewTruth(kind, s, review, links, secret) \in TruthRow
                 /\ TruthParses(NewTruth(kind, s, review, links, secret))
           /\ kind = "trust_assessment" /\ s.actor \in {"user", "system"}
                 /\ (s.actor = "system" => "policy" \in s.has) =>
                 LET row == [NewTruth(kind, s, review, links, secret) EXCEPT
                                !.subject = subject,
                                !.provenance = IF s.actor = "user" THEN "user-created"
                                               ELSE "system-generated"]
                 IN  row \in TruthRow /\ TruthParses(row)
<1>1. RecordProvenance(s) \in {"user-created", "imported", "model-proposed",
                               "system-generated", "migrated", "restored"}
  BY DEF RecordProvenance
<1>2. NewTruth(kind, s, review, links, secret) \in TruthRow  BY <1>1 DEF NewTruth, TruthRow
<1>3. ReviewValid(review, IF review = "unreviewed" THEN None ELSE "user")
  BY TruthAssumption DEF ReviewValid
<1>4. ASSUME kind # "trust_assessment", SourceValid(s)
      PROVE  TruthParses(NewTruth(kind, s, review, links, secret))
  BY <1>3, <1>4 DEF TruthParses, NewTruth
<1>5. ASSUME kind = "trust_assessment", s.actor \in {"user", "system"},
             s.actor = "system" => "policy" \in s.has,
             NEW row, row = [NewTruth(kind, s, review, links, secret) EXCEPT
                                !.subject = subject,
                                !.provenance = IF s.actor = "user" THEN "user-created"
                                               ELSE "system-generated"]
      PROVE  row \in TruthRow /\ TruthParses(row)
  <2>1. row = [kind |-> kind, source |-> s, review |-> review,
               reviewer |-> IF review = "unreviewed" THEN None ELSE "user",
               provenance |-> IF s.actor = "user" THEN "user-created" ELSE "system-generated",
               links |-> links, subject |-> subject, secret |-> secret, dated |-> TRUE,
               active |-> TRUE, rev |-> 1]
    BY <1>5 DEF NewTruth
  <2>2. row \in TruthRow  BY <2>1 DEF TruthRow
  <2>3. /\ row.kind = kind /\ row.links = links /\ row.source = s
        /\ row.provenance = IF s.actor = "user" THEN "user-created" ELSE "system-generated"
    BY <2>1
  <2>4. TruthParses(row)  BY <1>5, <2>3 DEF TruthParses
  <2>. QED  BY <2>2, <2>4
<1>. QED  BY <1>2, <1>4, <1>5

(* Whoever creates a truth record. *)
LEMMA CreatesKept ==
    ASSUME KInv, NEW t \in Truths, truth[t] = None, NEW s \in Sources
    PROVE  \A secret \in BOOLEAN :
           /\ \A review \in ReviewInputs : CreateClaim(t, s, review, secret) => KInv'
           /\ \A review \in ReviewInputs, links \in LinkSets("evidence") :
                 CreateEvidence(t, s, review, links, secret) => KInv'
           /\ \A review \in ReviewInputs, links \in LinkSets("inference") :
                 CreateInference(t, s, review, links, secret) => KInv'
           /\ \A subject \in Truths \union {None}, links \in LinkSets("trust_assessment") :
                 AssessTrust(t, s, subject, links, secret) => KInv'
<1>0. s \in Source /\ ReviewInputs \subseteq Reviews  BY TruthAssumption
<1>1. ASSUME NEW kind \in Kinds \ {"trust_assessment"}, NEW review \in ReviewInputs,
             NEW secret \in BOOLEAN, NEW links, links = {} \/ links \in LinkSets(kind),
             CreateTruth(t, kind, s, review, links, secret)
      PROVE  KInv'
  <2>1. /\ SourceValid(s) /\ LinksShaped(kind, links) /\ LinksResolve(links)
        /\ Insert(t, NewTruth(kind, s, review, links, secret))
    BY <1>1 DEF CreateTruth
  <2>2. links \in SUBSET ({"supports", "contradicts", "contextualizes", "claim_ids",
                           "evidence_ids"} \X Truths)
    <3>1. CASE links = {}  BY <3>1
    <3>2. CASE links \in LinkSets(kind)  BY <3>2, LinkSetsTyped
    <3>. QED  BY <1>1, <3>1, <3>2
  <2>3. /\ NewTruth(kind, s, review, links, secret) \in TruthRow
        /\ TruthParses(NewTruth(kind, s, review, links, secret))
    BY <1>0, <2>1, <2>2, NewRowParses
  <2>4. NewTruth(kind, s, review, links, secret).links = links  BY DEF NewTruth
  <2>5. PICK row : row = NewTruth(kind, s, review, links, secret)  OBVIOUS
  <2>6. row \in TruthRow /\ TruthParses(row) /\ LinksResolve(row.links) /\ Insert(t, row)
    BY <2>1, <2>3, <2>4, <2>5
  <2>. QED  BY <2>6, InsertKept
<1>2. ASSUME NEW subject \in Truths \union {None}, NEW links, links \in LinkSets("trust_assessment"),
             NEW secret \in BOOLEAN, AssessTrust(t, s, subject, links, secret)
      PROVE  KInv'
  <2>1. PICK row : row = [NewTruth("trust_assessment", s, "unreviewed", links, secret) EXCEPT
                             !.subject = subject,
                             !.provenance = IF s.actor = "user" THEN "user-created"
                                            ELSE "system-generated"]
    OBVIOUS
  <2>2. /\ s.actor \in {"user", "system"} /\ (s.actor = "system" => "policy" \in s.has)
        /\ LinksShaped("trust_assessment", links) /\ LinksResolve(links) /\ Insert(t, row)
    BY <1>2, <2>1 DEF AssessTrust
  <2>3. links \in SUBSET ({"supports", "contradicts", "contextualizes", "claim_ids",
                           "evidence_ids"} \X Truths)
    BY <1>2, LinkSetsTyped DEF Kinds
  <2>4. row \in TruthRow /\ TruthParses(row)
    BY <1>0, <2>1, <2>2, <2>3, NewRowParses DEF Kinds, Reviews
  <2>5. row.links = links  BY <2>1 DEF NewTruth
  <2>6. LinksResolve(row.links)  BY <2>2, <2>5
  <2>. QED  BY <2>2, <2>4, <2>6, InsertKept
<1>3. {"claim", "evidence", "inference"} \subseteq Kinds \ {"trust_assessment"}  BY DEF Kinds
<1>. QED  BY <1>1, <1>2, <1>3 DEF CreateClaim, CreateEvidence, CreateInference

(* A write that leaves the truth records alone. *)
LEMMA PendingKept ==
    ASSUME KInv, UNCHANGED <<truth, reviewed>>, commits' \in Nat,
           NEW c \in Clients, NEW w, pending' = [pending EXCEPT ![c] = w],
           w # None /\ w.table = "truth" => PendingTruth(w)
    PROVE  KInv'
<1>1. RowsSound'
  <2>1. \A t \in Truths : truth[t] # None => RowSound(t)'
    BY DEF KInv, RowsSound, RowSound, LinksResolve, TruthIs
  <2>. QED  BY <2>1 DEF KInv, RowsSound
<1>2. pending' = [d \in Clients |-> IF d = c THEN w ELSE pending[d]]
  BY DEF KInv, PendingSound
<1>3. ASSUME NEW d \in Clients, pending'[d] # None, pending'[d].table = "truth"
      PROVE  PendingTruth(pending[d])'
  <2>1. PICK v : v = pending'[d]  OBVIOUS
  <2>2. PendingTruth(v)
    <3>1. CASE d = c  BY <1>2, <1>3, <2>1, <3>1
    <3>2. CASE d # c  BY <1>2, <1>3, <2>1, <3>2 DEF KInv, PendingSound
    <3>. QED  BY <3>1, <3>2
  <2>3. PendingTruth(v)'  BY <2>2 DEF PendingTruth
  <2>. QED  BY <2>1, <2>3 DEF PendingTruth
<1>4. PendingSound'  BY <1>2, <1>3 DEF PendingSound
<1>. QED  BY <1>1, <1>4 DEF KInv

(* review and archive prepare what they have read, changed in one place. *)
LEMMA PreparesKept ==
    ASSUME KInv, NEW c \in Clients, NEW t \in Truths
    PROVE  /\ ArchiveTruth(c, t) => KInv'
           /\ \A review \in ReviewInputs : ReviewTruth(c, t, review) => KInv'
<1>1. ASSUME truth[t] # None PROVE truth[t] \in TruthRow /\ TruthParses(truth[t])
  BY <1>1 DEF KInv, RowsSound, RowSound
<1>2. ASSUME ArchiveTruth(c, t) PROVE KInv'
  <2>1. PICK row : row = [truth[t] EXCEPT !.active = FALSE]  OBVIOUS
  <2>2. PICK w : w = [table |-> "truth", id |-> t, row |-> row, rev |-> truth[t].rev]  OBVIOUS
  <2>3. /\ truth[t] # None /\ truth[t] \in TruthRow /\ TruthParses(truth[t])
        /\ pending' = [pending EXCEPT ![c] = w]
        /\ UNCHANGED <<truth, reviewed, commits>>
    BY <1>1, <1>2, <2>1, <2>2 DEF ArchiveTruth, Prepare
  <2>4. /\ row \in TruthRow /\ row.kind = truth[t].kind /\ row.source = truth[t].source
        /\ row.links = truth[t].links /\ row.provenance = truth[t].provenance
        /\ row.secret = truth[t].secret
        /\ row.review = truth[t].review /\ row.reviewer = truth[t].reviewer
    BY <2>1, <2>3 DEF TruthRow
  <2>5. TruthParses(row)  BY <2>3, <2>4, ParsesSame
  <2>6. truth[t].rev \in Nat \ {0}  BY <2>3 DEF TruthRow
  <2>7. PendingTruth(w)  BY <2>2, <2>3, <2>4, <2>5, <2>6 DEF PendingTruth
  <2>8. commits' \in Nat  BY <2>3 DEF KInv
  <2>. QED  BY <2>3, <2>7, <2>8, PendingKept
<1>3. ASSUME NEW review \in ReviewInputs, ReviewTruth(c, t, review) PROVE KInv'
  <2>1. PICK row : row = [truth[t] EXCEPT !.review = review,
                             !.reviewer = IF review = "unreviewed" THEN None ELSE "user"]
    OBVIOUS
  <2>2. PICK w : w = [table |-> "truth", id |-> t, row |-> row, rev |-> truth[t].rev]  OBVIOUS
  <2>3. /\ truth[t] # None /\ truth[t] \in TruthRow /\ TruthParses(truth[t])
        /\ truth[t].active /\ truth[t].kind # "trust_assessment"
        /\ pending' = [pending EXCEPT ![c] = w]
        /\ UNCHANGED <<truth, reviewed, commits>>
    BY <1>1, <1>3, <2>1, <2>2 DEF ReviewTruth, Prepare
  <2>4. review \in Reviews  BY TruthAssumption
  <2>5. /\ row \in TruthRow /\ row.kind = truth[t].kind /\ row.source = truth[t].source
        /\ row.links = truth[t].links /\ row.provenance = truth[t].provenance
        /\ row.secret = truth[t].secret
        /\ row.review = review /\ row.active
        /\ row.reviewer = IF review = "unreviewed" THEN None ELSE "user"
    BY <2>1, <2>3, <2>4 DEF TruthRow
  <2>6. ReviewValid(row.review, row.reviewer)  BY <2>5, TruthAssumption DEF ReviewValid
  <2>7. TruthParses(row)  BY <2>3, <2>5, <2>6 DEF TruthParses
  <2>8. truth[t].rev \in Nat \ {0}  BY <2>3 DEF TruthRow
  <2>9. PendingTruth(w)  BY <2>2, <2>3, <2>5, <2>7, <2>8 DEF PendingTruth
  <2>10. commits' \in Nat  BY <2>3 DEF KInv
  <2>. QED  BY <2>3, <2>9, <2>10, PendingKept
<1>. QED  BY <1>2, <1>3

(* The transaction of a pending truth write: the row it was computed from   *)
(* is still there, and every other write that waits is then out of date.   *)
LEMMA CommitTruthKept ==
    ASSUME KInv, NEW c \in Clients, NEW dated \in BOOLEAN, CommitTruth(c, dated)
    PROVE  KInv'
<1>1. PICK w : w = pending[c]  OBVIOUS
<1>2. PICK new : new = [w.row EXCEPT !.rev = w.rev + 1, !.dated = dated]  OBVIOUS
<1>3. /\ w # None /\ w.table = "truth" /\ CommitAllowed(truth[w.id], w)
      /\ truth' = [truth EXCEPT ![w.id] = new]
      /\ reviewed' = IF w.row.active THEN [reviewed EXCEPT ![w.id] = w.row.review] ELSE reviewed
      /\ pending' = [pending EXCEPT ![c] = None]
      /\ commits' = commits + 1
  BY <1>1, <1>2 DEF CommitTruth
<1>4. PendingTruth(w)  BY <1>1, <1>3 DEF KInv, PendingSound
<1>5. /\ w.id \in Truths /\ truth[w.id] # None /\ truth[w.id] \in TruthRow
      /\ truth[w.id].rev = w.rev /\ w.rev \in Nat \ {0}
  BY <1>3, <1>4 DEF CommitAllowed, PendingTruth, KInv, RowsSound
<1>6. /\ new \in TruthRow /\ new.kind = w.row.kind /\ new.source = w.row.source
      /\ new.links = w.row.links /\ new.provenance = w.row.provenance
      /\ new.review = w.row.review /\ new.reviewer = w.row.reviewer
      /\ new.active = w.row.active /\ new.rev = w.rev + 1 /\ new.secret = w.row.secret
  <2>1. PICK row, n : row = w.row /\ n = w.rev + 1  OBVIOUS
  <2>2. row \in TruthRow /\ n \in Nat \ {0}  BY <1>4, <1>5, <2>1 DEF PendingTruth
  <2>3. new = Committed(row, n, dated)  BY <1>2, <2>1 DEF Committed
  <2>4. /\ new \in TruthRow /\ new.kind = row.kind /\ new.source = row.source
        /\ new.links = row.links /\ new.provenance = row.provenance
        /\ new.review = row.review /\ new.reviewer = row.reviewer
        /\ new.active = row.active /\ new.rev = n /\ new.secret = row.secret
    BY <2>2, <2>3, RowCommitted
  <2>. QED  BY <2>1, <2>4
<1>7. TruthParses(new) /\ new # None
  BY <1>4, <1>6, ParsesSame, TruthAssumption DEF PendingTruth
<1>8. /\ truth'[w.id] = new
      /\ \A u \in Truths \ {w.id} : truth'[u] = truth[u] /\ reviewed'[u] = reviewed[u]
  BY <1>3, <1>5 DEF KInv, RowsSound
<1>9. \A u \in Truths : truth[u] # None =>
         truth'[u] # None /\ TruthParses(truth'[u]) /\ truth'[u].kind = truth[u].kind
  BY <1>4, <1>6, <1>7, <1>8 DEF KInv, RowsSound, RowSound, PendingTruth
<1>10. reviewed'[w.id] = new.review /\ reviewed' \in [Truths -> Reviews]
  <2>1. new.review \in Reviews  BY <1>6 DEF TruthRow
  <2>2. CASE w.row.active
    BY <1>3, <1>5, <1>6, <2>1, <2>2 DEF KInv, RowsSound
  <2>3. CASE ~ w.row.active
    <3>1. w.row.review = truth[w.id].review  BY <1>4, <1>5, <2>3 DEF PendingTruth
    <3>2. truth[w.id].review = reviewed[w.id]  BY <1>5 DEF KInv, RowsSound, RowSound
    <3>. QED  BY <1>3, <1>6, <2>3, <3>1, <3>2 DEF KInv, RowsSound
  <2>. QED  BY <2>2, <2>3
<1>11. ASSUME NEW u \in Truths, truth'[u] # None PROVE RowSound(u)'
  <2>1. truth[u] # None /\ truth[u] \in TruthRow /\ RowSound(u) /\ truth'[u].links = truth[u].links
    BY <1>4, <1>5, <1>6, <1>8, <1>11 DEF KInv, RowsSound, PendingTruth
  <2>2. PICK links : links = truth[u].links  OBVIOUS
  <2>3. \A l \in links : l[2] \in Truths  BY <2>1, <2>2, LinksTyped
  <2>4. LinksResolve(links)'  BY <1>9, <2>1, <2>2, <2>3, LinksLast DEF KInv, RowSound
  <2>5. LinksResolve(truth[u].links)'  BY <2>1, <2>2, <2>4
  <2>6. truth'[u].review = reviewed'[u]
    <3>1. CASE u = w.id  BY <1>8, <1>10, <3>1
    <3>2. CASE u # w.id  BY <1>8, <2>1, <3>2 DEF RowSound
    <3>. QED  BY <3>1, <3>2
  <2>. QED  BY <1>9, <2>1, <2>5, <2>6 DEF RowSound
<1>12. RowsSound'
  <2>1. truth' \in [Truths -> TruthRow \union {None}]  BY <1>3, <1>6 DEF KInv, RowsSound
  <2>. QED  BY <1>10, <1>11, <2>1 DEF RowsSound
<1>13. PendingSound'
  <2>1. pending' = [d \in Clients |-> IF d = c THEN None ELSE pending[d]]
    BY <1>3 DEF KInv, PendingSound
  <2>2. ASSUME NEW d \in Clients, pending'[d] # None, pending'[d].table = "truth"
        PROVE  PendingTruth(pending[d])'
    <3>1. PICK v : v = pending[d]  OBVIOUS
    <3>2. pending'[d] = v /\ PendingTruth(v)  BY <2>1, <2>2, <3>1 DEF KInv, PendingSound
    <3>3. CASE v.id # w.id
      <4>1. truth'[v.id] = truth[v.id]  BY <1>8, <3>2, <3>3 DEF PendingTruth
      <4>. QED  BY <3>2, <4>1 DEF PendingTruth
    <3>4. CASE v.id = w.id
      <4>1. v.rev \in Nat /\ v.rev <= w.rev  BY <1>5, <3>2, <3>4 DEF PendingTruth
      <4>2. v.rev <= new.rev /\ v.rev # new.rev  BY <1>5, <1>6, <4>1
      <4>3. new.kind = truth[w.id].kind /\ new.links = truth[w.id].links
            /\ new.secret = truth[w.id].secret
        BY <1>4, <1>6 DEF PendingTruth
      <4>4. truth'[v.id] = new  BY <1>8, <3>4
      <4>. QED  BY <1>7, <3>2, <3>4, <4>2, <4>3, <4>4 DEF PendingTruth
    <3>. QED  BY <3>3, <3>4
  <2>. QED  BY <2>1, <2>2 DEF PendingSound
<1>14. commits' \in Nat  BY <1>3 DEF KInv
<1>. QED  BY <1>12, <1>13, <1>14 DEF KInv

LEMMA AbandonKept ==
    ASSUME KInv, NEW c \in Clients, Abandon(c)
    PROVE  KInv'
<1>1. /\ pending' = [pending EXCEPT ![c] = None] /\ UNCHANGED <<truth, reviewed, commits>>
  BY DEF Abandon
<1>2. commits' \in Nat  BY <1>1 DEF KInv
<1>. QED  BY <1>1, <1>2, PendingKept
-----------------------------------------------------------------------------
LEMMA KInitially == TruthInit => KInv
<1>. QED  BY DEF TruthInit, KInv, RowsSound, PendingSound, Reviews

LEMMA KPreserved == KInv /\ [TruthNext]_truthVars => KInv'
<1>. SUFFICES ASSUME KInv, [TruthNext]_truthVars PROVE KInv'  OBVIOUS
<1>1. CASE UNCHANGED truthVars
  <2>1. RowsSound'
    BY <1>1 DEF truthVars, KInv, RowsSound, RowSound, LinksResolve, TruthIs
  <2>2. PendingSound'  BY <1>1 DEF truthVars, KInv, PendingSound, PendingTruth
  <2>. QED  BY <1>1, <2>1, <2>2 DEF truthVars, KInv
<1>2. CASE TruthNext
  <2>1. \A t \in Unused(truth, {}) : t \in Truths /\ truth[t] = None
    BY DEF Unused, KInv, RowsSound
  <2>. QED  BY <1>2, <2>1, CreatesKept, PreparesKept, CommitTruthKept, AbandonKept DEF TruthNext
<1>. QED  BY <1>1, <1>2

(* A row that parses says whose it is. *)
LEMMA ParsedHonest == KInv => TruthSound
<1>. SUFFICES ASSUME KInv PROVE TruthSound  OBVIOUS
<1>1. TruthTypeOK /\ ReviewsKept  BY DEF KInv, RowsSound, RowSound, TruthTypeOK, ReviewsKept
<1>2. ASSUME NEW t \in Truths, truth[t] # None
      PROVE  /\ TruthParses(truth[t]) /\ LinksResolve(truth[t].links)
             /\ truth[t].provenance = "user-created" => truth[t].source.actor = "user"
             /\ truth[t].kind # "trust_assessment" /\ truth[t].source.actor = "model" =>
                   truth[t].provenance = "model-proposed"
  <2>1. TruthParses(truth[t]) /\ LinksResolve(truth[t].links)
    BY <1>2 DEF KInv, RowsSound, RowSound
  <2>2. CASE truth[t].kind = "trust_assessment"
    BY <2>1, <2>2 DEF TruthParses
  <2>3. CASE truth[t].kind # "trust_assessment"
    <3>1. SourceValid(truth[t].source) /\ truth[t].provenance = RecordProvenance(truth[t].source)
      BY <2>1, <2>3 DEF TruthParses
    <3>. QED  BY <2>1, <2>3, <3>1 DEF RecordProvenance, SourceValid, OriginActor
  <2>. QED  BY <2>2, <2>3
<1>. QED  BY <1>1, <1>2 DEF TruthSound, TruthHonest

(* Whoever creates truth records, and whatever writes to them race: every    *)
(* record can be read and leads to records of the right kind, nobody       *)
(* passes for the user, and no acknowledged review is undone               *)
(* (_validate_source_values, _record_provenance, _update_truth_record).    *)
THEOREM TruthAlwaysSound == TruthSpec => []TruthSound
<1>. QED  BY KInitially, KPreserved, ParsedHonest, PTL DEF TruthSpec
-----------------------------------------------------------------------------
(* Procedures.  What was accepted is frozen, so a procedure that another one *)
(* names, once accepted, stays of its project and its version, and goes on *)
(* naming what it replaced.                                                *)
Frozen(old, new) ==
    /\ new.project = old.project
    /\ old.status \in Accepted =>
          /\ new.status \in Accepted
          /\ new.complete = old.complete /\ new.version = old.version
          /\ new.sources = old.sources /\ new.supersedes = old.supersedes
    /\ old.status \in {"deprecated", "superseded"} =>
          new.status = old.status /\ new.supersededBy = old.supersededBy

NamesPredecessor(row) ==
    row.supersedes # None =>
       LET q == row.supersedes
       IN  /\ proc[q] # None /\ proc[q].status \in Accepted
           /\ proc[q].project = row.project /\ proc[q].version < row.version

NamesReplacement(p, row) ==
    row.supersededBy # None =>
       LET q == row.supersededBy
       IN  /\ proc[q] # None /\ proc[q].status \in Accepted
           /\ proc[q].project = row.project /\ proc[q].version > row.version
           /\ proc[q].supersedes = p

NamesRecords(row) ==
    /\ \A s \in row.sources : truth[s] # None
    /\ \A e \in row.evidence : TruthIs(e, "evidence")

ProcSound(p, row) ==
    SemanticsOk(p, row) /\ NamesPredecessor(row) /\ NamesReplacement(p, row) /\ NamesRecords(row)

ProcsSound == ProcTypeOK /\ \A p \in Procs : proc[p] # None => ProcSound(p, proc[p])

(* A pending write of a procedure: a row that would be sound, and, until its *)
(* revision is overtaken, a change the row that is there allows.           *)
PendingProc(w) ==
    /\ w.id \in Procs /\ w.row \in ProcRow /\ w.rev \in Nat
    /\ ProcSound(w.id, w.row)
    /\ w.rev # 0 =>
          /\ proc[w.id] # None /\ w.rev <= proc[w.id].rev
          /\ w.rev = proc[w.id].rev =>
                /\ Frozen(proc[w.id], w.row)
                /\ proc[w.id].status \in {"deprecated", "superseded"} => ~w.row.active

PendingProcs == \A c \in Clients :
                   pending[c] # None /\ pending[c].table = "procedure" => PendingProc(pending[c])

PInv == KInv /\ ProcsSound /\ PendingProcs

(* A truth record stays, can be read, keeps its kind, and stays archived. *)
TruthsLast ==
    \A t \in Truths : truth[t] # None =>
       /\ truth'[t] # None /\ TruthParses(truth'[t]) /\ truth'[t].kind = truth[t].kind
       /\ truth'[t].secret = truth[t].secret
       /\ ~truth[t].active => ~truth'[t].active

(* A procedure stays, and stays what it was accepted as. *)
ProcsLast == \A p \in Procs : proc[p] # None => proc'[p] # None /\ Frozen(proc[p], proc'[p])

LEMMA FrozenSame == ASSUME NEW old PROVE Frozen(old, old)
<1>. QED  BY DEF Frozen

(* What truth records and procedures keep, every row keeps of them. *)
LEMMA SoundLasts ==
    ASSUME PInv, TruthsLast, ProcsLast, NEW p, NEW row \in ProcRow, ProcSound(p, row)
    PROVE  ProcSound(p, row)'
<1>1. row.sources \subseteq Truths /\ row.evidence \subseteq Truths
      /\ row.supersedes \in Procs \union {None} /\ row.supersededBy \in Procs \union {None}
  BY DEF ProcRow
<1>2. NamesRecords(row)'
  BY <1>1 DEF ProcSound, NamesRecords, TruthsLast, TruthIs
<1>3. NamesPredecessor(row)'
  BY <1>1 DEF ProcSound, NamesPredecessor, ProcsLast, Frozen
<1>4. NamesReplacement(p, row)'
  BY <1>1 DEF ProcSound, NamesReplacement, ProcsLast, Frozen
<1>5. SemanticsOk(p, row)'  BY DEF ProcSound, SemanticsOk
<1>. QED  BY <1>2, <1>3, <1>4, <1>5 DEF ProcSound

(* The steps of truth records, as far as procedures see them. *)
LEMMA TruthStepLasts ==
    ASSUME KInv, TruthNext
    PROVE  /\ TruthsLast
           /\ \A c \in Clients : pending'[c] \in {pending[c], None} \/ pending'[c].table = "truth"
<1>. DEFINE Rest == \A c \in Clients : pending'[c] \in {pending[c], None} \/ pending'[c].table = "truth"
<1>1. ASSUME UNCHANGED truth PROVE TruthsLast
  BY <1>1 DEF TruthsLast, KInv, RowsSound, RowSound
<1>2. ASSUME NEW t \in Unused(truth, {}), NEW row, Insert(t, row) PROVE TruthsLast /\ Rest
  <2>1. t \in Truths /\ truth[t] = None  BY DEF Unused, KInv, RowsSound
  <2>2. truth' = [truth EXCEPT ![t] = row] /\ pending' = pending  BY <1>2 DEF Insert
  <2>3. \A u \in Truths \ {t} : truth'[u] = truth[u]  BY <2>2 DEF KInv, RowsSound
  <2>. QED  BY <2>1, <2>2, <2>3 DEF TruthsLast, KInv, RowsSound, RowSound
<1>3. ASSUME NEW c \in Clients, NEW t \in Truths, ArchiveTruth(c, t) PROVE TruthsLast /\ Rest
  BY <1>1, <1>3 DEF ArchiveTruth, Prepare, KInv, PendingSound
<1>4. ASSUME NEW c \in Clients, NEW t \in Truths, NEW review, ReviewTruth(c, t, review)
      PROVE  TruthsLast /\ Rest
  BY <1>1, <1>4 DEF ReviewTruth, Prepare, KInv, PendingSound
<1>5. ASSUME NEW c \in Clients, NEW dated \in BOOLEAN, CommitTruth(c, dated) PROVE TruthsLast /\ Rest
  <2>1. PICK w : w = pending[c]  OBVIOUS
  <2>2. PICK new : new = [w.row EXCEPT !.rev = w.rev + 1, !.dated = dated]  OBVIOUS
  <2>3. /\ w # None /\ w.table = "truth" /\ CommitAllowed(truth[w.id], w)
        /\ truth' = [truth EXCEPT ![w.id] = new] /\ pending' = [pending EXCEPT ![c] = None]
    BY <1>5, <2>1, <2>2 DEF CommitTruth
  <2>4. PendingTruth(w)  BY <2>1, <2>3 DEF KInv, PendingSound
  <2>5. w.id \in Truths /\ truth[w.id].active  BY <2>3, <2>4 DEF CommitAllowed, PendingTruth
  <2>6. /\ new.kind = w.row.kind /\ new.source = w.row.source /\ new.links = w.row.links
        /\ new.provenance = w.row.provenance /\ new.review = w.row.review
        /\ new.reviewer = w.row.reviewer /\ new \in TruthRow /\ new.secret = w.row.secret
    <3>1. PICK row, n : row = w.row /\ n = w.rev + 1  OBVIOUS
    <3>2. row \in TruthRow /\ n \in Nat \ {0}  BY <2>4, <3>1 DEF PendingTruth
    <3>3. new = Committed(row, n, dated)  BY <2>2, <3>1 DEF Committed
    <3>4. /\ new \in TruthRow /\ new.kind = row.kind /\ new.source = row.source
          /\ new.links = row.links /\ new.provenance = row.provenance
          /\ new.review = row.review /\ new.reviewer = row.reviewer
          /\ new.active = row.active /\ new.rev = n /\ new.secret = row.secret
      BY <3>2, <3>3, RowCommitted
    <3>. QED  BY <3>1, <3>4
  <2>7. TruthParses(new) /\ new # None /\ new.kind = truth[w.id].kind
        /\ new.secret = truth[w.id].secret
    BY <2>4, <2>6, ParsesSame, TruthAssumption DEF PendingTruth
  <2>8. truth'[w.id] = new /\ \A u \in Truths \ {w.id} : truth'[u] = truth[u]
    BY <2>3, <2>5 DEF KInv, RowsSound
  <2>9. Rest  BY <2>3 DEF KInv, PendingSound
  <2>. QED  BY <2>5, <2>7, <2>8, <2>9 DEF TruthsLast, KInv, RowsSound, RowSound
<1>6. ASSUME NEW c \in Clients, Abandon(c) PROVE TruthsLast /\ Rest
  BY <1>1, <1>6 DEF Abandon, KInv, PendingSound
<1>7. ASSUME NEW t \in Unused(truth, {}), NEW kind, NEW s, NEW review, NEW links, NEW secret,
             CreateTruth(t, kind, s, review, links, secret)
      PROVE  TruthsLast /\ Rest
  BY <1>2, <1>7 DEF CreateTruth
<1>8. ASSUME NEW t \in Unused(truth, {}), NEW s, NEW subject, NEW links, NEW secret,
             AssessTrust(t, s, subject, links, secret)
      PROVE  TruthsLast /\ Rest
  BY <1>2, <1>8 DEF AssessTrust
<1>. QED
  BY <1>3, <1>4, <1>5, <1>6, <1>7, <1>8
     DEF TruthNext, CreateClaim, CreateEvidence, CreateInference

(* A step that changes no procedure, and prepares at most a sound change.    *)
LEMMA ProcsStand ==
    ASSUME PInv, KInv', TruthsLast, proc' = proc, project' \in [Projects -> ProjectRow],
           \A c \in Clients : pending'[c] # None /\ pending'[c].table = "procedure" =>
              pending'[c] = pending[c] \/ PendingProc(pending'[c])
    PROVE  PInv'
<1>1. ProcsLast  BY FrozenSame DEF ProcsLast
<1>2. ProcsSound'
  <2>. SUFFICES ASSUME NEW p \in Procs, proc[p] # None PROVE ProcSound(p, proc[p])'
    BY DEF PInv, ProcsSound, ProcTypeOK
  <2>1. PICK row : row = proc[p]  OBVIOUS
  <2>2. row \in ProcRow /\ ProcSound(p, row)  BY <2>1 DEF PInv, ProcsSound, ProcTypeOK
  <2>3. ProcSound(p, row)'  BY <1>1, <2>2, SoundLasts
  <2>4. proc'[p] = row  BY <2>1
  <2>. QED  BY <2>3, <2>4
<1>3. ASSUME NEW c \in Clients, pending'[c] # None, pending'[c].table = "procedure"
      PROVE  PendingProc(pending[c])'
  <2>1. PICK w : w = pending'[c]  OBVIOUS
  <2>2. PendingProc(w)  BY <1>3, <2>1 DEF PInv, PendingProcs
  <2>3. ProcSound(w.id, w.row)'  BY <1>1, <2>2, SoundLasts DEF PendingProc
  <2>4. PendingProc(w)'  BY <2>2, <2>3 DEF PendingProc, Frozen
  <2>. QED  BY <2>1, <2>4
<1>. QED  BY <1>2, <1>3 DEF PInv, PendingProcs

(* The steps of truth records disturb no procedure. *)
LEMMA TruthStepKept ==
    ASSUME PInv, TruthNext, UNCHANGED procVars
    PROVE  PInv'
<1>1. KInv /\ KInv'  BY KPreserved DEF PInv
<1>2. TruthsLast
      /\ \A c \in Clients : pending'[c] \in {pending[c], None} \/ pending'[c].table = "truth"
  BY <1>1, TruthStepLasts
<1>3. \A c \in Clients : pending'[c] # None /\ pending'[c].table = "procedure" =>
         pending'[c] = pending[c] \/ PendingProc(pending'[c])
  BY <1>2
<1>4. proc' = proc /\ project' \in [Projects -> ProjectRow]
  BY DEF procVars, PInv, ProcsSound, ProcTypeOK
<1>. QED  BY <1>1, <1>2, <1>3, <1>4, ProcsStand

(* Whoever prepares a write of a procedure. *)
LEMMA PrepareStands ==
    ASSUME PInv, NEW c \in Clients, NEW p \in Procs, NEW row \in ProcRow, NEW rev \in Nat,
           Prepare(c, "procedure", p, row, rev), UNCHANGED <<truth, reviewed, commits, procVars>>,
           ProcSound(p, row),
           rev # 0 => /\ proc[p] # None /\ rev = proc[p].rev
                      /\ Frozen(proc[p], row)
                      /\ proc[p].status \in {"deprecated", "superseded"} => ~row.active
    PROVE  PInv'
<1>1. PICK w : w = [table |-> "procedure", id |-> p, row |-> row, rev |-> rev]  OBVIOUS
<1>2. pending' = [pending EXCEPT ![c] = w]  BY <1>1 DEF Prepare
<1>3. PendingProc(w)
  <2>1. rev # 0 => rev <= proc[p].rev  OBVIOUS
  <2>. QED  BY <1>1, <2>1 DEF PendingProc
<1>4. KInv'
  <2>1. commits' \in Nat /\ KInv  BY DEF PInv, KInv
  <2>2. w # None /\ w.table = "truth" => PendingTruth(w)  BY <1>1
  <2>. QED  BY <1>2, <2>1, <2>2, PendingKept
<1>5. TruthsLast  BY DEF TruthsLast, PInv, KInv, RowsSound, RowSound
<1>6. \A d \in Clients : pending'[d] = IF d = c THEN w ELSE pending[d]
  BY <1>2 DEF PInv, KInv, PendingSound
<1>7. \A d \in Clients : pending'[d] # None /\ pending'[d].table = "procedure" =>
         pending'[d] = pending[d] \/ PendingProc(pending'[d])
  BY <1>3, <1>6
<1>8. proc' = proc /\ project' \in [Projects -> ProjectRow]
  BY DEF procVars, PInv, ProcsSound, ProcTypeOK
<1>. QED  BY <1>4, <1>5, <1>7, <1>8, ProcsStand

(* What a change of a procedure may write. *)
LEMMA ChangeKept ==
    ASSUME PInv, NEW c \in Clients, NEW p \in Procs, NEW from, NEW row,
           proc[p] # None, Change(c, p, from, row), NEW new,
           new = [row EXCEPT !.provenance = "user-confirmed"],
           new \in ProcRow, ProcSound(p, new), Frozen(proc[p], new),
           proc[p].status \in {"deprecated", "superseded"} => ~new.active
    PROVE  PInv'
<1>1. proc[p].rev \in Nat \ {0}  BY DEF PInv, ProcsSound, ProcTypeOK, ProcRow
<1>2. Prepare(c, "procedure", p, new, proc[p].rev)
      /\ UNCHANGED <<truth, reviewed, commits, procVars>>
  BY DEF Change
<1>. QED  BY <1>1, <1>2, PrepareStands

LEMMA CreateProcedureKept ==
    ASSUME PInv, NEW c \in Clients, NEW p \in Procs, NEW prj \in Projects, NEW f \in Forms,
           NEW sup \in OptProcs, NEW src \in AtMostOne("claim"),
           CreateProcedure(c, p, prj, f, src, sup)
    PROVE  PInv'
<1>1. PICK row : row = NewProc(prj, f, src, sup)  OBVIOUS
<1>2. /\ SemanticsOk(p, row) /\ LinksOk(p, row) /\ Prepare(c, "procedure", p, row, 0)
      /\ UNCHANGED <<truth, reviewed, commits, procVars>>
  BY <1>1 DEF CreateProcedure, PrepareProc
<1>3. row \in ProcRow
  <2>1. /\ f.status \in Statuses /\ f.version \in Versions /\ f.complete \in BOOLEAN
        /\ f.provenance \in Provenances /\ f.secret \in BOOLEAN
    BY ProcedureAssumption DEF Statuses, Accepted
  <2>2. src \subseteq Truths /\ sup \in Procs \union {None}  BY DEF AtMostOne, OptProcs
  <2>. QED  BY <1>1, <2>1, <2>2 DEF NewProc, ProcRow
<1>4. ProcSound(p, row)
  <2>1. row.supersededBy = None  BY <1>1 DEF NewProc
  <2>2. NamesPredecessor(row)
    BY <1>2 DEF LinksOk, PredecessorOk, NamesPredecessor, Accepted
  <2>3. NamesReplacement(p, row)  BY <2>1 DEF NamesReplacement
  <2>4. NamesRecords(row)  BY <1>2 DEF LinksOk, RecordsOk, NamesRecords
  <2>. QED  BY <1>2, <2>2, <2>3, <2>4 DEF ProcSound
<1>. QED  BY <1>2, <1>3, <1>4, PrepareStands

(* The changes of a procedure that was read with its links. *)
LEMMA ChangesKept ==
    ASSUME PInv, NEW c \in Clients, NEW p \in Procs, proc[p] # None
    PROVE  /\ \A v \in Versions, full \in BOOLEAN, sup \in OptProcs, src \in AtMostOne("claim") :
                 UpdateDraft(c, p, v, full, src, sup) => PInv'
           /\ \A ev \in AtMostOne("evidence") : Verify(c, p, ev) => PInv'
           /\ \A q \in Procs : Supersede(c, p, q) => PInv'
           /\ Approve(c, p) => PInv'
           /\ Deprecate(c, p) => PInv'
           /\ ArchiveProcedure(c, p) => PInv'
<1>0. PICK old : old = proc[p]  OBVIOUS
<1>a. old \in ProcRow /\ ProcSound(p, old) /\ None \notin Procs
  BY <1>0, ProcedureAssumption DEF PInv, ProcsSound, ProcTypeOK
<1>1. ASSUME NEW v \in Versions, NEW full \in BOOLEAN, NEW sup \in OptProcs,
             NEW src \in AtMostOne("claim"), UpdateDraft(c, p, v, full, src, sup)
      PROVE  PInv'
  <2>1. PICK row : row = [old EXCEPT !.version = v, !.complete = full,
                                     !.sources = src, !.supersedes = sup]
    OBVIOUS
  <2>2. PICK new : new = [row EXCEPT !.provenance = "user-confirmed"]  OBVIOUS
  <2>3. /\ SemanticsOk(p, row) /\ LinksOk(p, row) /\ Change(c, p, {"draft"}, row)
        /\ old.status = "draft"
    BY <1>0, <1>1, <2>1 DEF UpdateDraft, Change
  <2>4. src \subseteq Truths /\ sup \in Procs \union {None}  BY DEF AtMostOne, OptProcs
  <2>5. /\ new \in ProcRow /\ new.project = old.project /\ new.status = "draft"
        /\ new.supersededBy = old.supersededBy /\ new.evidence = old.evidence
        /\ new.supersedes = row.supersedes /\ new.version = row.version
        /\ new.sources = row.sources /\ new.project = row.project
        /\ row.supersededBy = old.supersededBy /\ row.evidence = old.evidence
        /\ row.status = old.status /\ new.complete = row.complete /\ new.verified = row.verified
    BY <1>a, <2>1, <2>2, <2>3, <2>4 DEF ProcRow, Provenances, Trusted
  <2>6. SemanticsOk(p, new)  BY <2>3, <2>5 DEF SemanticsOk, Accepted
  <2>7. new.supersededBy = None  BY <2>5, <2>6 DEF SemanticsOk
  <2>8. NamesPredecessor(new)
    BY <2>3, <2>5 DEF LinksOk, PredecessorOk, NamesPredecessor, Accepted
  <2>9. NamesReplacement(p, new)  BY <2>7 DEF NamesReplacement
  <2>10. NamesRecords(new)  BY <2>3, <2>5 DEF LinksOk, RecordsOk, NamesRecords
  <2>11. ProcSound(p, new)  BY <2>6, <2>8, <2>9, <2>10 DEF ProcSound
  <2>12. Frozen(old, new)  BY <2>3, <2>5 DEF Frozen, Accepted
  <2>13. old.status \notin {"deprecated", "superseded"}  BY <2>3
  <2>. QED  BY <1>0, <2>2, <2>3, <2>5, <2>11, <2>12, <2>13, ChangeKept
<1>2. ASSUME NEW ev \in AtMostOne("evidence"), Verify(c, p, ev) PROVE PInv'
  <2>1. PICK row : row = [old EXCEPT !.verified = TRUE, !.evidence = ev]  OBVIOUS
  <2>2. PICK new : new = [row EXCEPT !.provenance = "user-confirmed"]  OBVIOUS
  <2>3. /\ Change(c, p, {"approved"}, row) /\ old.status = "approved"
        /\ \A e \in ev : TruthIs(e, "evidence")
    BY <1>0, <1>2, <2>1 DEF Verify, Change
  <2>4. ev \subseteq Truths  BY DEF AtMostOne
  <2>5. /\ new \in ProcRow /\ new.project = old.project /\ new.status = old.status
        /\ new.supersededBy = old.supersededBy /\ new.evidence = ev /\ new.verified
        /\ new.supersedes = old.supersedes /\ new.version = old.version
        /\ new.sources = old.sources /\ new.complete = old.complete
        /\ new.provenance = "user-confirmed"
    BY <1>a, <2>1, <2>2, <2>4 DEF ProcRow, Provenances, Trusted
  <2>6. ProcSound(p, new)
    BY <1>a, <2>3, <2>5 DEF ProcSound, SemanticsOk, NamesPredecessor, NamesReplacement,
                            NamesRecords, Trusted
  <2>7. Frozen(old, new)  BY <2>3, <2>5 DEF Frozen, Accepted
  <2>8. old.status \notin {"deprecated", "superseded"}  BY <2>3
  <2>. QED  BY <1>0, <2>2, <2>3, <2>5, <2>6, <2>7, <2>8, ChangeKept
<1>3. ASSUME NEW q \in Procs, Supersede(c, p, q) PROVE PInv'
  <2>1. PICK row : row = [old EXCEPT !.status = "superseded", !.supersededBy = q]  OBVIOUS
  <2>2. PICK new : new = [row EXCEPT !.provenance = "user-confirmed"]  OBVIOUS
  <2>3. /\ Change(c, p, {"approved"}, row) /\ old.status = "approved" /\ MayReplace(p, q)
    BY <1>0, <1>3, <2>1 DEF Supersede, Change
  <2>4. /\ proc[q] # None /\ proc[q].status = "approved" /\ proc[q].project = old.project
        /\ proc[q].version > old.version /\ proc[q].supersedes = p
    BY <1>0, <2>3 DEF MayReplace, Readable
  <2>5. q # p
    <3>1. old.version \in Nat  BY <1>a, ProcedureAssumption DEF ProcRow
    <3>. QED  BY <1>0, <2>4, <3>1
  <2>6. /\ new \in ProcRow /\ new.project = old.project /\ new.status = "superseded"
        /\ new.supersededBy = q /\ new.evidence = old.evidence /\ new.verified = old.verified
        /\ new.supersedes = old.supersedes /\ new.version = old.version
        /\ new.sources = old.sources /\ new.complete = old.complete
        /\ new.provenance = "user-confirmed"
    BY <1>a, <2>1, <2>2 DEF ProcRow, Provenances, Trusted, Statuses, Accepted
  <2>7. SemanticsOk(p, new)
    BY <1>a, <2>3, <2>5, <2>6 DEF ProcSound, SemanticsOk, Trusted, Accepted
  <2>8. NamesReplacement(p, new)  BY <2>4, <2>6 DEF NamesReplacement, Accepted
  <2>9. NamesPredecessor(new) /\ NamesRecords(new)
    BY <1>a, <2>6 DEF ProcSound, NamesPredecessor, NamesRecords
  <2>10. ProcSound(p, new)  BY <2>7, <2>8, <2>9 DEF ProcSound
  <2>11. Frozen(old, new)  BY <2>3, <2>6 DEF Frozen, Accepted
  <2>12. old.status \notin {"deprecated", "superseded"}  BY <2>3
  <2>. QED  BY <1>0, <2>2, <2>3, <2>6, <2>10, <2>11, <2>12, ChangeKept
<1>4. ASSUME Approve(c, p) PROVE PInv'
  <2>1. PICK row : row = [old EXCEPT !.status = "approved"]  OBVIOUS
  <2>2. PICK new : new = [row EXCEPT !.provenance = "user-confirmed"]  OBVIOUS
  <2>3. Change(c, p, {"draft"}, row) /\ old.status = "draft" /\ old.complete
    BY <1>0, <1>4, <2>1 DEF Approve, Change
  <2>5. /\ new \in ProcRow /\ new.project = old.project /\ new.status = "approved"
        /\ new.supersededBy = old.supersededBy /\ new.evidence = old.evidence
        /\ new.verified = old.verified /\ new.supersedes = old.supersedes
        /\ new.version = old.version /\ new.sources = old.sources /\ new.complete = old.complete
        /\ new.provenance = "user-confirmed"
    BY <1>a, <2>1, <2>2 DEF ProcRow, Provenances, Trusted, Statuses, Accepted
  <2>6. SemanticsOk(p, new)
    BY <1>a, <2>3, <2>5 DEF ProcSound, SemanticsOk, Trusted, Accepted
  <2>7. NamesPredecessor(new) /\ NamesReplacement(p, new) /\ NamesRecords(new)
    BY <1>a, <2>5 DEF ProcSound, NamesPredecessor, NamesReplacement, NamesRecords
  <2>8. ProcSound(p, new)  BY <2>6, <2>7 DEF ProcSound
  <2>9. Frozen(old, new)  BY <2>3, <2>5 DEF Frozen, Accepted
  <2>10. old.status \notin {"deprecated", "superseded"}  BY <2>3
  <2>. QED  BY <1>0, <2>2, <2>3, <2>5, <2>8, <2>9, <2>10, ChangeKept
<1>5. ASSUME Deprecate(c, p) PROVE PInv'
  <2>1. PICK row : row = [old EXCEPT !.status = "deprecated"]  OBVIOUS
  <2>2. PICK new : new = [row EXCEPT !.provenance = "user-confirmed"]  OBVIOUS
  <2>3. Change(c, p, {"approved"}, row) /\ old.status = "approved"
    BY <1>0, <1>5, <2>1 DEF Deprecate, Change
  <2>5. /\ new \in ProcRow /\ new.project = old.project /\ new.status = "deprecated"
        /\ new.supersededBy = old.supersededBy /\ new.evidence = old.evidence
        /\ new.verified = old.verified /\ new.supersedes = old.supersedes
        /\ new.version = old.version /\ new.sources = old.sources /\ new.complete = old.complete
        /\ new.provenance = "user-confirmed"
    BY <1>a, <2>1, <2>2 DEF ProcRow, Provenances, Trusted, Statuses, Accepted
  <2>6. SemanticsOk(p, new)
    BY <1>a, <2>3, <2>5 DEF ProcSound, SemanticsOk, Trusted, Accepted
  <2>7. NamesPredecessor(new) /\ NamesReplacement(p, new) /\ NamesRecords(new)
    BY <1>a, <2>5 DEF ProcSound, NamesPredecessor, NamesReplacement, NamesRecords
  <2>8. ProcSound(p, new)  BY <2>6, <2>7 DEF ProcSound
  <2>9. Frozen(old, new)  BY <2>3, <2>5 DEF Frozen, Accepted
  <2>10. old.status \notin {"deprecated", "superseded"}  BY <2>3
  <2>. QED  BY <1>0, <2>2, <2>3, <2>5, <2>8, <2>9, <2>10, ChangeKept
<1>6. ASSUME ArchiveProcedure(c, p) PROVE PInv'
  <2>1. PICK row : row = [old EXCEPT !.active = FALSE]  OBVIOUS
  <2>2. PICK new : new = [row EXCEPT !.provenance = "user-confirmed"]  OBVIOUS
  <2>3. Change(c, p, Statuses, row)  BY <1>0, <1>6, <2>1 DEF ArchiveProcedure
  <2>5. /\ new \in ProcRow /\ new.project = old.project /\ new.status = old.status
        /\ new.supersededBy = old.supersededBy /\ new.evidence = old.evidence
        /\ new.verified = old.verified /\ new.supersedes = old.supersedes
        /\ new.version = old.version /\ new.sources = old.sources /\ new.complete = old.complete
        /\ new.provenance = "user-confirmed" /\ ~new.active
    BY <1>a, <2>1, <2>2 DEF ProcRow, Provenances, Trusted
  <2>6. SemanticsOk(p, new)
    BY <1>a, <2>5 DEF ProcSound, SemanticsOk, Trusted, Accepted
  <2>7. NamesPredecessor(new) /\ NamesReplacement(p, new) /\ NamesRecords(new)
    BY <1>a, <2>5 DEF ProcSound, NamesPredecessor, NamesReplacement, NamesRecords
  <2>8. ProcSound(p, new)  BY <2>6, <2>7 DEF ProcSound
  <2>9. Frozen(old, new)  BY <2>5 DEF Frozen
  <2>. QED  BY <1>0, <2>2, <2>3, <2>5, <2>8, <2>9, ChangeKept
<1>. QED  BY <1>1, <1>2, <1>3, <1>4, <1>5, <1>6

(* What a step never undoes: beyond what truth records and procedures keep, a *)
(* project does not come back, a procedure changes only by a pending write *)
(* for it while it is active, and nobody prepares a write for a procedure  *)
(* that is there and cannot be read.                                       *)
ProcStep ==
    /\ TruthsLast /\ ProcsLast
    /\ \A prj \in Projects : ProjectUsable(prj)' => ProjectUsable(prj)
    /\ \A p \in Procs : proc[p] # None /\ proc'[p] # proc[p] =>
          /\ \E c \in Clients : pending[c] # None /\ pending[c].table = "procedure"
                                /\ pending[c].id = p
          /\ proc[p].active
          /\ proc[p].status \in {"deprecated", "superseded"} => ~proc'[p].active
    /\ \A c \in Clients : pending'[c] # None /\ pending'[c].table = "procedure" =>
          \/ pending'[c] = pending[c]
          \/ proc[pending'[c].id] = None
          \/ Readable(pending'[c].id)

(* A step that changes no procedure.                                       *)
LEMMA StandsStep ==
    ASSUME PInv, TruthsLast, proc' = proc,
           \A prj \in Projects : ProjectUsable(prj)' => ProjectUsable(prj),
           \A c \in Clients : pending'[c] # None /\ pending'[c].table = "procedure" =>
              \/ pending'[c] = pending[c]
              \/ proc[pending'[c].id] = None
              \/ Readable(pending'[c].id)
    PROVE  ProcStep
<1>1. ProcsLast  BY FrozenSame DEF ProcsLast
<1>. QED  BY <1>1 DEF ProcStep

(* What a transaction makes of the row that waits for it. *)
LEMMA ProcCommitted ==
    ASSUME NEW row \in ProcRow, NEW n \in Nat \ {0}, NEW dated \in BOOLEAN, NEW new,
           new = [row EXCEPT !.rev = n, !.dated = dated]
    PROVE  new \in ProcRow /\ new.rev = n
<1>1. CASE dated = TRUE  BY <1>1 DEF ProcRow
<1>2. CASE dated = FALSE  BY <1>2 DEF ProcRow
<1>. QED  BY <1>1, <1>2

(* The transaction of a pending procedure write: a new procedure, or a row *)
(* computed from the one that is there.                                    *)
LEMMA CommitProcedureKept ==
    ASSUME PInv, NEW c \in Clients, NEW dated \in BOOLEAN, CommitProcedure(c, dated)
    PROVE  PInv' /\ ProcStep
<1>1. PICK w : w = pending[c]  OBVIOUS
<1>2. PICK new : new = [w.row EXCEPT !.rev = w.rev + 1, !.dated = dated]  OBVIOUS
<1>3. /\ w # None /\ w.table = "procedure" /\ CommitAllowed(proc[w.id], w)
      /\ proc' = [proc EXCEPT ![w.id] = new]
      /\ pending' = [pending EXCEPT ![c] = None]
      /\ commits' = commits + 1 /\ UNCHANGED <<truth, reviewed, project>>
  BY <1>1, <1>2 DEF CommitProcedure
<1>4. PendingProc(w)  BY <1>1, <1>3 DEF PInv, PendingProcs
<1>5. w.id \in Procs /\ w.rev \in Nat /\ w.row \in ProcRow  BY <1>4 DEF PendingProc
<1>6. new \in ProcRow /\ new.rev = w.rev + 1
  <2>1. PICK row, n : row = w.row /\ n = w.rev + 1  OBVIOUS
  <2>2. row \in ProcRow /\ n \in Nat \ {0}  BY <1>5, <2>1
  <2>3. new = [row EXCEPT !.rev = n, !.dated = dated]  BY <1>2, <2>1
  <2>4. new \in ProcRow /\ new.rev = n  BY <2>2, <2>3, ProcCommitted
  <2>. QED  BY <2>1, <2>4
<1>7. /\ new.status = w.row.status /\ new.project = w.row.project
      /\ new.version = w.row.version /\ new.complete = w.row.complete
      /\ new.sources = w.row.sources /\ new.supersedes = w.row.supersedes
      /\ new.supersededBy = w.row.supersededBy /\ new.evidence = w.row.evidence
      /\ new.verified = w.row.verified /\ new.provenance = w.row.provenance
      /\ new.active = w.row.active
  BY <1>2, <1>5 DEF ProcRow
<1>8. new # None  BY <1>6, ProcedureAssumption
<1>9. ProcSound(w.id, new)
  <2>1. SemanticsOk(w.id, new)  BY <1>4, <1>7 DEF PendingProc, ProcSound, SemanticsOk
  <2>2. NamesPredecessor(new)  BY <1>4, <1>7 DEF PendingProc, ProcSound, NamesPredecessor
  <2>3. NamesReplacement(w.id, new)  BY <1>4, <1>7 DEF PendingProc, ProcSound, NamesReplacement
  <2>4. NamesRecords(new)  BY <1>4, <1>7 DEF PendingProc, ProcSound, NamesRecords
  <2>. QED  BY <2>1, <2>2, <2>3, <2>4 DEF ProcSound
<1>10. proc'[w.id] = new /\ \A p \in Procs \ {w.id} : proc'[p] = proc[p]
  BY <1>3, <1>5 DEF PInv, ProcsSound, ProcTypeOK
<1>11. ASSUME proc[w.id] # None
       PROVE  /\ w.rev # 0 /\ w.rev = proc[w.id].rev /\ proc[w.id].active
              /\ Frozen(proc[w.id], new)
              /\ proc[w.id].status \in {"deprecated", "superseded"} => ~new.active
  <2>1. w.rev # 0 /\ w.rev = proc[w.id].rev /\ proc[w.id].active
    BY <1>3, <1>11 DEF CommitAllowed
  <2>2. Frozen(proc[w.id], w.row)
        /\ (proc[w.id].status \in {"deprecated", "superseded"} => ~w.row.active)
    BY <1>4, <2>1 DEF PendingProc
  <2>3. Frozen(proc[w.id], new)  BY <1>7, <2>2 DEF Frozen
  <2>. QED  BY <1>7, <2>1, <2>2, <2>3
<1>12. TruthsLast  BY <1>3 DEF TruthsLast, PInv, KInv, RowsSound, RowSound
<1>13. ProcsLast
  <2>. SUFFICES ASSUME NEW p \in Procs, proc[p] # None
                PROVE  proc'[p] # None /\ Frozen(proc[p], proc'[p])
    BY DEF ProcsLast
  <2>1. CASE p = w.id
    <3>1. proc[w.id] # None  BY <2>1
    <3>. QED  BY <1>8, <1>10, <1>11, <2>1, <3>1
  <2>2. CASE p # w.id
    <3>1. proc'[p] = proc[p]  BY <1>10, <2>2
    <3>2. Frozen(proc[p], proc[p])  BY FrozenSame
    <3>. QED  BY <3>1, <3>2
  <2>. QED  BY <2>1, <2>2
<1>14. KInv'
  <2>1. commits' \in Nat /\ KInv  BY <1>3 DEF PInv, KInv
  <2>2. None # None /\ None.table = "truth" => PendingTruth(None)  OBVIOUS
  <2>. QED  BY <1>3, <2>1, <2>2, PendingKept
<1>15. ProcsSound'
  <2>1. ProcTypeOK'  BY <1>3, <1>6 DEF PInv, ProcsSound, ProcTypeOK
  <2>2. ASSUME NEW p \in Procs, proc'[p] # None PROVE ProcSound(p, proc[p])'
    <3>1. PICK row : row = proc'[p]  OBVIOUS
    <3>2. row \in ProcRow /\ ProcSound(p, row)
      <4>1. CASE p = w.id  BY <1>6, <1>9, <1>10, <3>1, <4>1
      <4>2. CASE p # w.id
        <5>1. row = proc[p] /\ row # None  BY <1>10, <2>2, <3>1, <4>2
        <5>. QED  BY <5>1 DEF PInv, ProcsSound, ProcTypeOK
      <4>. QED  BY <4>1, <4>2
    <3>3. ProcSound(p, row)'  BY <1>12, <1>13, <3>2, SoundLasts
    <3>. QED  BY <3>1, <3>3
  <2>. QED  BY <2>1, <2>2 DEF ProcsSound
<1>16. ASSUME NEW d \in Clients, pending'[d] # None PROVE pending'[d] = pending[d]
  BY <1>3, <1>16 DEF PInv, KInv, PendingSound
<1>17. PendingProcs'
  <2>. SUFFICES ASSUME NEW d \in Clients, pending'[d] # None, pending'[d].table = "procedure"
                PROVE  PendingProc(pending[d])'
    BY DEF PendingProcs
  <2>1. PICK v : v = pending[d]  OBVIOUS
  <2>2. pending'[d] = v /\ PendingProc(v)  BY <1>16, <2>1 DEF PInv, PendingProcs
  <2>3. v.row \in ProcRow /\ ProcSound(v.id, v.row) /\ v.id \in Procs /\ v.rev \in Nat
    BY <2>2 DEF PendingProc
  <2>4. ProcSound(v.id, v.row)'  BY <1>12, <1>13, <2>3, SoundLasts
  <2>5. ASSUME v.rev # 0
        PROVE  /\ proc'[v.id] # None /\ v.rev <= proc'[v.id].rev
               /\ v.rev = proc'[v.id].rev =>
                     /\ Frozen(proc'[v.id], v.row)
                     /\ proc'[v.id].status \in {"deprecated", "superseded"} => ~v.row.active
    <3>1. /\ proc[v.id] # None /\ v.rev <= proc[v.id].rev
          /\ v.rev = proc[v.id].rev =>
                /\ Frozen(proc[v.id], v.row)
                /\ proc[v.id].status \in {"deprecated", "superseded"} => ~v.row.active
      BY <2>2, <2>5 DEF PendingProc
    <3>2. CASE v.id = w.id
      <4>1. v.rev <= w.rev  BY <1>11, <3>1, <3>2
      <4>2. v.rev <= new.rev /\ v.rev # new.rev  BY <1>5, <1>6, <2>3, <4>1
      <4>3. proc'[v.id] = new  BY <1>10, <3>2
      <4>. QED  BY <1>8, <4>2, <4>3
    <3>3. CASE v.id # w.id
      <4>1. proc'[v.id] = proc[v.id]  BY <1>10, <2>3, <3>3
      <4>. QED  BY <3>1, <4>1
    <3>. QED  BY <3>2, <3>3
  <2>6. PendingProc(v)'  BY <2>3, <2>4, <2>5 DEF PendingProc
  <2>. QED  BY <2>2, <2>6
<1>18. ProcStep
  <2>1. ASSUME NEW p \in Procs, proc[p] # None, proc'[p] # proc[p]
        PROVE  /\ \E d \in Clients : pending[d] # None /\ pending[d].table = "procedure"
                                     /\ pending[d].id = p
               /\ proc[p].active
               /\ proc[p].status \in {"deprecated", "superseded"} => ~proc'[p].active
    <3>1. p = w.id  BY <1>10, <2>1
    <3>2. proc[w.id] # None  BY <2>1, <3>1
    <3>. QED  BY <1>1, <1>3, <1>10, <1>11, <3>1, <3>2
  <2>2. \A prj \in Projects : ProjectUsable(prj)' => ProjectUsable(prj)  BY <1>3 DEF ProjectUsable
  <2>. QED  BY <1>12, <1>13, <1>16, <2>1, <2>2 DEF ProcStep
<1>. QED  BY <1>14, <1>15, <1>17, <1>18 DEF PInv

(* The records that a step of the truth records leaves.                    *)
LEMMA TruthStepStands ==
    ASSUME PInv, TruthNext, UNCHANGED procVars
    PROVE  PInv' /\ ProcStep
<1>1. PInv'  BY TruthStepKept
<1>2. TruthsLast
      /\ \A c \in Clients : pending'[c] \in {pending[c], None} \/ pending'[c].table = "truth"
  BY TruthStepLasts DEF PInv
<1>3. \A c \in Clients : pending'[c] # None /\ pending'[c].table = "procedure" =>
         pending'[c] = pending[c]
  BY <1>2
<1>4. proc' = proc /\ \A prj \in Projects : ProjectUsable(prj)' => ProjectUsable(prj)
  BY DEF procVars, ProjectUsable
<1>5. ProcStep  BY <1>2, <1>3, <1>4, StandsStep
<1>. QED  BY <1>1, <1>5

(* Whoever prepares a write of a procedure has read it, or makes a new one. *)
LEMMA PrepareStep ==
    ASSUME PInv, NEW c \in Clients, NEW p \in Procs, NEW row, NEW rev,
           Prepare(c, "procedure", p, row, rev), UNCHANGED <<truth, reviewed, commits, procVars>>,
           proc[p] = None \/ Readable(p)
    PROVE  ProcStep
<1>1. PICK w : w = [table |-> "procedure", id |-> p, row |-> row, rev |-> rev]  OBVIOUS
<1>2. pending' = [pending EXCEPT ![c] = w]  BY <1>1 DEF Prepare
<1>3. \A d \in Clients : pending'[d] = IF d = c THEN w ELSE pending[d]
  BY <1>2 DEF PInv, KInv, PendingSound
<1>4. TruthsLast  BY DEF TruthsLast, PInv, KInv, RowsSound, RowSound
<1>5. \A d \in Clients : pending'[d] # None /\ pending'[d].table = "procedure" =>
         \/ pending'[d] = pending[d]
         \/ proc[pending'[d].id] = None
         \/ Readable(pending'[d].id)
  <2>. SUFFICES ASSUME NEW d \in Clients
                PROVE  \/ pending'[d] = pending[d]
                       \/ proc[pending'[d].id] = None
                       \/ Readable(pending'[d].id)
    OBVIOUS
  <2>1. CASE d = c
    <3>1. PICK v : v = pending'[d]  OBVIOUS
    <3>2. v.id = p  BY <1>1, <1>3, <2>1, <3>1
    <3>3. proc[v.id] = None \/ Readable(v.id)  BY <3>2
    <3>. QED  BY <3>1, <3>3
  <2>2. CASE d # c  BY <1>3, <2>2
  <2>. QED  BY <2>1, <2>2
<1>6. proc' = proc /\ \A prj \in Projects : ProjectUsable(prj)' => ProjectUsable(prj)
  BY DEF procVars, ProjectUsable
<1>. QED  BY <1>4, <1>5, <1>6, StandsStep

LEMMA LoseProjectKept ==
    ASSUME PInv, NEW prj \in Projects, NEW lost \in ProjectRow, LoseProject(prj, lost)
    PROVE  PInv' /\ ProcStep
<1>1. /\ UNCHANGED truthVars /\ proc' = proc
      /\ project' = [project EXCEPT ![prj] = lost]
      /\ ~(lost.active /\ lost.linked /\ lost.dated)
  BY DEF LoseProject
<1>2. /\ truth' = truth /\ pending' = pending  BY <1>1 DEF truthVars
<1>3. KInv'
  <2>1. KInv /\ [TruthNext]_truthVars  BY <1>1 DEF PInv
  <2>. QED  BY <2>1, KPreserved
<1>4. TruthsLast  BY <1>2 DEF TruthsLast, PInv, KInv, RowsSound, RowSound
<1>5. project' \in [Projects -> ProjectRow]
      /\ \A q \in Projects : ProjectUsable(q)' => ProjectUsable(q)
  BY <1>1 DEF PInv, ProcsSound, ProcTypeOK, ProjectUsable
<1>6. \A c \in Clients : pending'[c] # None /\ pending'[c].table = "procedure" =>
         pending'[c] = pending[c] \/ PendingProc(pending'[c])
  BY <1>2
<1>7. PInv'  BY <1>1, <1>3, <1>4, <1>5, <1>6, ProcsStand
<1>8. \A c \in Clients : pending'[c] # None /\ pending'[c].table = "procedure" =>
         \/ pending'[c] = pending[c]
         \/ proc[pending'[c].id] = None
         \/ Readable(pending'[c].id)
  BY <1>2
<1>9. ProcStep  BY <1>1, <1>4, <1>5, <1>8, StandsStep
<1>. QED  BY <1>7, <1>9

(* Every step of the procedures.                                           *)
LEMMA ProcNextKept ==
    ASSUME PInv, ProcNext
    PROVE  PInv' /\ ProcStep
<1>1. ASSUME NEW c \in Clients, NEW p \in Unused(proc, Reserved), NEW prj \in Projects,
             NEW f \in Forms, NEW sup \in OptProcs, NEW src \in AtMostOne("claim"),
             CreateProcedure(c, p, prj, f, src, sup)
      PROVE  PInv' /\ ProcStep
  <2>1. p \in Procs /\ proc[p] = None  BY DEF Unused, PInv, ProcsSound, ProcTypeOK
  <2>2. PInv'  BY <1>1, <2>1, CreateProcedureKept
  <2>3. PICK row : row = NewProc(prj, f, src, sup)  OBVIOUS
  <2>4. Prepare(c, "procedure", p, row, 0) /\ UNCHANGED <<truth, reviewed, commits, procVars>>
    BY <1>1, <2>3 DEF CreateProcedure, PrepareProc
  <2>5. ProcStep  BY <2>1, <2>4, PrepareStep
  <2>. QED  BY <2>2, <2>5
<1>2. ASSUME NEW c \in Clients, NEW p \in {q \in Procs : proc[q] # None},
             \/ \E v \in Versions, full \in BOOLEAN, sup \in OptProcs, src \in AtMostOne("claim") :
                   UpdateDraft(c, p, v, full, src, sup)
             \/ \E ev \in AtMostOne("evidence") : Verify(c, p, ev)
             \/ \E q \in Procs : Supersede(c, p, q)
             \/ Approve(c, p) \/ Deprecate(c, p) \/ ArchiveProcedure(c, p)
      PROVE  PInv' /\ ProcStep
  <2>1. p \in Procs /\ proc[p] # None  OBVIOUS
  <2>2. PInv'  BY <1>2, <2>1, ChangesKept
  <2>3. \E from, row : Change(c, p, from, row)
    BY <1>2 DEF UpdateDraft, Verify, Supersede, Approve, Deprecate, ArchiveProcedure
  <2>4. PICK from, row : Change(c, p, from, row)  BY <2>3
  <2>5. PICK new : new = [row EXCEPT !.provenance = "user-confirmed"]  OBVIOUS
  <2>6. /\ Readable(p) /\ Prepare(c, "procedure", p, new, proc[p].rev)
        /\ UNCHANGED <<truth, reviewed, commits, procVars>>
    BY <2>4, <2>5 DEF Change
  <2>7. ProcStep  BY <2>1, <2>6, PrepareStep
  <2>. QED  BY <2>2, <2>7
<1>3. ASSUME NEW c \in Clients, \/ \E t \in Truths : ArchiveTruth(c, t)
                                \/ \E dated \in BOOLEAN : CommitTruth(c, dated)
                                \/ Abandon(c),
             UNCHANGED procVars
      PROVE  PInv' /\ ProcStep
  <2>1. TruthNext  BY <1>3 DEF TruthNext
  <2>. QED  BY <1>3, <2>1, TruthStepStands
<1>. QED  BY <1>1, <1>2, <1>3, CommitProcedureKept, LoseProjectKept DEF ProcNext
-----------------------------------------------------------------------------
LEMMA PInitially == TruthInit /\ ProcInit => PInv
<1>. SUFFICES ASSUME TruthInit, ProcInit PROVE PInv  OBVIOUS
<1>1. KInv  BY KInitially
<1>2. ProcsSound  BY DEF ProcInit, ProcsSound, ProcTypeOK
<1>3. PendingProcs  BY DEF TruthInit, PendingProcs
<1>. QED  BY <1>1, <1>2, <1>3 DEF PInv

(* A step of either service, or none.                                      *)
LEMMA PPreserved ==
    PInv /\ [(TruthNext /\ UNCHANGED procVars) \/ ProcNext]_<<truthVars, procVars>>
       => PInv' /\ ProcStep
<1>. SUFFICES ASSUME PInv, [(TruthNext /\ UNCHANGED procVars) \/ ProcNext]_<<truthVars, procVars>>
              PROVE  PInv' /\ ProcStep
  OBVIOUS
<1>1. CASE UNCHANGED <<truthVars, procVars>>
  <2>1. UNCHANGED truthVars /\ UNCHANGED procVars  BY <1>1
  <2>2. /\ truth' = truth /\ pending' = pending /\ proc' = proc /\ project' = project
    BY <2>1 DEF truthVars, procVars
  <2>3. KInv'
    <3>1. KInv /\ [TruthNext]_truthVars  BY <2>1 DEF PInv
    <3>. QED  BY <3>1, KPreserved
  <2>4. TruthsLast  BY <2>2 DEF TruthsLast, PInv, KInv, RowsSound, RowSound
  <2>5. \A c \in Clients : pending'[c] # None /\ pending'[c].table = "procedure" =>
           pending'[c] = pending[c] \/ PendingProc(pending'[c])
    BY <2>2
  <2>6. project' \in [Projects -> ProjectRow]  BY <2>2 DEF PInv, ProcsSound, ProcTypeOK
  <2>7. PInv'  BY <2>2, <2>3, <2>4, <2>5, <2>6, ProcsStand
  <2>8. \A c \in Clients : pending'[c] # None /\ pending'[c].table = "procedure" =>
           \/ pending'[c] = pending[c]
           \/ proc[pending'[c].id] = None
           \/ Readable(pending'[c].id)
    BY <2>2
  <2>9. \A prj \in Projects : ProjectUsable(prj)' => ProjectUsable(prj)  BY <2>2 DEF ProjectUsable
  <2>10. ProcStep  BY <2>2, <2>4, <2>8, <2>9, StandsStep
  <2>. QED  BY <2>7, <2>10
<1>2. CASE TruthNext /\ UNCHANGED procVars  BY <1>2, TruthStepStands
<1>3. CASE ProcNext  BY <1>3, ProcNextKept
<1>. QED  BY <1>1, <1>2, <1>3

(* The links of a procedure that is there, as whoever reads it sees them:   *)
(* its replacement is always right, and its predecessor is wrong only      *)
(* because it was deprecated or replaced by another.                       *)
LEMMA LinksSeen ==
    ASSUME PInv, NEW p \in Procs, proc[p] # None
    PROVE  /\ SemanticsOk(p, proc[p]) /\ ReplacementOk(p, proc[p])
           /\ PredecessorOk(p, proc[p]) <=>
                 \/ proc[p].supersedes = None
                 \/ proc[proc[p].supersedes].status = "approved"
                 \/ /\ proc[proc[p].supersedes].status = "superseded"
                    /\ proc[proc[p].supersedes].supersededBy = p
<1>1. PICK row : row = proc[p]  OBVIOUS
<1>2. row \in ProcRow /\ ProcSound(p, row)  BY <1>1 DEF PInv, ProcsSound, ProcTypeOK
<1>3. \A q \in Procs : proc[q] # None => SemanticsOk(q, proc[q])
  BY DEF PInv, ProcsSound, ProcSound
<1>4. row.supersedes \in Procs \union {None} /\ row.supersededBy \in Procs \union {None}
  BY <1>2 DEF ProcRow
<1>5. SemanticsOk(p, row)  BY <1>2 DEF ProcSound
<1>6. ReplacementOk(p, row)
  BY <1>2, <1>3, <1>4 DEF ProcSound, NamesReplacement, ReplacementOk
<1>7. PredecessorOk(p, row) <=>
         \/ row.supersedes = None
         \/ proc[row.supersedes].status = "approved"
         \/ proc[row.supersedes].status = "superseded" /\ proc[row.supersedes].supersededBy = p
  <2>1. CASE row.supersedes = None  BY <2>1 DEF PredecessorOk
  <2>2. CASE row.supersedes # None
    <3>1. PICK q : q = row.supersedes  OBVIOUS
    <3>2. /\ proc[q] # None /\ proc[q].status \in Accepted
          /\ proc[q].project = row.project /\ proc[q].version < row.version
      BY <1>2, <2>2, <3>1 DEF ProcSound, NamesPredecessor
    <3>3. SemanticsOk(q, proc[q])  BY <1>3, <1>4, <2>2, <3>1, <3>2
    <3>4. PredecessorOk(p, row) <=> /\ proc[q].status \in {"approved", "superseded"}
                                    /\ proc[q].status = "superseded" => proc[q].supersededBy = p
      BY <2>2, <3>1, <3>2, <3>3 DEF PredecessorOk
    <3>. QED  BY <2>2, <3>1, <3>4
  <2>. QED  BY <2>1, <2>2
<1>. QED  BY <1>1, <1>5, <1>6, <1>7

LEMMA ChainsSound == PInv => SupersessionSound
<1>. SUFFICES ASSUME PInv PROVE SupersessionSound  OBVIOUS
<1>0. ProcTypeOK  BY DEF PInv, ProcsSound
<1>1. ASSUME NEW p \in Procs, proc[p] # None
      PROVE  /\ SemanticsOk(p, proc[p]) /\ ReplacementOk(p, proc[p])
             /\ proc[p].supersededBy # None => proc[proc[p].supersededBy].status \in Accepted
             /\ ~PredecessorOk(p, proc[p]) =>
                   LET q == proc[proc[p].supersedes]
                   IN  \/ q.status = "deprecated"
                       \/ q.status = "superseded" /\ q.supersededBy # p
             /\ \A q \in Procs \ {p} : proc[q] # None /\ proc[q].supersededBy # None =>
                   proc[p].supersededBy # proc[q].supersededBy
  <2>1. ProcSound(p, proc[p])  BY <1>1 DEF PInv, ProcsSound
  <2>2. SemanticsOk(p, proc[p]) /\ ReplacementOk(p, proc[p])  BY <1>1, LinksSeen
  <2>3. proc[p].supersededBy # None => proc[proc[p].supersededBy].status \in Accepted
    BY <2>1 DEF ProcSound, NamesReplacement
  <2>4. ASSUME ~PredecessorOk(p, proc[p])
        PROVE  LET q == proc[proc[p].supersedes]
               IN  \/ q.status = "deprecated"
                   \/ q.status = "superseded" /\ q.supersededBy # p
    <3>1. /\ proc[p].supersedes # None
          /\ proc[proc[p].supersedes].status # "approved"
          /\ ~(/\ proc[proc[p].supersedes].status = "superseded"
               /\ proc[proc[p].supersedes].supersededBy = p)
      BY <1>1, <2>4, LinksSeen
    <3>2. proc[proc[p].supersedes].status \in Accepted
      BY <2>1, <3>1 DEF ProcSound, NamesPredecessor
    <3>. QED  BY <3>1, <3>2 DEF Accepted
  <2>5. ASSUME NEW q \in Procs \ {p}, proc[q] # None, proc[q].supersededBy # None,
               proc[p].supersededBy = proc[q].supersededBy
        PROVE  FALSE
    <3>1. ProcSound(q, proc[q])  BY <2>5 DEF PInv, ProcsSound
    <3>2. proc[proc[p].supersededBy].supersedes = p
      BY <2>1, <2>5 DEF ProcSound, NamesReplacement
    <3>3. proc[proc[q].supersededBy].supersedes = q
      BY <2>5, <3>1 DEF ProcSound, NamesReplacement
    <3>. QED  BY <2>5, <3>2, <3>3
  <2>. QED  BY <2>2, <2>3, <2>4, <2>5
<1>. QED  BY <1>0, <1>1 DEF SupersessionSound

(* A change follows the row that is there.                                 *)
LEMMA StepsFrozen == PInv /\ ProcStep => AcceptedFrozen
<1>. SUFFICES ASSUME PInv, ProcStep, NEW p \in Procs, proc[p] # None, proc'[p] # proc[p]
              PROVE  /\ proc[p].active
                     /\ proc[p].status \in Accepted =>
                           /\ proc'[p].status \in Accepted
                           /\ proc'[p].complete = proc[p].complete
                           /\ proc'[p].version = proc[p].version
                           /\ proc'[p].sources = proc[p].sources
                           /\ proc'[p].supersedes = proc[p].supersedes
                           /\ proc[p].status # "approved" =>
                                 proc'[p].status = proc[p].status /\ ~proc'[p].active
  BY DEF AcceptedFrozen
<1>1. /\ proc[p].active
      /\ proc[p].status \in {"deprecated", "superseded"} => ~proc'[p].active
      /\ Frozen(proc[p], proc'[p])
  BY DEF ProcStep, ProcsLast
<1>. QED  BY <1>1 DEF Frozen, Accepted

(* What makes a procedure unreadable is never undone: its project, a        *)
(* source, its evidence or its predecessor stays as it is.                 *)
LEMMA StaysUnreadable ==
    ASSUME PInv, PInv', ProcStep, NEW p \in Procs, proc[p] # None, ~Readable(p),
           proc'[p] = proc[p]
    PROVE  ~Readable(p)'
<1>1. PICK row : row = proc[p]  OBVIOUS
<1>2. row \in ProcRow /\ ProcSound(p, row)  BY <1>1 DEF PInv, ProcsSound, ProcTypeOK
<1>3. \/ ~ProjectUsable(row.project)
      \/ ~RecordsOk(row)
      \/ ~PredecessorOk(p, row)
  BY <1>1, LinksSeen DEF Readable, LinksOk
<1>4. CASE ~ProjectUsable(row.project)
  <2>1. row.project \in Projects  BY <1>2 DEF ProcRow
  <2>2. ~ProjectUsable(row.project)'  BY <1>4, <2>1 DEF ProcStep
  <2>3. ~LinksOk(p, row)'  BY <2>2 DEF LinksOk
  <2>4. ~LinksOk(p, proc[p])'  BY <1>1, <2>3
  <2>. QED  BY <2>4 DEF Readable
<1>5. CASE ~RecordsOk(row)
  <2>1. row.sources \subseteq Truths /\ row.evidence \subseteq Truths  BY <1>2 DEF ProcRow
  <2>2. PICK t \in row.sources \union row.evidence :
              ~truth[t].active \/ (t \in row.sources /\ truth[t].secret)
    BY <1>2, <1>5 DEF ProcSound, NamesRecords, RecordsOk
  <2>3. t \in Truths /\ truth[t] # None
    BY <1>2, <2>1 DEF ProcSound, NamesRecords, TruthIs
  <2>4. ~truth'[t].active \/ (t \in row.sources /\ truth'[t].secret)  BY <2>2, <2>3 DEF ProcStep, TruthsLast
  <2>5. ~RecordsOk(row)'  BY <2>2, <2>4 DEF RecordsOk
  <2>6. ~LinksOk(p, row)'  BY <2>5 DEF LinksOk
  <2>7. ~LinksOk(p, proc[p])'  BY <1>1, <2>6
  <2>. QED  BY <2>7 DEF Readable
<1>6. CASE ~PredecessorOk(p, row)
  <2>1. PICK q : q = row.supersedes  OBVIOUS
  <2>2. /\ q # None
        /\ proc[q].status # "approved"
        /\ ~(proc[q].status = "superseded" /\ proc[q].supersededBy = p)
    BY <1>1, <1>6, <2>1, LinksSeen
  <2>3. q \in Procs /\ proc[q] # None /\ proc[q].status \in Accepted
    BY <1>2, <2>1, <2>2 DEF ProcRow, ProcSound, NamesPredecessor
  <2>4. Frozen(proc[q], proc'[q]) /\ proc'[q] # None  BY <2>3 DEF ProcStep, ProcsLast
  <2>5. /\ proc'[q].status # "approved"
        /\ ~(proc'[q].status = "superseded" /\ proc'[q].supersededBy = p)
    BY <2>2, <2>3, <2>4 DEF Frozen, Accepted
  <2>6. ~PredecessorOk(p, row)'  BY <2>1, <2>2, <2>5 DEF PredecessorOk
  <2>7. ~LinksOk(p, row)'  BY <2>6 DEF LinksOk
  <2>8. ~LinksOk(p, proc[p])'  BY <1>1, <2>7
  <2>. QED  BY <2>8 DEF Readable
<1>. QED  BY <1>3, <1>4, <1>5, <1>6

(* Nobody can prepare a write for it, and no write is waiting.             *)
LEMMA StepsStranded == PInv /\ PInv' /\ ProcStep => ProcedureStranded
<1>. SUFFICES ASSUME PInv, PInv', ProcStep, NEW p \in Procs, proc[p] # None, ~Readable(p),
                     \A c \in Clients : pending[c] # None /\ pending[c].table = "procedure" =>
                        pending[c].id # p
              PROVE  /\ proc'[p] = proc[p] /\ ~Readable(p)'
                     /\ \A c \in Clients : pending'[c] # None /\ pending'[c].table = "procedure" =>
                           pending'[c].id # p
  BY DEF ProcedureStranded
<1>1. proc'[p] = proc[p]  BY DEF ProcStep
<1>2. ~Readable(p)'  BY <1>1, StaysUnreadable
<1>3. ASSUME NEW c \in Clients, pending'[c] # None, pending'[c].table = "procedure"
      PROVE  pending'[c].id # p
  <2>1. PICK v : v = pending'[c]  OBVIOUS
  <2>2. v = pending[c] \/ proc[v.id] = None \/ Readable(v.id)
    BY <1>3, <2>1 DEF ProcStep
  <2>. QED  BY <1>3, <2>1, <2>2
<1>. QED  BY <1>1, <1>2, <1>3

(* Users approve, replace, deprecate and archive procedures while others    *)
(* edit them and the records they rest on: versions replace each other one *)
(* to one, what was accepted is not changed, and what cannot be read never *)
(* changes (supersede, _update_procedure, _procedure_from_record).         *)
THEOREM ProceduresAlwaysSound == ProceduresSpec => ProceduresSound
<1>1. PInv /\ [(TruthNext /\ UNCHANGED procVars) \/ ProcNext]_<<truthVars, procVars>>
         => [AcceptedFrozen /\ ProcedureStranded]_<<proc, project, truth, pending>>
  BY PPreserved, StepsFrozen, StepsStranded
<1>2. PInv /\ [(TruthNext /\ UNCHANGED procVars) \/ ProcNext]_<<truthVars, procVars>> => PInv'
  BY PPreserved
<1>. QED  BY <1>1, <1>2, PInitially, ChainsSound, PTL DEF ProceduresSpec, ProceduresSound
-----------------------------------------------------------------------------
(* Memories.  What is stored and what is about to be: the records a memory  *)
(* refers to are there, and, as long as the clock was never set back, it    *)
(* was last changed between its creation and now.                          *)
MemoSound(m, row) ==
    /\ row.related \intersect row.contradicts = {}
    /\ \A x \in row.related \union row.contradicts : x # m /\ memo[x] # None
    /\ ~stepped => row.created <= row.updated /\ row.updated <= clock

MemosSound ==
    /\ memo \in [Memos -> MemoRow \union {None}]
    /\ clock \in Nat /\ stepped \in BOOLEAN /\ commits \in Nat
    /\ \A m \in Memos : memo[m] # None => MemoSound(m, memo[m])

(* past has the table at every state revision; revisions only grow.        *)
PastKept ==
    /\ past \in Seq([Memos -> MemoRow \union {None}])
    /\ Len(past) = commits + 1 /\ past[commits + 1] = memo
    /\ \A i \in 1 .. commits + 1, m \in Memos : past[i][m] # None =>
          memo[m] # None /\ past[i][m].rev <= memo[m].rev

(* A foreign memory as it was published, not corrected since.              *)
FromPam(row) == row.lineage = "pam" /\ ~row.edited

PendingMemo(w) ==
    /\ w.id \in Memos /\ w.row \in MemoRow /\ w.rev \in Nat
    /\ MemoSound(w.id, w.row)
    /\ w.rev # 0 =>
          /\ memo[w.id] # None /\ w.rev <= memo[w.id].rev
          /\ w.rev = memo[w.id].rev /\ FromPam(w.row) => FromPam(memo[w.id])

PendingMemos ==
    /\ pending = [c \in Clients |-> pending[c]] /\ plan = [c \in Clients |-> plan[c]]
    /\ \A c \in Clients : pending[c] # None =>
          pending[c].table = "memory" /\ PendingMemo(pending[c])

(* A publication that is about to create a memory is the only one, and      *)
(* there is none to reuse, unless two overlapped.                          *)
Publishing(w) == w # None /\ w.rev = 0 /\ FromPam(w.row)

LineageSound ==
    ~clash =>
       /\ \A m, n \in Memos : memo[m] # None /\ FromPam(memo[m])
                              /\ memo[n] # None /\ FromPam(memo[n]) => m = n
       /\ \A c \in Clients : Publishing(pending[c]) =>
             /\ \A m \in Memos : memo[m] # None => ~FromPam(memo[m])
             /\ \A d \in Clients : Publishing(pending[d]) => c = d

(* What a reader has read: a query only what the index it opened has, any   *)
(* other one what is there, as long as nothing was committed.              *)
ReaderSound(v) ==
    /\ v = [kind |-> v.kind, rev |-> v.rev, seen |-> v.seen, todo |-> v.todo,
            listed |-> v.listed, opened |-> v.opened]
    /\ v.kind \in ReportKinds /\ v.rev \in 0 .. commits /\ v.listed \in BOOLEAN
    /\ v.seen = [m \in DOMAIN v.seen |-> v.seen[m]]
    /\ \A m \in v.todo \union DOMAIN v.seen : m \in Memos /\ memo[m] # None
    /\ ~v.listed => DOMAIN v.seen = {} /\ v.todo = {}
    /\ v.kind = "query" =>
          /\ v.opened = RevisionsAt(v.rev)
          /\ v.listed => v.todo \union DOMAIN v.seen = DOMAIN RevisionsAt(v.rev)
          /\ \A m \in DOMAIN v.seen : v.seen[m] = RevisionsAt(v.rev)[m]
    /\ v.kind # "query" /\ v.rev = commits =>
          /\ v.listed => v.todo \union DOMAIN v.seen = DOMAIN RevisionsAt(v.rev)
          /\ \A m \in DOMAIN v.seen : v.seen[m] = memo[m].rev
    /\ \A m \in DOMAIN v.seen :
          m \in DOMAIN RevisionsAt(v.rev) => v.seen[m] >= RevisionsAt(v.rev)[m]

(* What a report may say. *)
ReportSound(v) ==
    /\ v.kind \in ReportKinds /\ v.rev \in 0 .. commits
    /\ v.kind \in {"index", "query", "budget", "consolidation"} => v.seen = RevisionsAt(v.rev)
    /\ v.kind = "semantic" => v.seen \in {<<>>, RevisionsAt(v.rev)}
    /\ v.kind = "recall" => \A m \in DOMAIN v.seen \intersect DOMAIN RevisionsAt(v.rev) :
                               v.seen[m] >= RevisionsAt(v.rev)[m]

ReadersSound ==
    /\ reader = [r \in Readers |-> reader[r]] /\ report = [r \in Readers |-> report[r]]
    /\ \A r \in Readers : reader[r] # None => ReaderSound(reader[r])
    /\ \A r \in Readers : report[r] # None => ReportSound(report[r])
    /\ index # None => index.rev \in 0 .. commits /\ index.entries = RevisionsAt(index.rev)

WInv == MemosSound /\ PastKept /\ PendingMemos /\ LineageSound
RInv == WInv /\ ReadersSound

(* What a row refers to stays, and time goes forward until it is set back.  *)
LEMMA MemoLasts ==
    ASSUME \A m \in Memos : memo[m] # None => memo'[m] # None,
           ~stepped' => ~stepped /\ clock <= clock', clock \in Nat, clock' \in Nat,
           NEW m, NEW row \in MemoRow, MemoSound(m, row)
    PROVE  MemoSound(m, row)'
<1>1. /\ row.related \subseteq Memos /\ row.contradicts \subseteq Memos
      /\ row.created \in Nat /\ row.updated \in Nat
  BY DEF MemoRow
<1>2. \A x \in row.related \union row.contradicts : x # m /\ memo'[x] # None
  BY <1>1 DEF MemoSound
<1>3. ~stepped' => row.created <= row.updated /\ row.updated <= clock'
  BY <1>1 DEF MemoSound
<1>. QED  BY <1>2, <1>3 DEF MemoSound

(* A write of what is pending: the memories stay as they are.              *)
LEMMA MemoStands ==
    ASSUME WInv, UNCHANGED <<memo, past, commits>>, clock' \in Nat, stepped' \in BOOLEAN,
           ~stepped' => ~stepped /\ clock <= clock',
           pending' = [c \in Clients |-> pending'[c]], plan' = [c \in Clients |-> plan'[c]],
           \A c \in Clients : pending'[c] # None =>
              \/ pending'[c] = pending[c]
              \/ pending'[c].table = "memory" /\ PendingMemo(pending'[c]),
           LineageSound'
    PROVE  WInv'
<1>1. /\ \A m \in Memos : memo[m] # None => memo'[m] # None
      /\ ~stepped' => ~stepped /\ clock <= clock'
      /\ clock \in Nat
  BY DEF WInv, MemosSound
<1>2. MemosSound'
  <2>1. ASSUME NEW m \in Memos, memo[m] # None PROVE MemoSound(m, memo[m])'
    <3>1. PICK row : row = memo[m]  OBVIOUS
    <3>2. row \in MemoRow /\ MemoSound(m, row)  BY <2>1, <3>1 DEF WInv, MemosSound
    <3>3. MemoSound(m, row)'  BY <1>1, <3>2, MemoLasts
    <3>. QED  BY <3>1, <3>3
  <2>. QED  BY <2>1 DEF WInv, MemosSound
<1>3. PastKept'  BY DEF WInv, PastKept
<1>4. PendingMemos'
  <2>1. ASSUME NEW c \in Clients, pending'[c] # None
        PROVE  pending'[c].table = "memory" /\ PendingMemo(pending[c])'
    <3>1. PICK w : w = pending'[c]  OBVIOUS
    <3>2. w.table = "memory" /\ PendingMemo(w)
      BY <2>1, <3>1 DEF WInv, PendingMemos
    <3>3. MemoSound(w.id, w.row)'  BY <1>1, <3>2, MemoLasts DEF PendingMemo
    <3>4. PendingMemo(w)'  BY <3>2, <3>3 DEF PendingMemo
    <3>. QED  BY <3>1, <3>2, <3>4
  <2>. QED  BY <2>1 DEF PendingMemos
<1>. QED  BY <1>2, <1>3, <1>4 DEF WInv

(* Whoever prepares a write that publishes nothing.                        *)
LEMMA PrepareMemoKept ==
    ASSUME WInv, NEW c \in Clients, NEW m \in Memos, NEW row \in MemoRow, NEW rev \in Nat,
           Prepare(c, "memory", m, row, rev), UNCHANGED <<truth, reviewed, commits, memoVars>>,
           MemoSound(m, row), rev = 0 => ~FromPam(row),
           rev # 0 => /\ memo[m] # None /\ rev = memo[m].rev
                      /\ FromPam(row) => FromPam(memo[m])
    PROVE  WInv'
<1>1. PICK w : w = [table |-> "memory", id |-> m, row |-> row, rev |-> rev]  OBVIOUS
<1>2. pending' = [pending EXCEPT ![c] = w]  BY <1>1 DEF Prepare
<1>3. pending' = [d \in Clients |-> IF d = c THEN w ELSE pending[d]]
  BY <1>2 DEF WInv, PendingMemos
<1>4. PendingMemo(w)
  <2>1. rev # 0 => rev <= memo[m].rev  OBVIOUS
  <2>. QED  BY <1>1, <2>1 DEF PendingMemo
<1>5. UNCHANGED <<memo, past, clock, stepped, plan, clash>>  BY DEF memoVars
<1>6. ~Publishing(w)  BY <1>1 DEF Publishing
<1>7. LineageSound'
  <2>1. \A d \in Clients : Publishing(pending'[d]) => Publishing(pending[d])
    BY <1>3, <1>6
  <2>2. \A d \in Clients : Publishing(pending[d])' <=> Publishing(pending'[d])
    BY DEF Publishing
  <2>. QED  BY <1>5, <2>1, <2>2 DEF WInv, LineageSound, FromPam
<1>8. \A d \in Clients : pending'[d] # None =>
         \/ pending'[d] = pending[d]
         \/ pending'[d].table = "memory" /\ PendingMemo(pending'[d])
  <2>. SUFFICES ASSUME NEW d \in Clients
                PROVE  \/ pending'[d] = pending[d]
                       \/ pending'[d].table = "memory" /\ PendingMemo(pending'[d])
    OBVIOUS
  <2>1. PICK v : v = pending'[d]  OBVIOUS
  <2>2. v = pending[d] \/ (v.table = "memory" /\ PendingMemo(v))  BY <1>1, <1>3, <1>4, <2>1
  <2>. QED  BY <2>1, <2>2
<1>9. /\ clock' \in Nat /\ stepped' \in BOOLEAN /\ (~stepped' => ~stepped /\ clock <= clock')
      /\ pending' = [d \in Clients |-> pending'[d]] /\ plan' = [d \in Clients |-> plan'[d]]
  BY <1>3, <1>5 DEF WInv, MemosSound, PendingMemos
<1>. QED  BY <1>5, <1>7, <1>8, <1>9, MemoStands

(* A client that gives up, a plan that is made or dropped, a report.        *)
LEMMA PendingShrinks ==
    ASSUME WInv, UNCHANGED <<memo, past, commits, clock, stepped, clash>>,
           pending' = [c \in Clients |-> pending'[c]], plan' = [c \in Clients |-> plan'[c]],
           \A c \in Clients : pending'[c] \in {pending[c], None}
    PROVE  WInv'
<1>1. LineageSound'
  <2>1. \A d \in Clients : Publishing(pending'[d]) => Publishing(pending[d])
    BY DEF Publishing
  <2>2. \A d \in Clients : Publishing(pending[d])' <=> Publishing(pending'[d])
    BY DEF Publishing
  <2>. QED  BY <2>1, <2>2 DEF WInv, LineageSound, FromPam
<1>2. /\ clock' \in Nat /\ stepped' \in BOOLEAN /\ (~stepped' => ~stepped /\ clock <= clock')
  BY DEF WInv, MemosSound
<1>3. \A d \in Clients : pending'[d] # None =>
         \/ pending'[d] = pending[d]
         \/ pending'[d].table = "memory" /\ PendingMemo(pending'[d])
  OBVIOUS
<1>. QED  BY <1>1, <1>2, <1>3, MemoStands

(* create, update and archive.                                             *)
LEMMA MemoChangesKept ==
    ASSUME WInv, NEW c \in Clients
    PROVE  /\ \A m \in Unused(memo, ReservedMemos), secret \in BOOLEAN,
                 rel \in AtMostOneMemo, con \in AtMostOneMemo :
                    CreateMemo(c, m, secret, rel, con) => WInv'
           /\ \A m \in Memos, rel \in AtMostOneMemo, con \in AtMostOneMemo, lin \in {None, "pam"} :
                    UpdateMemo(c, m, rel, con, lin) => WInv'
           /\ \A m \in Memos : ArchiveMemo(c, m) => WInv'
<1>1. \A links \in AtMostOneMemo : links \subseteq Memos  BY DEF AtMostOneMemo
<1>2. clock \in Nat  BY DEF WInv, MemosSound
<1>3. ASSUME NEW m \in Unused(memo, ReservedMemos), NEW secret \in BOOLEAN,
             NEW rel \in AtMostOneMemo, NEW con \in AtMostOneMemo,
             CreateMemo(c, m, secret, rel, con)
      PROVE  WInv'
  <2>1. m \in Memos /\ memo[m] = None  BY DEF Unused, WInv, MemosSound
  <2>2. PICK row : row = NewMemo(secret, rel, con, None)  OBVIOUS
  <2>3. /\ MemoLinksOk(None, rel, con) /\ Prepare(c, "memory", m, row, 0)
        /\ UNCHANGED <<truth, reviewed, commits, memoVars>>
    BY <1>3, <2>2 DEF CreateMemo
  <2>4. row \in MemoRow  BY <1>1, <1>2, <2>2 DEF NewMemo, MemoRow
  <2>5. /\ row.related = rel /\ row.contradicts = con /\ row.lineage = None
        /\ row.created = clock /\ row.updated = clock
    BY <2>2 DEF NewMemo
  <2>6. MemoSound(m, row)
    BY <1>2, <2>1, <2>3, <2>5 DEF MemoLinksOk, MemoReadable, MemoSound
  <2>7. ~FromPam(row)  BY <2>5, MemoryAssumption DEF FromPam
  <2>. QED  BY <2>1, <2>3, <2>4, <2>6, <2>7, PrepareMemoKept
<1>4. ASSUME NEW m \in Memos, memo[m] # None
      PROVE  /\ memo[m] \in MemoRow /\ MemoSound(m, memo[m]) /\ memo[m].rev \in Nat \ {0}
             /\ memo[m].created \in Nat /\ memo[m].updated \in Nat
  BY <1>4 DEF WInv, MemosSound, MemoRow
<1>5. ASSUME NEW m \in Memos, NEW rel \in AtMostOneMemo, NEW con \in AtMostOneMemo,
             NEW lin \in {None, "pam"}, UpdateMemo(c, m, rel, con, lin)
      PROVE  WInv'
  <2>1. PICK row : row = [memo[m] EXCEPT !.related = rel, !.contradicts = con,
                             !.lineage = lin, !.edited = TRUE, !.updated = clock]
    OBVIOUS
  <2>2. /\ memo[m] # None /\ MemoLinksOk(m, rel, con)
        /\ Prepare(c, "memory", m, row, memo[m].rev)
        /\ UNCHANGED <<truth, reviewed, commits, memoVars>>
    BY <1>5, <2>1 DEF UpdateMemo, MemoReadable
  <2>3. row \in MemoRow  BY <1>1, <1>2, <1>4, <2>1, <2>2 DEF MemoRow
  <2>4. /\ row.related = rel /\ row.contradicts = con /\ row.edited
        /\ row.created = memo[m].created /\ row.updated = clock
    BY <1>4, <2>1, <2>2 DEF MemoRow
  <2>5. ~stepped => row.created <= row.updated /\ row.updated <= clock
    BY <1>2, <1>4, <2>2, <2>4 DEF MemoSound
  <2>6. MemoSound(m, row)
    BY <2>2, <2>4, <2>5 DEF MemoLinksOk, MemoReadable, MemoSound
  <2>7. ~FromPam(row)  BY <2>4 DEF FromPam
  <2>8. memo[m].rev \in Nat  BY <1>4, <2>2
  <2>. QED  BY <2>2, <2>3, <2>6, <2>7, <2>8, PrepareMemoKept
<1>6. ASSUME NEW m \in Memos, ArchiveMemo(c, m) PROVE WInv'
  <2>1. PICK row : row = [memo[m] EXCEPT !.active = FALSE, !.updated = clock]  OBVIOUS
  <2>2. /\ memo[m] # None /\ Prepare(c, "memory", m, row, memo[m].rev)
        /\ UNCHANGED <<truth, reviewed, commits, memoVars>>
    BY <1>6, <2>1 DEF ArchiveMemo, MemoReadable
  <2>3. row \in MemoRow  BY <1>2, <1>4, <2>1, <2>2 DEF MemoRow
  <2>4. /\ row.related = memo[m].related /\ row.contradicts = memo[m].contradicts
        /\ row.edited = memo[m].edited /\ row.lineage = memo[m].lineage
        /\ row.created = memo[m].created /\ row.updated = clock
    BY <1>4, <2>1, <2>2 DEF MemoRow
  <2>5. ~stepped => row.created <= row.updated /\ row.updated <= clock
    BY <1>2, <1>4, <2>2, <2>4 DEF MemoSound
  <2>6. MemoSound(m, row)  BY <1>4, <2>2, <2>4, <2>5 DEF MemoSound
  <2>7. FromPam(row) => FromPam(memo[m])  BY <2>4 DEF FromPam
  <2>8. memo[m].rev \in Nat /\ memo[m].rev # 0  BY <1>4, <2>2
  <2>. QED  BY <2>2, <2>3, <2>6, <2>7, <2>8, PrepareMemoKept
<1>. QED  BY <1>3, <1>5, <1>6

(* What readers count on: a revision keeps its contents, and no memory goes *)
(* away or back to an earlier revision.                                    *)
PastLater ==
    /\ commits' \in Nat /\ commits <= commits' /\ (commits' = commits => memo' = memo)
    /\ \A i \in 0 .. commits : RevisionsAt(i)' = RevisionsAt(i)
    /\ \A m \in Memos : memo[m] # None => memo'[m] # None /\ memo[m].rev <= memo'[m].rev

LEMMA PastStands ==
    ASSUME WInv, UNCHANGED <<memo, past, commits>>
    PROVE  PastLater
<1>1. \A m \in Memos : memo[m] # None => memo[m].rev \in Nat
  BY DEF WInv, MemosSound, MemoRow
<1>2. commits' \in Nat /\ commits <= commits'  BY DEF WInv, MemosSound
<1>3. \A m \in Memos : memo[m] # None => memo'[m] # None /\ memo[m].rev <= memo'[m].rev
  BY <1>1
<1>4. \A i \in 0 .. commits : RevisionsAt(i)' = RevisionsAt(i)  BY DEF RevisionsAt
<1>. QED  BY <1>2, <1>3, <1>4 DEF PastLater

(* The transaction of a pending write: a new memory, or one that is as it   *)
(* was when the write was prepared.                                        *)
LEMMA CommitMemoKept ==
    ASSUME WInv, NEW c \in Clients, CommitMemo(c)
    PROVE  WInv' /\ PastLater
<1>1. PICK w : w = pending[c]  OBVIOUS
<1>2. PICK new : new = [w.row EXCEPT !.rev = w.rev + 1]  OBVIOUS
<1>3. /\ w # None /\ CommitAllowed(memo[w.id], w)
      /\ memo' = [memo EXCEPT ![w.id] = new] /\ past' = Append(past, memo')
      /\ commits' = commits + 1
      /\ pending' = [pending EXCEPT ![c] = None] /\ plan' = [plan EXCEPT ![c] = None]
      /\ UNCHANGED <<clock, stepped, clash>>
  BY <1>1, <1>2 DEF CommitMemo
<1>4. PendingMemo(w)  BY <1>1, <1>3 DEF WInv, PendingMemos
<1>5. w.id \in Memos /\ w.rev \in Nat /\ w.row \in MemoRow /\ MemoSound(w.id, w.row)
  BY <1>4 DEF PendingMemo
<1>6. new \in MemoRow /\ new.rev = w.rev + 1  BY <1>2, <1>5 DEF MemoRow
<1>7. /\ new.related = w.row.related /\ new.contradicts = w.row.contradicts
      /\ new.lineage = w.row.lineage /\ new.edited = w.row.edited
      /\ new.created = w.row.created /\ new.updated = w.row.updated
  BY <1>2, <1>5 DEF MemoRow
<1>8. new # None  BY <1>6, MemoryAssumption
<1>9. memo'[w.id] = new /\ \A m \in Memos \ {w.id} : memo'[m] = memo[m]
  BY <1>3, <1>5 DEF WInv, MemosSound
<1>10. \/ w.rev = 0 /\ memo[w.id] = None
       \/ w.rev # 0 /\ memo[w.id] # None /\ memo[w.id].rev = w.rev
  BY <1>3, <1>4 DEF CommitAllowed, PendingMemo
<1>11. \A m \in Memos : memo[m] # None => memo[m].rev \in Nat /\ memo[m] \in MemoRow
  BY DEF WInv, MemosSound, MemoRow
<1>12. \A m \in Memos : memo[m] # None => memo'[m] # None /\ memo[m].rev <= memo'[m].rev
  <2>. SUFFICES ASSUME NEW m \in Memos, memo[m] # None
                PROVE  memo'[m] # None /\ memo[m].rev <= memo'[m].rev
    OBVIOUS
  <2>1. CASE m = w.id
    <3>1. memo[m].rev = w.rev  BY <1>10, <2>1
    <3>2. w.rev <= new.rev  BY <1>5, <1>6
    <3>. QED  BY <1>8, <1>9, <2>1, <3>1, <3>2
  <2>2. CASE m # w.id
    <3>1. memo'[m] = memo[m] /\ memo[m].rev \in Nat  BY <1>9, <1>11, <2>2
    <3>. QED  BY <3>1
  <2>. QED  BY <2>1, <2>2
<1>13. /\ clock \in Nat /\ stepped \in BOOLEAN /\ commits \in Nat
       /\ memo' \in [Memos -> MemoRow \union {None}]
  BY <1>3, <1>6 DEF WInv, MemosSound
<1>14. \A m : \A row \in MemoRow : MemoSound(m, row) => MemoSound(m, row)'
  <2>1. clock \in Nat /\ clock' \in Nat /\ (~stepped' => ~stepped /\ clock <= clock')
    BY <1>3, <1>13
  <2>2. \A m \in Memos : memo[m] # None => memo'[m] # None  BY <1>12
  <2>. QED  BY <2>1, <2>2, MemoLasts
<1>15. MemosSound'
  <2>1. ASSUME NEW m \in Memos, memo'[m] # None PROVE MemoSound(m, memo[m])'
    <3>1. PICK row : row = memo'[m]  OBVIOUS
    <3>2. row \in MemoRow /\ MemoSound(m, row)
      <4>1. CASE m = w.id
        <5>1. MemoSound(w.id, new)  BY <1>5, <1>7 DEF MemoSound
        <5>. QED  BY <1>6, <1>9, <3>1, <4>1, <5>1
      <4>2. CASE m # w.id
        <5>1. row = memo[m] /\ row # None  BY <1>9, <2>1, <3>1, <4>2
        <5>. QED  BY <5>1 DEF WInv, MemosSound
      <4>. QED  BY <4>1, <4>2
    <3>3. MemoSound(m, row)'  BY <1>14, <3>2
    <3>. QED  BY <3>1, <3>3
  <2>. QED  BY <1>3, <1>13, <2>1 DEF MemosSound
<1>16. /\ past' \in Seq([Memos -> MemoRow \union {None}]) /\ Len(past') = commits' + 1
       /\ past'[commits' + 1] = memo'
       /\ \A i \in 1 .. commits + 1 : past'[i] = past[i]
  BY <1>3, <1>13 DEF WInv, PastKept
<1>17. PastKept'
  <2>1. ASSUME NEW i \in 1 .. commits' + 1, NEW m \in Memos, past'[i][m] # None
        PROVE  memo'[m] # None /\ past'[i][m].rev <= memo'[m].rev
    <3>0. memo'[m] # None => memo'[m].rev \in Nat  BY <1>13 DEF MemoRow
    <3>1. CASE i = commits' + 1
      <4>1. past'[i] = memo'  BY <1>16, <3>1
      <4>. QED  BY <2>1, <3>0, <4>1
    <3>2. CASE i # commits' + 1
      <4>1. i \in 1 .. commits + 1  BY <1>3, <1>13, <3>2
      <4>2. past'[i][m] = past[i][m]  BY <1>16, <4>1
      <4>3. memo[m] # None /\ past[i][m].rev <= memo[m].rev
        BY <2>1, <4>1, <4>2 DEF WInv, PastKept
      <4>4. past[i] \in [Memos -> MemoRow \union {None}]  BY <4>1 DEF WInv, PastKept
      <4>5. past[i][m].rev \in Nat  BY <2>1, <4>2, <4>4 DEF MemoRow
      <4>6. memo'[m] # None /\ memo[m].rev <= memo'[m].rev /\ memo[m].rev \in Nat
        BY <1>11, <1>12, <4>3
      <4>. QED  BY <3>0, <4>2, <4>3, <4>5, <4>6
    <3>. QED  BY <3>1, <3>2
  <2>. QED  BY <1>16, <2>1 DEF PastKept
<1>18. pending' = [d \in Clients |-> IF d = c THEN None ELSE pending[d]]
       /\ plan' = [d \in Clients |-> plan'[d]]
  BY <1>3 DEF WInv, PendingMemos
<1>19. ASSUME NEW d \in Clients, pending'[d] # None
       PROVE  pending'[d].table = "memory" /\ PendingMemo(pending[d])'
  <2>1. PICK v : v = pending[d]  OBVIOUS
  <2>2. pending'[d] = v /\ v.table = "memory" /\ PendingMemo(v)
    BY <1>18, <1>19, <2>1 DEF WInv, PendingMemos
  <2>3. MemoSound(v.id, v.row)'  BY <1>14, <2>2 DEF PendingMemo
  <2>4. ASSUME v.rev # 0
        PROVE  /\ memo'[v.id] # None /\ v.rev <= memo'[v.id].rev
               /\ v.rev = memo'[v.id].rev /\ FromPam(v.row) => FromPam(memo'[v.id])
    <3>1. /\ memo[v.id] # None /\ v.rev <= memo[v.id].rev /\ v.id \in Memos /\ v.rev \in Nat
          /\ v.rev = memo[v.id].rev /\ FromPam(v.row) => FromPam(memo[v.id])
      BY <2>2, <2>4 DEF PendingMemo
    <3>2. CASE v.id = w.id
      <4>1. v.rev <= w.rev  BY <1>10, <3>1, <3>2
      <4>2. v.rev <= new.rev /\ v.rev # new.rev  BY <1>5, <1>6, <3>1, <4>1
      <4>. QED  BY <1>8, <1>9, <3>2, <4>2
    <3>3. CASE v.id # w.id
      <4>1. memo'[v.id] = memo[v.id]  BY <1>9, <3>1, <3>3
      <4>. QED  BY <3>1, <4>1
    <3>. QED  BY <3>2, <3>3
  <2>5. PendingMemo(v)'  BY <2>2, <2>3, <2>4 DEF PendingMemo, FromPam
  <2>. QED  BY <2>2, <2>5
<1>20. PendingMemos'  BY <1>18, <1>19 DEF PendingMemos
<1>21. ASSUME ~clash
       PROVE  /\ \A m, n \in Memos : memo'[m] # None /\ FromPam(memo'[m])
                                     /\ memo'[n] # None /\ FromPam(memo'[n]) => m = n
              /\ \A d \in Clients : Publishing(pending'[d]) =>
                    /\ \A m \in Memos : memo'[m] # None => ~FromPam(memo'[m])
                    /\ \A e \in Clients : Publishing(pending'[e]) => d = e
  <2>1. /\ \A m, n \in Memos : memo[m] # None /\ FromPam(memo[m])
                               /\ memo[n] # None /\ FromPam(memo[n]) => m = n
        /\ \A d \in Clients : Publishing(pending[d]) =>
              /\ \A m \in Memos : memo[m] # None => ~FromPam(memo[m])
              /\ \A e \in Clients : Publishing(pending[e]) => d = e
    BY <1>21 DEF WInv, LineageSound
  <2>2. \A d \in Clients : Publishing(pending'[d]) => d # c /\ Publishing(pending[d])
    BY <1>18 DEF Publishing
  <2>3. FromPam(new) <=> FromPam(w.row)  BY <1>7 DEF FromPam
  <2>4. CASE Publishing(w)
    <3>1. /\ \A m \in Memos : memo[m] # None => ~FromPam(memo[m])
          /\ \A e \in Clients : Publishing(pending[e]) => c = e
      BY <1>1, <2>1, <2>4
    <3>2. \A m \in Memos : memo'[m] # None /\ FromPam(memo'[m]) => m = w.id
      BY <1>9, <3>1
    <3>. QED  BY <2>2, <3>1, <3>2
  <2>5. CASE ~Publishing(w)
    <3>1. FromPam(new) => memo[w.id] # None /\ FromPam(memo[w.id])
      BY <1>3, <1>4, <1>10, <2>3, <2>5 DEF Publishing, PendingMemo
    <3>2. \A m \in Memos : memo'[m] # None /\ FromPam(memo'[m]) =>
             memo[m] # None /\ FromPam(memo[m])
      BY <1>9, <3>1
    <3>. QED  BY <2>1, <2>2, <3>2
  <2>. QED  BY <2>4, <2>5
<1>22. LineageSound'  BY <1>3, <1>21 DEF LineageSound, Publishing, FromPam
<1>23. PastLater
  <2>1. \A i \in 0 .. commits : RevisionsAt(i)' = RevisionsAt(i)
    <3>. SUFFICES ASSUME NEW i \in 0 .. commits PROVE RevisionsAt(i)' = RevisionsAt(i)
      OBVIOUS
    <3>1. past'[i + 1] = past[i + 1]  BY <1>13, <1>16
    <3>. QED  BY <3>1 DEF RevisionsAt
  <2>2. commits' \in Nat /\ commits <= commits' /\ commits' # commits  BY <1>3, <1>13
  <2>. QED  BY <1>12, <2>1, <2>2 DEF PastLater
<1>. QED  BY <1>15, <1>17, <1>20, <1>22, <1>23 DEF WInv

(* An approved plan creates a memory only when there is none of the lineage, *)
(* and notices no publication that is about to create one.                 *)
LEMMA PublishKept ==
    ASSUME WInv, NEW c \in Clients, Publish(c)
    PROVE  WInv' /\ PastLater
<1>1. /\ plan[c] # None /\ plan[c] = PamPreview
      /\ UNCHANGED <<memo, past, clock, stepped, commits>>
  BY DEF Publish, PlanCurrent, NotMemo
<1>2. PastLater  BY <1>1, PastStands
<1>3. CASE plan[c].action = "create"
  <2>1. WithLineage = {}  BY <1>1, <1>3 DEF PamPreview
  <2>2. PICK m \in Unused(memo, ReservedMemos) :
           Prepare(c, "memory", m, NewMemo(FALSE, {}, {}, "pam"), 0)
    BY <1>3 DEF Publish
  <2>3. PICK row : row = NewMemo(FALSE, {}, {}, "pam")  OBVIOUS
  <2>4. PICK w : w = [table |-> "memory", id |-> m, row |-> row, rev |-> 0]  OBVIOUS
  <2>5. pending' = [pending EXCEPT ![c] = w] /\ pending[c] = None
    BY <2>2, <2>3, <2>4 DEF Prepare
  <2>6. pending' = [d \in Clients |-> IF d = c THEN w ELSE pending[d]] /\ plan' = plan
        /\ clash' = (clash \/ \E d \in Clients : pending[d] # None /\ pending[d].table = "memory"
                                                    /\ pending[d].row.lineage = "pam")
    BY <1>3, <2>5 DEF Publish, WInv, PendingMemos
  <2>7. clock \in Nat /\ stepped \in BOOLEAN  BY DEF WInv, MemosSound
  <2>8. row \in MemoRow  BY <2>3, <2>7 DEF NewMemo, MemoRow
  <2>9. /\ row.related = {} /\ row.contradicts = {} /\ row.lineage = "pam" /\ ~row.edited
        /\ row.created = clock /\ row.updated = clock
    BY <2>3 DEF NewMemo
  <2>10. m \in Memos /\ MemoSound(m, row)
    BY <2>7, <2>9 DEF MemoSound, Unused, WInv, MemosSound
  <2>11. PendingMemo(w) /\ w.table = "memory"  BY <2>4, <2>8, <2>10 DEF PendingMemo
  <2>12. ASSUME ~clash'
         PROVE  /\ \A x, n \in Memos : memo[x] # None /\ FromPam(memo[x])
                                       /\ memo[n] # None /\ FromPam(memo[n]) => x = n
                /\ \A d \in Clients : Publishing(pending'[d]) =>
                      /\ \A x \in Memos : memo[x] # None => ~FromPam(memo[x])
                      /\ \A e \in Clients : Publishing(pending'[e]) => d = e
    <3>1. \A x \in Memos : memo[x] # None => ~FromPam(memo[x])
      BY <2>1 DEF WithLineage, FromPam
    <3>2. ASSUME NEW d \in Clients, d # c PROVE ~Publishing(pending'[d])
      <4>1. pending'[d] = pending[d]  BY <2>6, <3>2
      <4>2. pending[d] # None => pending[d].table = "memory"  BY DEF WInv, PendingMemos
      <4>. QED  BY <2>6, <2>12, <4>1, <4>2 DEF Publishing, FromPam
    <3>. QED  BY <3>1, <3>2
  <2>13. LineageSound'  BY <1>1, <2>12 DEF LineageSound, Publishing, FromPam
  <2>14. \A d \in Clients : pending'[d] # None =>
            \/ pending'[d] = pending[d]
            \/ pending'[d].table = "memory" /\ PendingMemo(pending'[d])
    <3>. SUFFICES ASSUME NEW d \in Clients
                  PROVE  \/ pending'[d] = pending[d]
                         \/ pending'[d].table = "memory" /\ PendingMemo(pending'[d])
      OBVIOUS
    <3>1. PICK v : v = pending'[d]  OBVIOUS
    <3>2. v = pending[d] \/ (v.table = "memory" /\ PendingMemo(v))  BY <2>6, <2>11, <3>1
    <3>. QED  BY <3>1, <3>2
  <2>15. /\ clock' \in Nat /\ stepped' \in BOOLEAN /\ (~stepped' => ~stepped /\ clock <= clock')
         /\ pending' = [d \in Clients |-> pending'[d]] /\ plan' = [d \in Clients |-> plan'[d]]
    BY <1>1, <2>6, <2>7 DEF WInv, PendingMemos
  <2>16. WInv'  BY <1>1, <2>13, <2>14, <2>15, MemoStands
  <2>. QED  BY <1>2, <2>16
<1>4. CASE plan[c].action # "create"
  <2>1. plan' = [plan EXCEPT ![c] = None] /\ UNCHANGED <<pending, clash>>
    BY <1>4 DEF Publish
  <2>2. /\ pending' = [d \in Clients |-> pending'[d]] /\ plan' = [d \in Clients |-> plan'[d]]
        /\ \A d \in Clients : pending'[d] \in {pending[d], None}
    BY <2>1 DEF WInv, PendingMemos
  <2>3. WInv'  BY <1>1, <2>1, <2>2, PendingShrinks
  <2>. QED  BY <1>2, <2>3
<1>. QED  BY <1>3, <1>4

(* The other steps of the writers, and the clock.                          *)
LEMMA RestKept ==
    ASSUME WInv
    PROVE  /\ \A c \in Clients : AbandonMemo(c) \/ Preview(c) \/ Reject(c) => WInv' /\ PastLater
           /\ \A now \in 0 .. MaxClock : SetClock(now) => WInv' /\ PastLater
           /\ NoWrite => WInv' /\ PastLater
<1>1. ASSUME NEW c \in Clients, AbandonMemo(c) \/ Preview(c) \/ Reject(c)
      PROVE  WInv' /\ PastLater
  <2>1. UNCHANGED <<memo, past, commits, clock, stepped, clash>>
    BY <1>1 DEF AbandonMemo, Preview, Reject, NotMemo, truthVars
  <2>2. /\ pending' = [d \in Clients |-> pending'[d]]
        /\ \A d \in Clients : pending'[d] \in {pending[d], None}
    BY <1>1 DEF AbandonMemo, Preview, Reject, truthVars, WInv, PendingMemos
  <2>3. plan' = [d \in Clients |-> plan'[d]]
    BY <1>1 DEF AbandonMemo, Preview, Reject, WInv, PendingMemos
  <2>. QED  BY <2>1, <2>2, <2>3, PendingShrinks, PastStands
<1>2. ASSUME NEW now \in 0 .. MaxClock, SetClock(now) PROVE WInv' /\ PastLater
  <2>1. /\ UNCHANGED <<memo, past, commits, pending, plan, clash>>
        /\ clock' = now /\ stepped' = (stepped \/ now < clock)
    BY <1>2 DEF SetClock, truthVars
  <2>2. clock \in Nat /\ stepped \in BOOLEAN /\ now \in Nat
    BY MemoryAssumption DEF WInv, MemosSound
  <2>3. clock' \in Nat /\ stepped' \in BOOLEAN /\ (~stepped' => ~stepped /\ clock <= clock')
    <3>1. (stepped \/ now < clock) \in BOOLEAN  OBVIOUS
    <3>2. stepped' \in BOOLEAN  BY <2>1, <3>1, Zenon
    <3>3. ~stepped' => ~stepped /\ ~(now < clock)  BY <2>1, Zenon
    <3>4. ~(now < clock) => clock <= now  BY <2>2
    <3>. QED  BY <2>1, <2>2, <3>2, <3>3, <3>4
  <2>4. pending' = [d \in Clients |-> pending'[d]] /\ plan' = [d \in Clients |-> plan'[d]]
    BY <2>1 DEF WInv, PendingMemos
  <2>5. LineageSound'  BY <2>1 DEF WInv, LineageSound, Publishing, FromPam
  <2>6. \A d \in Clients : pending'[d] # None =>
           \/ pending'[d] = pending[d]
           \/ pending'[d].table = "memory" /\ PendingMemo(pending'[d])
    BY <2>1
  <2>7. WInv'  BY <2>1, <2>3, <2>4, <2>5, <2>6, MemoStands
  <2>. QED  BY <2>1, <2>7, PastStands
<1>3. ASSUME NoWrite PROVE WInv' /\ PastLater
  <2>1. UNCHANGED <<memo, past, commits, clock, stepped, clash, pending, plan>>
    BY <1>3 DEF NoWrite, NotMemo, truthVars
  <2>2. /\ pending' = [d \in Clients |-> pending'[d]] /\ plan' = [d \in Clients |-> plan'[d]]
        /\ \A d \in Clients : pending'[d] \in {pending[d], None}
    BY <2>1 DEF WInv, PendingMemos
  <2>. QED  BY <2>1, <2>2, PendingShrinks, PastStands
<1>. QED  BY <1>1, <1>2, <1>3

LEMMA MemoNextKept ==
    ASSUME WInv, MemoNext
    PROVE  /\ WInv' /\ PastLater
           /\ NotReading \/ ReadMemos(ReportKinds)
<1>1. ASSUME ReadMemos(ReportKinds) PROVE WInv' /\ PastLater
  <2>1. NoWrite
    BY <1>1 DEF ReadMemos, Begin, List, ReadOne, FinishIndex, FinishBudget, FinishConsolidation,
                FinishSemantic, FinishRecall, FinishQuery, Finish, Discard
  <2>. QED  BY <2>1, RestKept
<1>2. ASSUME NEW c \in Clients, WriteMemos(c, AtMostOneMemo, BOOLEAN, {None, "pam"})
      PROVE  WInv' /\ PastLater /\ NotReading
  <2>1. CASE CommitMemo(c) \/ AbandonMemo(c)
    BY <2>1, CommitMemoKept, RestKept DEF CommitMemo, AbandonMemo
  <2>2. CASE \/ \E m \in Unused(memo, ReservedMemos), secret \in BOOLEAN,
                   rel \in AtMostOneMemo, con \in AtMostOneMemo :
                      CreateMemo(c, m, secret, rel, con)
             \/ \E m \in Memos, rel \in AtMostOneMemo, con \in AtMostOneMemo,
                   lin \in {None, "pam"} : UpdateMemo(c, m, rel, con, lin)
             \/ \E m \in Memos : ArchiveMemo(c, m)
    <3>1. WInv'  BY <2>2, MemoChangesKept
    <3>2. UNCHANGED memoVars /\ UNCHANGED commits
      BY <2>2 DEF CreateMemo, UpdateMemo, ArchiveMemo
    <3>3. UNCHANGED <<memo, past, commits>> /\ NotReading
      BY <3>2 DEF memoVars, NotReading
    <3>. QED  BY <3>1, <3>3, PastStands
  <2>. QED  BY <1>2, <2>1, <2>2 DEF WriteMemos
<1>3. ASSUME NEW c \in Clients, PublishMemos(c) PROVE WInv' /\ PastLater /\ NotReading
  BY <1>3, PublishKept, RestKept DEF PublishMemos, Publish, Preview, Reject
<1>4. ASSUME MoveClock PROVE WInv' /\ PastLater /\ NotReading
  BY <1>4, RestKept DEF MoveClock, SetClock
<1>. QED  BY <1>1, <1>2, <1>3, <1>4 DEF MemoNext
-----------------------------------------------------------------------------
(* Readers of memories.                                                    *)
LEMMA RevisionsNow ==
    ASSUME WInv
    PROVE  /\ commits \in 0 .. commits
           /\ DOMAIN RevisionsAt(commits) = {m \in Memos : memo[m] # None /\ memo[m].active
                                                              /\ ~memo[m].secret}
           /\ \A m \in DOMAIN RevisionsAt(commits) : RevisionsAt(commits)[m] = memo[m].rev
<1>1. commits \in Nat /\ past[commits + 1] = memo  BY DEF WInv, MemosSound, PastKept
<1>. QED  BY <1>1 DEF RevisionsAt

LEMMA RevisionsThen ==
    ASSUME WInv, NEW i \in 0 .. commits
    PROVE  /\ RevisionsAt(i) = [m \in DOMAIN RevisionsAt(i) |-> RevisionsAt(i)[m]]
           /\ \A m \in DOMAIN RevisionsAt(i) :
                 m \in Memos /\ memo[m] # None /\ RevisionsAt(i)[m] <= memo[m].rev
<1>1. i + 1 \in 1 .. commits + 1  BY DEF WInv, MemosSound
<1>2. \A m \in Memos : past[i + 1][m] # None =>
         memo[m] # None /\ past[i + 1][m].rev <= memo[m].rev
  BY <1>1 DEF WInv, PastKept
<1>. QED  BY <1>2 DEF RevisionsAt

(* What others commit does not change what has been read.                  *)
LEMMA ReaderLasts ==
    ASSUME WInv, PastLater, NEW v, ReaderSound(v)
    PROVE  ReaderSound(v)'
<1>1. commits \in Nat /\ v.rev \in 0 .. commits  BY DEF WInv, MemosSound, ReaderSound
<1>2. v.rev \in 0 .. commits' /\ RevisionsAt(v.rev)' = RevisionsAt(v.rev)
  BY <1>1 DEF PastLater
<1>3. v.rev = commits' => v.rev = commits /\ memo' = memo  BY <1>1 DEF PastLater
<1>4. \A m \in v.todo \union DOMAIN v.seen : m \in Memos /\ memo'[m] # None
  BY DEF ReaderSound, PastLater
<1>. QED  BY <1>2, <1>3, <1>4 DEF ReaderSound

LEMMA ReportLasts ==
    ASSUME WInv, PastLater, NEW v, ReportSound(v)
    PROVE  ReportSound(v)'
<1>1. commits \in Nat /\ v.rev \in 0 .. commits  BY DEF WInv, MemosSound, ReportSound
<1>2. v.rev \in 0 .. commits' /\ RevisionsAt(v.rev)' = RevisionsAt(v.rev)
  BY <1>1 DEF PastLater
<1>. QED  BY <1>2 DEF ReportSound

LEMMA ReadersKept ==
    ASSUME WInv, WInv', PastLater,
           reader' = [r \in Readers |-> reader'[r]], report' = [r \in Readers |-> report'[r]],
           \A r \in Readers : reader'[r] # None => ReaderSound(reader'[r]),
           \A r \in Readers : report'[r] # None => ReportSound(report'[r]),
           index' # None => index'.rev \in 0 .. commits /\ index'.entries = RevisionsAt(index'.rev)
    PROVE  RInv'
<1>1. ASSUME NEW r \in Readers, reader'[r] # None PROVE ReaderSound(reader[r])'
  <2>1. PICK v : v = reader'[r]  OBVIOUS
  <2>2. ReaderSound(v)  BY <1>1, <2>1
  <2>3. ReaderSound(v)'  BY <2>2, ReaderLasts
  <2>. QED  BY <2>1, <2>3
<1>2. ASSUME NEW r \in Readers, report'[r] # None PROVE ReportSound(report[r])'
  <2>1. PICK v : v = report'[r]  OBVIOUS
  <2>2. ReportSound(v)  BY <1>2, <2>1
  <2>3. ReportSound(v)'  BY <2>2, ReportLasts
  <2>. QED  BY <2>1, <2>3
<1>3. ASSUME index' # None
      PROVE  index'.rev \in 0 .. commits' /\ index'.entries = RevisionsAt(index.rev)'
  <2>1. PICK i : i = index'.rev  OBVIOUS
  <2>2. i \in 0 .. commits /\ index'.entries = RevisionsAt(i) /\ commits \in Nat
    BY <1>3, <2>1 DEF WInv, MemosSound
  <2>3. i \in 0 .. commits' /\ RevisionsAt(i)' = RevisionsAt(i)  BY <2>2 DEF PastLater
  <2>. QED  BY <2>1, <2>2, <2>3
<1>. QED  BY <1>1, <1>2, <1>3 DEF RInv, ReadersSound

(* One reader goes on.                                                     *)
LEMMA ReadKept ==
    ASSUME RInv, WInv', PastLater, NEW r \in Readers, NEW v,
           reader' = [reader EXCEPT ![r] = v], v # None => ReaderSound(v),
           NEW u, report' = [report EXCEPT ![r] = u] \/ report' = report,
           report' # report => u = None \/ ReportSound(u),
           index' = index \/ (index' # None => index'.rev \in 0 .. commits
                                               /\ index'.entries = RevisionsAt(index'.rev))
    PROVE  RInv'
<1>1. reader' = [q \in Readers |-> IF q = r THEN v ELSE reader[q]]
  BY DEF RInv, ReadersSound
<1>2. \A q \in Readers : reader'[q] # None => ReaderSound(reader'[q])
  <2>. SUFFICES ASSUME NEW q \in Readers, reader'[q] # None PROVE ReaderSound(reader'[q])
    OBVIOUS
  <2>1. PICK x : x = reader'[q]  OBVIOUS
  <2>2. ReaderSound(x)
    <3>1. CASE q = r  BY <1>1, <2>1, <3>1
    <3>2. CASE q # r
      <4>1. x = reader[q]  BY <1>1, <2>1, <3>2
      <4>. QED  BY <2>1, <4>1 DEF RInv, ReadersSound
    <3>. QED  BY <3>1, <3>2
  <2>. QED  BY <2>1, <2>2
<1>3. report = [q \in Readers |-> report[q]]  BY DEF RInv, ReadersSound
<1>4. report' = [q \in Readers |-> report'[q]]  BY <1>3
<1>5. \A q \in Readers : report'[q] # None => ReportSound(report'[q])
  <2>. SUFFICES ASSUME NEW q \in Readers, report'[q] # None PROVE ReportSound(report'[q])
    OBVIOUS
  <2>1. PICK x : x = report'[q]  OBVIOUS
  <2>2. ReportSound(x)
    <3>1. CASE x = report[q]  BY <2>1, <3>1 DEF RInv, ReadersSound
    <3>2. CASE x # report[q]
      <4>1. report' # report  BY <2>1, <3>2
      <4>2. q = r /\ x = u  BY <1>3, <2>1, <3>2, <4>1
      <4>. QED  BY <2>1, <4>1, <4>2
    <3>. QED  BY <3>1, <3>2
  <2>. QED  BY <2>1, <2>2
<1>6. index' # None => index'.rev \in 0 .. commits /\ index'.entries = RevisionsAt(index'.rev)
  BY DEF RInv, ReadersSound
<1>7. reader' = [q \in Readers |-> reader'[q]]  BY <1>1
<1>8. WInv  BY DEF RInv
<1>. QED  BY <1>2, <1>4, <1>5, <1>6, <1>7, <1>8, ReadersKept

LEMMA BeginKept ==
    ASSUME RInv, WInv', PastLater, NEW r \in Readers, NEW kind \in ReportKinds, Begin(r, kind)
    PROVE  RInv'
<1>1. PICK v : v = [kind |-> kind, rev |-> commits, seen |-> <<>>, todo |-> {}, listed |-> FALSE,
                    opened |-> IF kind = "query" THEN index.entries ELSE <<>>]
  OBVIOUS
<1>2. /\ reader' = [reader EXCEPT ![r] = v] /\ report' = [report EXCEPT ![r] = None]
      /\ index' = index
      /\ kind = "query" => index # None /\ index.rev = commits
  BY <1>1 DEF Begin
<1>3. /\ DOMAIN v.seen = {} /\ v.seen = [m \in DOMAIN v.seen |-> v.seen[m]]
  BY <1>1
<1>4. v.kind = "query" => v.opened = RevisionsAt(v.rev)
  BY <1>1, <1>2 DEF RInv, ReadersSound
<1>5. commits \in 0 .. commits  BY RevisionsNow DEF RInv
<1>6. ReaderSound(v)  BY <1>1, <1>3, <1>4, <1>5 DEF ReaderSound
<1>. QED  BY <1>2, <1>6, ReadKept

LEMMA ListKept ==
    ASSUME RInv, WInv', PastLater, NEW r \in Readers, List(r)
    PROVE  RInv'
<1>1. PICK old : old = reader[r]  OBVIOUS
<1>2. old # None /\ ~old.listed /\ index' = index /\ report' = report  BY <1>1 DEF List
<1>3. ReaderSound(old) /\ WInv  BY <1>1, <1>2 DEF RInv, ReadersSound
<1>4. PICK ids : ids = IF old.kind = "query" THEN DOMAIN old.opened
                       ELSE {m \in Memos : memo[m] # None /\ memo[m].active /\ ~memo[m].secret}
  OBVIOUS
<1>5. PICK v : v = [kind |-> old.kind, rev |-> old.rev, seen |-> old.seen, todo |-> ids,
                    listed |-> TRUE, opened |-> old.opened]
  OBVIOUS
<1>6. reader' = [reader EXCEPT ![r] = v]
  <2>1. reader' = [reader EXCEPT ![r].listed = TRUE, ![r].todo = ids]
    BY <1>1, <1>4 DEF List
  <2>2. reader = [q \in Readers |-> reader[q]]  BY DEF RInv, ReadersSound
  <2>3. reader' = [reader EXCEPT ![r] = [old EXCEPT !.listed = TRUE, !.todo = ids]]
    BY <1>1, <2>1, <2>2
  <2>4. [old EXCEPT !.listed = TRUE, !.todo = ids] = v
    <3>1. old = [kind |-> old.kind, rev |-> old.rev, seen |-> old.seen, todo |-> old.todo,
                 listed |-> old.listed, opened |-> old.opened]
      BY <1>3 DEF ReaderSound
    <3>2. PICK yes : yes = TRUE  OBVIOUS
    <3>3. PICK mid : mid = [old EXCEPT !.listed = yes]  OBVIOUS
    <3>4. mid = [kind |-> old.kind, rev |-> old.rev, seen |-> old.seen, todo |-> old.todo,
                 listed |-> yes, opened |-> old.opened]
      BY <3>1, <3>3
    <3>5. [mid EXCEPT !.todo = ids] = [kind |-> old.kind, rev |-> old.rev, seen |-> old.seen,
                                       todo |-> ids, listed |-> yes, opened |-> old.opened]
      BY <3>4
    <3>. QED  BY <1>5, <3>2, <3>3, <3>5
  <2>. QED  BY <2>3, <2>4
<1>7. DOMAIN old.seen = {} /\ old.rev \in 0 .. commits  BY <1>2, <1>3 DEF ReaderSound
<1>8. CASE old.kind = "query"
  <2>1. old.opened = RevisionsAt(old.rev) /\ ids = DOMAIN RevisionsAt(old.rev)
    BY <1>3, <1>4, <1>8 DEF ReaderSound
  <2>2. \A m \in ids : m \in Memos /\ memo[m] # None
    BY <1>3, <1>7, <2>1, RevisionsThen
  <2>3. ReaderSound(v)  BY <1>3, <1>5, <1>7, <1>8, <2>1, <2>2 DEF ReaderSound
  <2>. QED  BY <1>2, <1>6, <2>3, ReadKept
<1>9. CASE old.kind # "query"
  <2>1. ids = {m \in Memos : memo[m] # None /\ memo[m].active /\ ~memo[m].secret}
    BY <1>4, <1>9
  <2>2. ids = DOMAIN RevisionsAt(commits)  BY <1>3, <2>1, RevisionsNow
  <2>3. ReaderSound(v)  BY <1>3, <1>5, <1>7, <1>9, <2>1, <2>2 DEF ReaderSound
  <2>. QED  BY <1>2, <1>6, <2>3, ReadKept
<1>. QED  BY <1>8, <1>9

(* One memory is read: at a revision no earlier than the one the reader      *)
(* began with.                                                             *)
LEMMA ReadOneKept ==
    ASSUME RInv, WInv', PastLater, NEW r \in Readers, NEW m \in Memos, ReadOne(r, m)
    PROVE  RInv'
<1>1. PICK old : old = reader[r]  OBVIOUS
<1>2. old # None /\ m \in old.todo /\ index' = index /\ report' = report
  BY <1>1 DEF ReadOne
<1>3. ReaderSound(old) /\ WInv  BY <1>1, <1>2 DEF RInv, ReadersSound
<1>4. PICK seen : seen = Extended(old.seen, m, memo[m].rev)  OBVIOUS
<1>5. PICK v : v = [kind |-> old.kind, rev |-> old.rev, seen |-> seen, todo |-> old.todo \ {m},
                    listed |-> old.listed, opened |-> old.opened]
  OBVIOUS
<1>6. \/ reader' = [reader EXCEPT ![r] = None]
      \/ reader' = [reader EXCEPT ![r] = v] /\ (old.kind = "query" => memo[m].rev = old.opened[m])
  <2>1. \/ reader' = [reader EXCEPT ![r] = None]
        \/ /\ reader' = [reader EXCEPT ![r].todo = old.todo \ {m}, ![r].seen = seen]
           /\ old.kind = "query" => memo[m].rev = old.opened[m]
    <3>1. reader = [q \in Readers |-> reader[q]]  BY DEF RInv, ReadersSound
    <3>2. \/ ReadEnds(r)
          \/ /\ reader' = [reader EXCEPT ![r].todo = @ \ {m},
                                         ![r].seen = Extended(@, m, memo[m].rev)]
             /\ reader[r].kind = "query" => memo[m].rev = reader[r].opened[m]
      BY DEF ReadOne
    <3>3. [reader EXCEPT ![r].todo = @ \ {m}, ![r].seen = Extended(@, m, memo[m].rev)]
             = [reader EXCEPT ![r].todo = old.todo \ {m}, ![r].seen = seen]
      <4>1. old = [kind |-> old.kind, rev |-> old.rev, seen |-> old.seen, todo |-> old.todo,
                   listed |-> old.listed, opened |-> old.opened]
        BY <1>3 DEF ReaderSound
      <4>. QED  BY <1>1, <1>4, <3>1, <4>1
    <3>. QED  BY <1>1, <3>2, <3>3 DEF ReadEnds
  <2>2. reader = [q \in Readers |-> reader[q]]  BY DEF RInv, ReadersSound
  <2>3. [reader EXCEPT ![r].todo = old.todo \ {m}, ![r].seen = seen]
           = [reader EXCEPT ![r] = [old EXCEPT !.todo = old.todo \ {m}, !.seen = seen]]
    BY <1>1, <2>2
  <2>4. [old EXCEPT !.todo = old.todo \ {m}, !.seen = seen] = v
    <3>1. old = [kind |-> old.kind, rev |-> old.rev, seen |-> old.seen, todo |-> old.todo,
                 listed |-> old.listed, opened |-> old.opened]
      BY <1>3 DEF ReaderSound
    <3>2. PICK mid : mid = [old EXCEPT !.todo = old.todo \ {m}]  OBVIOUS
    <3>3. mid = [kind |-> old.kind, rev |-> old.rev, seen |-> old.seen,
                 todo |-> old.todo \ {m}, listed |-> old.listed, opened |-> old.opened]
      BY <3>1, <3>2
    <3>4. [mid EXCEPT !.seen = seen] = v  BY <1>5, <3>3
    <3>. QED  BY <3>2, <3>4
  <2>. QED  BY <2>1, <2>3, <2>4
<1>7. CASE reader' = [reader EXCEPT ![r] = None]
  BY <1>2, <1>7, ReadKept
<1>8. CASE /\ reader' = [reader EXCEPT ![r] = v]
           /\ old.kind = "query" => memo[m].rev = old.opened[m]
  <2>1. /\ DOMAIN seen = DOMAIN old.seen \union {m} /\ seen[m] = memo[m].rev
        /\ \A x \in DOMAIN old.seen \ {m} : seen[x] = old.seen[x]
        /\ seen = [x \in DOMAIN seen |-> seen[x]]
    BY <1>4 DEF Extended
  <2>2. old.listed /\ old.rev \in 0 .. commits  BY <1>2, <1>3 DEF ReaderSound
  <2>3. v.todo \union DOMAIN v.seen = old.todo \union DOMAIN old.seen
    BY <1>2, <1>5, <2>1
  <2>4. m \in DOMAIN RevisionsAt(old.rev) => memo[m].rev >= RevisionsAt(old.rev)[m]
    <3>1. memo[m] # None /\ memo[m].rev \in Nat
      BY <1>2, <1>3 DEF ReaderSound, WInv, MemosSound, MemoRow
    <3>2. m \in DOMAIN RevisionsAt(old.rev) => RevisionsAt(old.rev)[m] <= memo[m].rev
      BY <1>3, <2>2, RevisionsThen
    <3>. QED  BY <3>1, <3>2
  <2>5. /\ \A x \in v.todo \union DOMAIN v.seen : x \in Memos /\ memo[x] # None
        /\ \A x \in DOMAIN v.seen :
              x \in DOMAIN RevisionsAt(v.rev) => v.seen[x] >= RevisionsAt(v.rev)[x]
    <3>1. \A x \in v.todo \union DOMAIN v.seen : x \in Memos /\ memo[x] # None
      BY <1>3, <2>3 DEF ReaderSound
    <3>2. \A x \in DOMAIN old.seen :
             x \in DOMAIN RevisionsAt(old.rev) => old.seen[x] >= RevisionsAt(old.rev)[x]
      BY <1>3 DEF ReaderSound
    <3>3. \A x \in DOMAIN seen :
             x \in DOMAIN RevisionsAt(old.rev) => seen[x] >= RevisionsAt(old.rev)[x]
      BY <2>1, <2>4, <3>2
    <3>. QED  BY <1>5, <3>1, <3>3
  <2>6. v.kind = "query" =>
           /\ v.opened = RevisionsAt(v.rev)
           /\ v.todo \union DOMAIN v.seen = DOMAIN RevisionsAt(v.rev)
           /\ \A x \in DOMAIN v.seen : v.seen[x] = RevisionsAt(v.rev)[x]
    BY <1>3, <1>5, <1>8, <2>1, <2>2, <2>3 DEF ReaderSound
  <2>7. v.kind # "query" /\ v.rev = commits =>
           /\ v.todo \union DOMAIN v.seen = DOMAIN RevisionsAt(v.rev)
           /\ \A x \in DOMAIN v.seen : v.seen[x] = memo[x].rev
    BY <1>3, <1>5, <2>1, <2>2, <2>3 DEF ReaderSound
  <2>8. /\ v = [kind |-> v.kind, rev |-> v.rev, seen |-> v.seen, todo |-> v.todo,
                listed |-> v.listed, opened |-> v.opened]
        /\ v.kind \in ReportKinds /\ v.rev \in 0 .. commits /\ v.listed
        /\ v.seen = [x \in DOMAIN v.seen |-> v.seen[x]]
    BY <1>3, <1>5, <2>1, <2>2 DEF ReaderSound
  <2>9. ReaderSound(v)  BY <2>5, <2>6, <2>7, <2>8 DEF ReaderSound
  <2>. QED  BY <1>2, <1>8, <2>9, ReadKept
<1>. QED  BY <1>6, <1>7, <1>8

(* A reader that has read all it listed, with nothing committed since it    *)
(* began, or from an index of that moment, has read that moment.           *)
LEMMA ReadIsRevision ==
    ASSUME WInv, NEW v, ReaderSound(v), v.listed, v.todo = {},
           v.kind = "query" \/ v.rev = commits
    PROVE  v.seen = RevisionsAt(v.rev)
<1>1. DOMAIN v.seen = DOMAIN RevisionsAt(v.rev)  BY DEF ReaderSound
<1>2. \A m \in DOMAIN v.seen : v.seen[m] = RevisionsAt(v.rev)[m]
  <2>1. CASE v.kind = "query"  BY <2>1 DEF ReaderSound
  <2>2. CASE v.kind # "query"
    <3>1. v.rev = commits /\ \A m \in DOMAIN v.seen : v.seen[m] = memo[m].rev
      BY <2>2 DEF ReaderSound
    <3>. QED  BY <1>1, <3>1, RevisionsNow
  <2>. QED  BY <2>1, <2>2
<1>3. /\ v.seen = [m \in DOMAIN v.seen |-> v.seen[m]]
      /\ RevisionsAt(v.rev) = [m \in DOMAIN RevisionsAt(v.rev) |-> RevisionsAt(v.rev)[m]]
  BY RevisionsThen DEF ReaderSound
<1>. QED  BY <1>1, <1>2, <1>3

(* The end of a reader, whatever it reports.                               *)
LEMMA FinishKept ==
    ASSUME RInv, WInv', PastLater, NEW r \in Readers, NEW kinds \in SUBSET ReportKinds,
           NEW allowed \in BOOLEAN, Finish(r, kinds, allowed),
           allowed => reader[r].kind \in {"query", "recall"} \/ Unmoved(r)
                         \/ (reader[r].kind = "semantic" /\ reader[r].seen = <<>>),
           index' = index \/ (index' # None => index'.rev \in 0 .. commits
                                               /\ index'.entries = RevisionsAt(index'.rev))
    PROVE  RInv'
<1>1. PICK v : v = reader[r]  OBVIOUS
<1>2. /\ v # None /\ v.listed /\ v.todo = {}
      /\ reader' = [reader EXCEPT ![r] = None]
      /\ allowed => v.kind \in {"query", "recall"} \/ v.rev = commits
                       \/ (v.kind = "semantic" /\ v.seen = <<>>)
  BY <1>1 DEF Finish, ReadEnds, Unmoved
<1>3. ReaderSound(v) /\ WInv  BY <1>1, <1>2 DEF RInv, ReadersSound
<1>4. PICK u : u = [kind |-> v.kind, rev |-> v.rev, seen |-> v.seen]  OBVIOUS
<1>5. report' = IF allowed THEN [report EXCEPT ![r] = u] ELSE report
  BY <1>1, <1>4 DEF Finish
<1>6. ASSUME allowed PROVE ReportSound(u)
  <2>1. v.kind = "query" \/ v.rev = commits => v.seen = RevisionsAt(v.rev)
    BY <1>2, <1>3, ReadIsRevision
  <2>2. \A m \in DOMAIN v.seen \intersect DOMAIN RevisionsAt(v.rev) :
           v.seen[m] >= RevisionsAt(v.rev)[m]
    BY <1>3 DEF ReaderSound
  <2>3. v.kind \in ReportKinds /\ v.rev \in 0 .. commits  BY <1>3 DEF ReaderSound
  <2>. QED  BY <1>2, <1>4, <1>6, <2>1, <2>2, <2>3 DEF ReportSound
<1>. QED  BY <1>2, <1>5, <1>6, ReadKept

LEMMA ReadMemosKept ==
    ASSUME RInv, WInv', PastLater, ReadMemos(ReportKinds)
    PROVE  RInv'
<1>1. ASSUME NEW r \in Readers, FinishIndex(r) PROVE RInv'
  <2>1. PICK v : v = reader[r]  OBVIOUS
  <2>2. /\ Finish(r, {"index"}, Unmoved(r))
        /\ index' = IF v.rev = commits THEN [rev |-> v.rev, entries |-> v.seen] ELSE index
        /\ v # None /\ v.listed /\ v.todo = {}
    BY <1>1, <2>1 DEF FinishIndex, Finish, Unmoved
  <2>3. ReaderSound(v) /\ WInv  BY <2>1, <2>2 DEF RInv, ReadersSound
  <2>4. v.rev \in 0 .. commits /\ (v.rev = commits => v.seen = RevisionsAt(v.rev))
    BY <2>2, <2>3, ReadIsRevision DEF ReaderSound
  <2>5. index' = index \/ (index' # None => index'.rev \in 0 .. commits
                                            /\ index'.entries = RevisionsAt(index'.rev))
    <3>1. CASE v.rev = commits
      <4>1. index'.rev = v.rev /\ index'.entries = v.seen  BY <2>2, <3>1
      <4>. QED  BY <2>4, <3>1, <4>1
    <3>2. CASE v.rev # commits  BY <2>2, <3>2
    <3>. QED  BY <3>1, <3>2
  <2>6. Unmoved(r) \in BOOLEAN /\ {"index"} \in SUBSET ReportKinds
    BY DEF Unmoved, ReportKinds
  <2>. QED  BY <2>2, <2>5, <2>6, FinishKept
<1>2. ASSUME NEW r \in Readers, FinishBudget(r) \/ FinishConsolidation(r) PROVE RInv'
  <2>1. PICK kinds \in SUBSET ReportKinds : Finish(r, kinds, Unmoved(r)) /\ index' = index
    BY <1>2 DEF FinishBudget, FinishConsolidation, ReportKinds
  <2>2. Unmoved(r) \in BOOLEAN  BY DEF Unmoved
  <2>. QED  BY <2>1, <2>2, FinishKept
<1>3. ASSUME NEW r \in Readers, FinishSemantic(r) PROVE RInv'
  <2>1. PICK allowed \in BOOLEAN : allowed <=> reader[r].seen = <<>> \/ Unmoved(r)  OBVIOUS
  <2>2. (reader[r].seen = <<>> \/ Unmoved(r)) = allowed  BY <2>1 DEF Unmoved
  <2>3. Finish(r, {"semantic"}, allowed) /\ index' = index
    BY <1>3, <2>2 DEF FinishSemantic
  <2>4. reader[r].kind = "semantic"  BY <2>3 DEF Finish
  <2>5. {"semantic"} \in SUBSET ReportKinds  BY DEF ReportKinds
  <2>. QED  BY <2>1, <2>3, <2>4, <2>5, FinishKept
<1>4. ASSUME NEW r \in Readers, FinishRecall(r) \/ FinishQuery(r) PROVE RInv'
  <2>1. PICK kinds \in SUBSET {"query", "recall"} : Finish(r, kinds, TRUE) /\ index' = index
    BY <1>4 DEF FinishRecall, FinishQuery
  <2>2. reader[r].kind \in {"query", "recall"}  BY <2>1 DEF Finish
  <2>3. kinds \in SUBSET ReportKinds  BY <2>1 DEF ReportKinds
  <2>. QED  BY <2>1, <2>2, <2>3, FinishKept
<1>5. ASSUME Discard PROVE RInv'
  <2>1. index' = None /\ UNCHANGED <<reader, report>>  BY <1>5 DEF Discard
  <2>2. /\ reader' = [r \in Readers |-> reader'[r]] /\ report' = [r \in Readers |-> report'[r]]
        /\ \A r \in Readers : reader'[r] # None => ReaderSound(reader'[r])
        /\ \A r \in Readers : report'[r] # None => ReportSound(report'[r])
        /\ WInv
    BY <2>1 DEF RInv, ReadersSound
  <2>. QED  BY <2>1, <2>2, ReadersKept
<1>. QED  BY <1>1, <1>2, <1>3, <1>4, <1>5, BeginKept, ListKept, ReadOneKept DEF ReadMemos
-----------------------------------------------------------------------------
LEMMA RInitially == TruthInit /\ MemoInit => RInv
<1>. SUFFICES ASSUME TruthInit, MemoInit PROVE RInv  OBVIOUS
<1>1. memo = [m \in Memos |-> None] /\ commits = 0 /\ past = <<memo>> /\ clash = FALSE
      /\ pending = [c \in Clients |-> None] /\ plan = [c \in Clients |-> None]
      /\ index = None /\ reader = [r \in Readers |-> None] /\ report = [r \in Readers |-> None]
  BY DEF TruthInit, MemoInit
<1>2. MemosSound  BY <1>1 DEF MemoInit, MemosSound
<1>3. PastKept
  <2>1. memo \in [Memos -> MemoRow \union {None}]  BY <1>1
  <2>. QED  BY <1>1, <2>1 DEF PastKept
<1>4. PendingMemos  BY <1>1 DEF PendingMemos
<1>5. LineageSound  BY <1>1 DEF LineageSound, Publishing
<1>6. ReadersSound  BY <1>1 DEF ReadersSound
<1>. QED  BY <1>2, <1>3, <1>4, <1>5, <1>6 DEF RInv, WInv

LEMMA RPreserved == RInv /\ [MemoNext]_<<truthVars, memoVars>> => RInv'
<1>. SUFFICES ASSUME RInv, [MemoNext]_<<truthVars, memoVars>> PROVE RInv'  OBVIOUS
<1>1. WInv  BY DEF RInv
<1>2. ASSUME WInv', PastLater, NotReading PROVE RInv'
  <2>1. /\ reader' = [r \in Readers |-> reader'[r]] /\ report' = [r \in Readers |-> report'[r]]
        /\ \A r \in Readers : reader'[r] # None => ReaderSound(reader'[r])
        /\ \A r \in Readers : report'[r] # None => ReportSound(report'[r])
        /\ index' # None => index'.rev \in 0 .. commits
                            /\ index'.entries = RevisionsAt(index'.rev)
    BY <1>2 DEF NotReading, RInv, ReadersSound
  <2>. QED  BY <1>1, <1>2, <2>1, ReadersKept
<1>3. CASE UNCHANGED <<truthVars, memoVars>>
  <2>1. NoWrite /\ NotReading
    BY <1>3 DEF memoVars, NoWrite, NotMemo, NotReading
  <2>. QED  BY <1>1, <1>2, <2>1, RestKept
<1>4. CASE MemoNext
  <2>1. WInv' /\ PastLater /\ (NotReading \/ ReadMemos(ReportKinds))
    BY <1>1, <1>4, MemoNextKept
  <2>. QED  BY <1>2, <2>1, ReadMemosKept
<1>. QED  BY <1>3, <1>4

(* A set whose elements are all the same has at most one.                  *)
LEMMA AtMostOneElement ==
    ASSUME NEW S, \A x, y \in S : x = y
    PROVE  Cardinality(S) <= 1
<1>1. CASE S = {}  BY <1>1, FS_EmptySet
<1>2. CASE S # {}
  <2>1. PICK x \in S : TRUE  BY <1>2
  <2>2. S = {x}  BY <2>1
  <2>. QED  BY <2>2, FS_Singleton
<1>. QED  BY <1>1, <1>2

LEMMA MemosSoundly == RInv => MemoriesSound
<1>. SUFFICES ASSUME RInv PROVE MemoriesSound  OBVIOUS
<1>1. \A m \in Memos : memo[m] # None =>
         /\ memo[m] \in MemoRow /\ MemoSound(m, memo[m])
         /\ memo[m].created \in Nat /\ memo[m].updated \in Nat
         /\ memo[m].related \subseteq Memos /\ memo[m].contradicts \subseteq Memos
  BY DEF RInv, WInv, MemosSound, MemoRow
<1>2. \A m \in Memos : memo[m] # None /\ ~stepped => MemoParses(memo[m])
  BY <1>1 DEF MemoSound, MemoParses
<1>3. MemoriesReadable
  BY <1>1, <1>2 DEF MemoriesReadable, MemoSound, Refers
<1>4. LineageUnique
  <2>. SUFFICES ASSUME ~clash PROVE Cardinality({m \in WithLineage : ~memo[m].edited}) <= 1
    BY DEF LineageUnique
  <2>1. \A m, n \in {x \in WithLineage : ~memo[x].edited} : m = n
    BY DEF WithLineage, RInv, WInv, LineageSound, FromPam
  <2>2. PICK S : S = {m \in WithLineage : ~memo[m].edited}  OBVIOUS
  <2>. QED  BY <2>1, <2>2, AtMostOneElement
<1>. QED  BY <1>3, <1>4 DEF MemoriesSound

LEMMA ReportsSoundly == RInv => ReportIsOneMoment
<1>. SUFFICES ASSUME RInv PROVE ReportIsOneMoment  OBVIOUS
<1>1. index # None => index.entries = RevisionsAt(index.rev)  BY DEF RInv, ReadersSound
<1>2. ASSUME NEW r \in Readers, report[r] # None
      PROVE  CASE report[r].kind \in {"index", "query", "budget", "consolidation"} ->
                     report[r].seen = RevisionsAt(report[r].rev)
               [] report[r].kind = "semantic" ->
                     report[r].seen \in {<<>>, RevisionsAt(report[r].rev)}
               [] report[r].kind = "recall" ->
                     \A m \in DOMAIN report[r].seen \intersect DOMAIN RevisionsAt(report[r].rev) :
                        report[r].seen[m] >= RevisionsAt(report[r].rev)[m]
  <2>1. PICK v : v = report[r]  OBVIOUS
  <2>2. ReportSound(v)  BY <1>2, <2>1 DEF RInv, ReadersSound
  <2>3. CASE v.kind \in {"index", "query", "budget", "consolidation"}
    BY <2>1, <2>2, <2>3 DEF ReportSound
  <2>4. CASE v.kind = "semantic"  BY <2>1, <2>2, <2>4 DEF ReportSound
  <2>5. CASE v.kind = "recall"  BY <2>1, <2>2, <2>5 DEF ReportSound
  <2>. QED  BY <2>2, <2>3, <2>4, <2>5 DEF ReportSound, ReportKinds
<1>. QED  BY <1>1, <1>2 DEF ReportIsOneMoment

(* Memories, edited by clients and published from elsewhere: with a clock    *)
(* that is never set back they stay readable with all they refer to, and a *)
(* foreign memory is taken once unless two publications overlap            *)
(* (_validate_memory_references, _update_memory_record, publish).          *)
THEOREM MemoriesAlwaysSound == MemoriesSpec => []MemoriesSound
<1>. QED  BY RInitially, RPreserved, MemosSoundly, PTL DEF MemoriesSpec

(* What is reported of the memories was all there at one revision, however   *)
(* many commits fall between the steps of a reader                         *)
(* (build_memory_lexical_index, query_memory_lexical_index,                *)
(* preview_memory_context_budget, detect_memory_consolidation_candidates,  *)
(* rank_semantic_memories, derive_memory_recall_state).                    *)
THEOREM ReportsAlwaysOneMoment == MemoriesSpec => []ReportIsOneMoment
<1>. QED  BY RInitially, RPreserved, ReportsSoundly, PTL DEF MemoriesSpec
=============================================================================
