---------------------------- MODULE TruthRecords ----------------------------
(***************************************************************************)
(* ClaimEvidenceTrustService: claims, evidence, inferences and trust       *)
(* assessments, created with the provenance of whoever states them,        *)
(* reviewed and archived by the user.                                      *)
(*                                                                         *)
(* Every service of the repository works alike: it reads and checks what   *)
(* it needs outside any transaction, then writes in one transaction that   *)
(* re-reads only its own record.  A client's operation is therefore two    *)
(* steps, one that ends in a pending write, and its commit.                *)
(***************************************************************************)
EXTENDS PackageGraph

CONSTANTS
    Clients,        \* processes with the workspace open
    Truths,         \* identifiers of truth records, taken in order
    Sources,        \* TruthSource values clients pass
    ReviewInputs,   \* review states clients pass
    MaxCommits,     \* bound: transactions in a behaviour
    None

VARIABLES
    truth,      \* [Truths -> row or None]
    reviewed,   \* history: the last review acknowledged to the user
    pending,    \* [Clients -> the write a client is about to commit, or None]
    commits     \* transactions so far

truthVars == <<truth, reviewed, pending, commits>>

Actors == {"user", "model", "runtime", "tool", "system", "importer", "migration"}
Origins == {"user_statement", "imported_content", "external_source", "tool_result",
            "runtime_output", "model_proposal", "system_observation", "migrated",
            "restored", "unknown"}
Facts == {"source", "operation", "runtime", "model", "session", "policy"}
Reviews == {"unreviewed", "reviewed", "disputed", "rejected"}
Kinds == {"claim", "evidence", "inference", "trust_assessment"}

(* A source: its origin, its creator, and which identifiers it carries. *)
Source == [origin : Origins, actor : Actors, has : SUBSET Facts]

(* A stored truth record.  dated: it was not last changed before it was    *)
(* created; only the exporter asks.                                        *)
TruthRow == [kind : Kinds, source : Source, review : Reviews, reviewer : {None, "user"},
             provenance : {"user-created", "imported", "model-proposed", "system-generated",
                           "migrated", "restored"},
             links : SUBSET ({"supports", "contradicts", "contextualizes", "claim_ids",
                              "evidence_ids"} \X Truths),
             subject : Truths \union {None}, secret : BOOLEAN, dated : BOOLEAN,
             active : BOOLEAN, rev : Nat \ {0}]

ASSUME TruthAssumption ==
    /\ Truths \subseteq Nat
    /\ Sources \subseteq Source /\ ReviewInputs \subseteq Reviews /\ MaxCommits \in Nat
    /\ None # "user" /\ None \notin Truths \union TruthRow
-----------------------------------------------------------------------------
(* Who may create what origin, with which identifiers. *)
OriginActor(o) ==
    CASE o = "user_statement"     -> {"user"}
      [] o = "imported_content"   -> {"importer"}
      [] o = "tool_result"        -> {"tool"}
      [] o = "runtime_output"     -> {"runtime"}
      [] o = "model_proposal"     -> {"model"}
      [] o = "system_observation" -> {"system"}
      [] o = "migrated"           -> {"migration"}
      [] o = "restored"           -> {"system"}
      [] OTHER                    -> {"user", "system"}

OriginFacts(o) ==
    CASE o \in {"imported_content", "tool_result"} -> {"source", "operation"}
      [] o = "external_source" -> {"source"}
      [] o = "runtime_output"  -> {"runtime", "operation"}
      [] o = "model_proposal"  -> {"model", "runtime", "session", "operation"}
      [] OTHER                 -> {}

(* _validate_source_values *)
SourceValid(s) == s.actor \in OriginActor(s.origin) /\ OriginFacts(s.origin) \subseteq s.has

(* _record_provenance *)
RecordProvenance(s) ==
    IF s.origin \in {"migrated", "restored"} THEN s.origin
    ELSE IF s.origin = "imported_content" \/ s.actor = "importer" THEN "imported"
    ELSE IF s.origin = "model_proposal" \/ s.actor = "model" THEN "model-proposed"
    ELSE IF s.actor = "user" THEN "user-created" ELSE "system-generated"

(* Links are pairs of a relation and a record.  Evidence has at most one   *)
(* relation with a claim, and at least one claim; an inference has at      *)
(* least one source.                                                       *)
Relations(kind) ==
    CASE kind = "evidence"         -> {"supports", "contradicts", "contextualizes"}
      [] kind = "inference"        -> {"claim_ids", "evidence_ids"}
      [] kind = "trust_assessment" -> {"evidence_ids"}
      [] kind = "claim"            -> {}

LinksShaped(kind, links) ==
    /\ \A l \in links : l[1] \in Relations(kind)
    /\ kind \in {"evidence", "inference"} => links # {}
    /\ kind = "evidence" => \A k, l \in links : k[2] = l[2] => k = l

(* _review_from_metadata: a review state other than unreviewed is the user's. *)
ReviewValid(review, reviewer) == (review = "unreviewed") <=> (reviewer = None)

(* _parse_truth_record: it looks at the record alone. *)
TruthParses(row) ==
    /\ LinksShaped(row.kind, row.links)
    /\ IF row.kind = "trust_assessment"
       THEN /\ row.source.actor = "system" => "policy" \in row.source.has
            /\ row.provenance = IF row.source.actor = "user" THEN "user-created"
                                ELSE "system-generated"
       ELSE /\ SourceValid(row.source)
            /\ row.provenance = RecordProvenance(row.source)
            /\ ReviewValid(row.review, row.reviewer)

(* _require_record_type and the parse of a linked record; an archived one  *)
(* may be linked.                                                          *)
TruthIs(t, kind) == truth[t] # None /\ truth[t].kind = kind /\ TruthParses(truth[t])

(* _validate_record_references *)
Wanted(relation) == IF relation = "evidence_ids" THEN "evidence" ELSE "claim"

LinksResolve(links) == \A l \in links : TruthIs(l[2], Wanted(l[1]))
-----------------------------------------------------------------------------
(* What a transaction does is kept in the pending write: the row it is     *)
(* for, the complete new row, and the revision it expects (0: a new row).  *)
Prepare(c, table, id, row, rev) ==
    /\ pending[c] = None
    /\ commits + Cardinality({d \in Clients : pending[d] # None}) < MaxCommits
    /\ pending' = [pending EXCEPT ![c] = [table |-> table, id |-> id, row |-> row, rev |-> rev]]

NewTruth(kind, s, review, links, secret) ==
    [kind |-> kind, source |-> s, review |-> review,
     reviewer |-> IF review = "unreviewed" THEN None ELSE "user",
     provenance |-> RecordProvenance(s), links |-> links, subject |-> None,
     secret |-> secret, dated |-> TRUE, active |-> TRUE, rev |-> 1]

(* uuid4: the next identifier nobody uses. *)
Unused(table, taken) ==
    LET free == {x \in DOMAIN table : table[x] = None /\ x \notin taken}
    IN  {x \in free : \A y \in free : x <= y}

(* _create_truth_record: a fresh identifier.  What a create has checked    *)
(* before its transaction cannot change until then (no truth record is     *)
(* ever removed or changes its kind), so the whole operation is one step.  *)
Insert(t, row) ==
    /\ commits + Cardinality({d \in Clients : pending[d] # None}) < MaxCommits
    /\ truth' = [truth EXCEPT ![t] = row]
    /\ reviewed' = [reviewed EXCEPT ![t] = row.review]
    /\ commits' = commits + 1
    /\ UNCHANGED pending

(* What the three creates have in common, with _initial_review_values:     *)
(* only a user's record may be born reviewed.  Nothing is asked of the     *)
(* sensitivity of the records it names.                                    *)
CreateTruth(t, kind, s, review, links, secret) ==
    /\ SourceValid(s)
    /\ s.actor # "user" => review = "unreviewed"
    /\ LinksShaped(kind, links)
    /\ LinksResolve(links)
    /\ Insert(t, NewTruth(kind, s, review, links, secret))

CreateClaim(t, s, review, secret) == CreateTruth(t, "claim", s, review, {}, secret)
CreateEvidence(t, s, review, links, secret) == CreateTruth(t, "evidence", s, review, links, secret)
CreateInference(t, s, review, links, secret) == CreateTruth(t, "inference", s, review, links, secret)

(* assess_trust: the subject is outside the truth records or one of them;  *)
(* a system's assessment names the policy it follows.                      *)
AssessTrust(t, s, subject, links, secret) ==
    /\ s.actor \in {"user", "system"}
    /\ s.actor = "system" => "policy" \in s.has
    /\ subject # None => \E kind \in Kinds \ {"trust_assessment"} : TruthIs(subject, kind)
    /\ LinksShaped("trust_assessment", links)
    /\ LinksResolve(links)
    /\ Insert(t, [NewTruth("trust_assessment", s, "unreviewed", links, secret) EXCEPT
                     !.subject = subject,
                     !.provenance = IF s.actor = "user" THEN "user-created"
                                    ELSE "system-generated"])

(* review and archive write back the metadata they have read. *)
ReviewTruth(c, t, review) ==
    /\ truth[t] # None /\ truth[t].active
    /\ truth[t].kind # "trust_assessment"
    /\ Prepare(c, "truth", t,
               [truth[t] EXCEPT !.review = review,
                                !.reviewer = IF review = "unreviewed" THEN None ELSE "user"],
               truth[t].rev)
    /\ UNCHANGED <<truth, reviewed, commits>>

ArchiveTruth(c, t) ==
    /\ truth[t] # None /\ truth[t].active
    /\ Prepare(c, "truth", t, [truth[t] EXCEPT !.active = FALSE], truth[t].rev)
    /\ UNCHANGED <<truth, reviewed, commits>>

(* Mutant: the transaction does not compare the revision. *)
CommitUnchecked(row, w) == IF w.rev = 0 THEN row = None ELSE row.active

(* The checks inside the transaction: a new identifier, or the expected    *)
(* revision of a record still active.                                      *)
CommitAllowed(row, w) ==
    IF w.rev = 0 THEN row = None ELSE row.rev = w.rev /\ row.active

(* _update_truth_record: the time is the clock's, which may have been set  *)
(* back behind the creation.                                               *)
CommitTruth(c, dated) ==
    LET w == pending[c]
    IN  /\ w # None /\ w.table = "truth"
        /\ CommitAllowed(truth[w.id], w)
        /\ truth' = [truth EXCEPT ![w.id] = [w.row EXCEPT !.rev = w.rev + 1, !.dated = dated]]
        /\ reviewed' = IF w.row.active THEN [reviewed EXCEPT ![w.id] = w.row.review]
                       ELSE reviewed
        /\ pending' = [pending EXCEPT ![c] = None]
        /\ commits' = commits + 1

(* The transaction is refused or fails, or the client dies. *)
Abandon(c) ==
    /\ pending[c] # None
    /\ pending' = [pending EXCEPT ![c] = None]
    /\ UNCHANGED <<truth, reviewed, commits>>

TruthInit ==
    /\ truth = [t \in Truths |-> None]
    /\ reviewed = [t \in Truths |-> "unreviewed"]
    /\ pending = [c \in Clients |-> None]
    /\ commits = 0

(* At most two links, to records that exist. *)
LinkSets(kind) ==
    LET pairs == Relations(kind) \X {t \in Truths : truth[t] # None}
    IN  {{}} \union {{k, l} : k, l \in pairs}

TruthNext ==
    \/ \E t \in Unused(truth, {}), s \in Sources, secret \in BOOLEAN :
          \/ \E review \in ReviewInputs :
                \/ CreateClaim(t, s, review, secret)
                \/ \E links \in LinkSets("evidence") : CreateEvidence(t, s, review, links, secret)
                \/ \E links \in LinkSets("inference") : CreateInference(t, s, review, links, secret)
          \/ \E subject \in Truths \union {None}, links \in LinkSets("trust_assessment") :
                AssessTrust(t, s, subject, links, secret)
    \/ \E c \in Clients :
          \/ \E t \in Truths :
                ArchiveTruth(c, t) \/ \E review \in ReviewInputs : ReviewTruth(c, t, review)
          \/ \E dated \in BOOLEAN : CommitTruth(c, dated)
          \/ Abandon(c)

TruthSpec == TruthInit /\ [][TruthNext]_truthVars
-----------------------------------------------------------------------------
StoredTruths == {t \in Truths : truth[t] # None}

(* The truth records a record names. *)
TruthsNamed(t) == ({l[2] : l \in truth[t].links} \union {truth[t].subject}) \ {None}

(* The records of a state package. *)
TruthPackage ==
    {Record(<<"truth", t>>, truth[t].kind, truth[t],
            {<<<<"truth", l[2]>>, Wanted(l[1])>> : l \in truth[t].links}
               \union {<<<<"truth", u>>, truth[u].kind>> : u \in {truth[t].subject} \ {None}}, {}) :
       t \in StoredTruths}

TruthTypeOK == truth \in [Truths -> TruthRow \union {None}] /\ commits \in Nat

(* Every stored truth record can be read, its links lead to records of the *)
(* right kind, and nobody but the user is behind what claims to be the     *)
(* user's: a model's, tool's or importer's record never has the provenance *)
(* of a user, and one of a model is always recognisable as such            *)
(* (_validate_source_values together with _record_provenance).             *)
TruthHonest ==
    /\ TruthTypeOK
    /\ \A t \in Truths : truth[t] # None =>
          /\ TruthParses(truth[t])
          /\ LinksResolve(truth[t].links)
          /\ truth[t].provenance = "user-created" => truth[t].source.actor = "user"
          /\ truth[t].kind # "trust_assessment" /\ truth[t].source.actor = "model" =>
                truth[t].provenance = "model-proposed"

(* A review acknowledged to the user is what the record says, whatever     *)
(* other reviews and archivings were prepared from older contents          *)
(* (_update_truth_record writes the whole metadata back).                  *)
ReviewsKept == \A t \in Truths : truth[t] # None => truth[t].review = reviewed[t]

(* Truth records: nobody passes for the user, and no review is undone.     *)
TruthSound == TruthHonest /\ ReviewsKept
=============================================================================
