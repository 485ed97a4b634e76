---------------------------- MODULE ImportStaging ----------------------------
(***************************************************************************)
(* GenericImportStager: the pure classification of the objects of a source *)
(* into staged ones and quarantined ones, with the counts of the mapping   *)
(* report and the loss records.                                            *)
(*                                                                         *)
(* A source is a sequence of raw objects.  Identifiers are numbers since   *)
(* the code works through them in sorted order.  A raw object is           *)
(*   form    "ok", or "line" (unparseable JSONL), or "shape" (malformed)   *)
(*   id, type, parents, body    as in _Candidate; equality of the whole    *)
(*                              record is equality of its source_hash      *)
(* An adapter is a record with branch, attachment (behaviours), events     *)
(* (supported_event_types) and limit (max_object_count).  This module is   *)
(* only evaluated by TLC: the depth-first search and the pruning loop are  *)
(* recursive operators.                                                    *)
(***************************************************************************)
EXTENDS Naturals, FiniteSets, FiniteSetsExt, SequencesExt

Categories == {"mapped_without_known_loss", "mapped_with_transformation",
               "unsupported_but_preserved", "missing_dependency",
               "malformed_or_quarantined"}

(* Oversized attachments have the body "big". *)
Oversized(o) == o.type = "attachment" /\ o.body = "big"

(* _parse_jsonl_envelope: a line that is no object of the format is kept   *)
(* with its hash, not dropped.                                             *)
MalformedLine(o) == o.form = "line"

(* _parse_candidate: what keeps a raw object from becoming a candidate. *)
ParseProblem(o) ==
    IF MalformedLine(o) THEN "malformed-jsonl-object"
    ELSE IF o.form = "shape" THEN "malformed-source-object"
    ELSE IF o.id \in o.parents THEN "self-parent-relationship"
    ELSE "none"

Parsed(src) == {i \in DOMAIN src : ParseProblem(src[i]) = "none"}
Group(src, id) == {i \in Parsed(src) : src[i].id = id}
Grouped(src) == {src[i].id : i \in Parsed(src)}
Representative(src, id) == src[Min(Group(src, id))]

(* _source_type_supported *)
SourceTypeSupported(o, ad) ==
    CASE o.type = "conversation" -> TRUE
      [] o.type = "attachment"   -> ad.attachment # "unsupported"
      [] OTHER                   -> o.type \in ad.events

(* _classify_duplicates_and_support: why a whole group is refused, the     *)
(* tests in their order.                                                   *)
Classify(src, ad, id) ==
    LET o == Representative(src, id)
    IN  IF \E i, j \in Group(src, id) : src[i] # src[j] THEN "conflicting-duplicate"
        ELSE IF Oversized(o) THEN "attachment-byte-limit"
        ELSE IF ~SourceTypeSupported(o, ad) THEN "unsupported-source-type"
        ELSE IF o.parents # {} /\ ad.branch = "unsupported" THEN "unsupported-branch-relationship"
        ELSE "none"

Accepted(src, ad) == {id \in Grouped(src) : Classify(src, ad, id) = "none"}
ParentsIn(src, acc) == [id \in acc |-> Representative(src, id).parents]
-----------------------------------------------------------------------------
(* _cycle_source_ids: a depth-first search over the accepted parents.      *)
(* state 0, 1, 2 is unvisited, on the stack, finished; a parent found on   *)
(* the stack adds the stack from its position on.                          *)
RECURSIVE Visit(_, _, _)
Visit(par, s, id) ==
    LET pushed == [s EXCEPT !.state[id] = 1, !.stack = Append(@, id)]
        look(t, p) ==
            CASE t.state[p] = 0 -> Visit(par, t, p)
              [] t.state[p] = 1 ->
                    [t EXCEPT !.cycles = @ \union
                        {t.stack[k] : k \in {k \in DOMAIN t.stack :
                            \E j \in 1..k : t.stack[j] = p}}]
              [] OTHER -> t
        seen == FoldLeft(look, pushed,
                         SetToSortSeq(par[id] \intersect DOMAIN par, <))
    IN  [seen EXCEPT !.state[id] = 2, !.stack = Front(@)]

CycleSourceIds(par) ==
    LET start == [state |-> [id \in DOMAIN par |-> 0], stack |-> <<>>, cycles |-> {}]
        next(s, id) == IF s.state[id] = 0 THEN Visit(par, s, id) ELSE s
    IN  FoldLeft(next, start, SetToSortSeq(DOMAIN par, <)).cycles

(* The while loop of _quarantine_cycles_and_missing_dependencies: objects  *)
(* whose parents are gone go too, until nothing changes.                   *)
RECURSIVE PruneMissing(_, _)
PruneMissing(par, acc) ==
    LET kept == {id \in acc : par[id] \subseteq acc}
    IN  IF kept = acc THEN acc ELSE PruneMissing(par, kept)

(* Mutant: the cycles are found, and not removed before the pruning. *)
KeepCycles(par) == PruneMissing(par, DOMAIN par)

WithoutCyclesAndOrphans(par) == PruneMissing(par, DOMAIN par \ CycleSourceIds(par))
-----------------------------------------------------------------------------
(* What _build_stage_result does to a staged object on the way: branches   *)
(* linearized, attachments reduced to metadata.                            *)
TransformLosses(o, ad) ==
    (IF o.parents # {} /\ ad.branch = "linearize_with_loss"
       THEN {"branch-linearization"} ELSE {})
    \union
    (IF o.type = "attachment" /\ ad.attachment = "metadata_only"
       THEN {"attachment-metadata-only"} ELSE {})

(* The quarantine list as pairs of an input index and a reason. *)
Quarantine(src, ad, staged) ==
    LET acc == Accepted(src, ad)
        cyclic == CycleSourceIds(ParentsIn(src, acc))
        reason(id) == IF id \notin acc THEN Classify(src, ad, id)
                      ELSE IF id \in cyclic THEN "cyclic-parent-relationship"
                      ELSE "missing-parent-dependency"
    IN  {<<i, ParseProblem(src[i])>> : i \in DOMAIN src \ Parsed(src)}
        \union UNION {{<<i, reason(id)>> : i \in Group(src, id)} :
                          id \in Grouped(src) \ staged}

CategoryOf(reason) ==
    CASE reason \in {"unsupported-source-type", "unsupported-branch-relationship"}
             -> "unsupported_but_preserved"
      [] reason = "missing-parent-dependency" -> "missing_dependency"
      [] OTHER -> "malformed_or_quarantined"

(* occurrence_indexes: an object that occurs several times is counted as   *)
(* often.                                                                  *)
Occurrences(src, ids) == Cardinality({i \in Parsed(src) : src[i].id \in ids})

(* mapping_counts *)
MappingCounts(src, ad, staged, quarantined) ==
    LET lossy == {id \in staged : TransformLosses(Representative(src, id), ad) # {}}
    IN  [k \in Categories |->
            CASE k = "mapped_without_known_loss" -> Occurrences(src, staged \ lossy)
              [] k = "mapped_with_transformation" -> Occurrences(src, lossy)
              [] OTHER -> Cardinality({q \in quarantined : CategoryOf(q[2]) = k})]

(* The loss records: one per index and category. *)
Losses(src, ad, staged, quarantined) ==
    quarantined \union
    UNION {Group(src, id) \X TransformLosses(Representative(src, id), ad) : id \in staged}

(* The limits of stage and its checks of the envelope, of which the number *)
(* of objects stands for all: the whole source is refused.                 *)
StageRefused(src, ad) == Len(src) > ad.limit

(* GenericImportStager._build_stage_result *)
StageResult(src, ad) ==
    LET par == ParentsIn(src, Accepted(src, ad))
        staged == WithoutCyclesAndOrphans(par)
        quarantined == Quarantine(src, ad, staged)
        losses == Losses(src, ad, staged, quarantined)
    IN  [refused     |-> StageRefused(src, ad),
         objects     |-> [id \in staged |->
                             LET o == Representative(src, id)
                             IN  [type |-> o.type, parents |-> o.parents, body |-> o.body]],
         total       |-> Len(src),
         quarantined |-> quarantined,
         counts      |-> MappingCounts(src, ad, staged, quarantined),
         losses      |-> losses,
         material    |-> {q[1] : q \in losses},
         duplicates  |-> Occurrences(src, staged) - Cardinality(staged)]

(* MappingReportRecord.__post_init__: the record refuses counts that do    *)
(* not add up, and material losses without a loss record.                  *)
ReportValid(r) ==
    /\ r.total = MapThenSumSet(LAMBDA k : r.counts[k], Categories)
    /\ Cardinality(r.material) <= r.total
    /\ r.material # {} => r.losses # {}
=============================================================================
