----------------------------- MODULE MCImports -----------------------------
(***************************************************************************)
(* Model-checking instance of ImportStaging, ChatExports, SessionCapture   *)
(* and ImportPublication.  A behaviour has one part: it examines the       *)
(* staging of one source, or of one ChatGPT conversation, from a large     *)
(* family (trial); it projects numbered files; it captures a chat; or it   *)
(* runs two publishers on a few sources.                                   *)
(***************************************************************************)
EXTENDS ChatExports, SessionCapture, ImportPublication, TLC

CONSTANTS b1, b2, e1, e2

VARIABLES
    part,     \* what the behaviour is about
    trial     \* <<source, adapter>> of a staging, a conversation, or NoRecord

O(form, id, type, parents, body) ==
    [form |-> form, id |-> id, type |-> type, parents |-> parents, body |-> body]
Ok(id, type, parents, body) == O("ok", id, type, parents, body)
Adapter(id, version, branch, attachment, limit) ==
    [id |-> id, version |-> version, branch |-> branch, attachment |-> attachment,
     events |-> {"message"}, limit |-> limit]

A1 == Adapter("a", 1, "preserve", "preserve_reference", 3)
A2 == Adapter("a", 2, "linearize_with_loss", "metadata_only", 3)
A3 == Adapter("b", 1, "unsupported", "unsupported", 3)
A4 == Adapter("b", 2, "preserve", "unsupported", 1)
MCAdapters == {A1, A2, A3, A4}

(* Every parent graph on three identifiers, an attachment among them. *)
Graphs ==
    {<<Ok(1, t1, p1, "x"), Ok(2, "message", p2, "x"), Ok(3, t3, p3, "x")>> :
        t1 \in {"conversation", "message"}, t3 \in {"message", "attachment"},
        p1 \in SUBSET {2, 3}, p2 \in SUBSET {1, 2, 3}, p3 \in SUBSET {1, 2, 3}}

(* Duplicates, conflicting duplicates, oversized, unsupported, malformed. *)
Oddities ==
    {<<Ok(1, "conversation", {}, "x"), u, v>> :
        u, v \in {Ok(2, "message", {1}, "x"), Ok(2, "message", {1}, "y"),
                  Ok(2, "attachment", {}, "big"), Ok(1, "conversation", {}, "x"),
                  Ok(3, "poll", {1}, "x"), Ok(3, "message", {2}, "x"),
                  Ok(3, "message", {1, 2}, "x"),
                  O("line", 2, "message", {}, "x"), O("shape", 3, "message", {}, "x")}}

Trials == (Graphs \union Oddities \union {<<>>}) \X {A1, A2, A3}

Chat == <<Ok(1, "conversation", {}, "x"), Ok(2, "message", {1}, "x")>>
Longer == Append(Chat, Ok(3, "message", {2}, "x"))
Edited == <<Ok(1, "conversation", {}, "x"), Ok(2, "message", {1}, "y")>>
Broken == <<Ok(1, "conversation", {}, "x"), Ok(3, "message", {2}, "x")>>
Retyped == <<Ok(2, "conversation", {}, "x"), Ok(3, "message", {2}, "x")>>
Joined == <<Ok(1, "conversation", {}, "x"), Ok(2, "conversation", {}, "x"),
            Ok(3, "message", {1, 2}, "x")>>

Job(b, src, ad, e, keep) ==
    [batch |-> b, src |-> src, adapter |-> ad, env |-> e, preserve |-> keep]
MCJobs ==
    {Job(b1, Chat, A1, e1, TRUE), Job(b2, Chat, A1, e1, FALSE), Job(b2, Longer, A1, e1, TRUE),
     Job(b1, Edited, A1, e1, TRUE), Job(b2, Broken, A1, e1, TRUE), Job(b1, Chat, A2, e2, FALSE),
     Job(b2, Chat, A3, e1, FALSE), Job(b2, Retyped, A3, e1, FALSE),
     Job(b1, Joined, A1, e1, FALSE), Job(b2, Chat, A4, e1, FALSE)}

(* Every conversation of three nodes; one of them may refer to attachments. *)
Holdings == {"nothing", "text", "other", "broken", "bare"}
Above(n) == {0, 1, 2, 3, 4}
MCNode(n, kinds) == [holds : kinds, parent : Above(n), attach : IF n = 1 THEN BOOLEAN ELSE {FALSE}]
Conversations == {<<a, b, c>> : a \in MCNode(1, Holdings), b \in MCNode(2, Holdings),
                                c \in MCNode(3, {"nothing", "text"})}

(* Bundles from elsewhere: linear ones, and some that cannot be continued. *)
Linear == <<Message(1, "system", <<>>), Message(2, "user", <<1>>)>>
MCForeign == {[version |-> v, messages |-> Linear] : v \in {0, 1, 2}} \union
             {[version |-> 0, messages |-> m] : m \in
                {<<>>, Append(Linear, Message(3, "user", <<1>>)), Append(Linear, Message(2, "user", <<2>>)),
                 <<Message(1, "odd", <<>>)>>, <<[Message(1, "user", <<>>) EXCEPT !.extra = TRUE]>>,
                 <<Message(2, "user", <<1>>)>>}}

MCInit ==
    /\ ImportInit /\ ExportsInit /\ CaptureInit
    /\ part \in {"publish", "stage", "export", "numbered", "capture"}
    /\ trial \in IF part = "stage" THEN Trials ELSE IF part = "export" THEN Conversations ELSE {NoRecord}
    /\ part # "numbered" => \A f \in Members : files[f] = <<>>
    /\ part # "capture" => retained = NoBundle

MCNext ==
    /\ \/ part = "publish" /\ ImportNext /\ UNCHANGED <<exportVars, captureVars>>
       \/ part = "numbered" /\ ExportsNext /\ UNCHANGED <<importVars, captureVars>>
       \/ part = "capture" /\ CaptureNext /\ UNCHANGED <<importVars, exportVars>>
    /\ UNCHANGED <<part, trial>>
MCSpec == MCInit /\ [][MCNext]_<<importVars, exportVars, captureVars, part, trial>>

Symmetry == Permutations(Clients)

(* The staged objects are the least set that holds an accepted object as   *)
(* soon as it holds its parents: no cycle, no orphan, and nothing else is  *)
(* left out.  The code finds it with a depth-first search that is not a    *)
(* full component search, followed by a pruning loop                       *)
(* (generic_import.py, _cycle_source_ids and                               *)
(* _quarantine_cycles_and_missing_dependencies).                           *)
StagedWellFounded ==
    part = "stage" =>
       LET src == trial[1]
           acc == Accepted(src, trial[2])
           inductive(S) == \A y \in acc : Representative(src, y).parents \subseteq S => y \in S
       IN  DOMAIN StageResult(src, trial[2]).objects =
              {x \in acc : \A S \in SUBSET acc : inductive(S) => x \in S}

(* Every object of a source is accounted for once: it is staged or has one *)
(* quarantine entry, the counts add up (MappingReportRecord refuses the    *)
(* report otherwise and the import is impossible), and whatever is not     *)
(* carried over unchanged has a material loss.                             *)
EveryObjectAccounted ==
    part = "stage" =>
       LET src == trial[1]
           r == StageResult(src, trial[2])
           kept == {i \in Parsed(src) : src[i].id \in DOMAIN r.objects}
       IN  /\ ReportValid(r)
           /\ \A i \in DOMAIN src :
                 Cardinality({q \in r.quarantined : q[1] = i}) = IF i \in kept THEN 0 ELSE 1
           /\ Cardinality(r.material) = r.total - r.counts["mapped_without_known_loss"]
           /\ r.duplicates = Cardinality(kept) - Cardinality(DOMAIN r.objects)

(* Every conversation of an export is placed (ExportPlaced). *)
ExportsPlaced == part = "export" => ExportPlaced(trial)

(* Staging, over a large family of sources: exactly the well-founded       *)
(* objects are staged, and every object of the source is accounted for.    *)
StagingSound == StagedWellFounded /\ EveryObjectAccounted

(* Chats from elsewhere.  ChatGPT exports, over a large family of          *)
(* conversations and of files that change while they are read: every       *)
(* message is placed or left out for a reason, and projection and          *)
(* aggregation agree on one moment.  Captured Ollama chats: what capture   *)
(* returns can be imported whole and continues what it was given.          *)
ForeignChatsSound == ExportsPlaced /\ ProjectionAgrees /\ CaptureImportable
=============================================================================
