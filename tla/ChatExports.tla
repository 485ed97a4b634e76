----------------------------- MODULE ChatExports -----------------------------
(***************************************************************************)
(* ChatGPT exports: the mapping of a tree of nodes to the objects of a     *)
(* generic import, and the reading of an export that comes as numbered     *)
(* files.                                                                  *)
(*                                                                         *)
(* Nodes and conversations are numbers: the code works through them in     *)
(* sorted order.  A mapping gives each node what it holds, its parent (0   *)
(* for none) and whether it refers to attachments:                         *)
(*   "nothing"  no message           "text"    a message we support        *)
(*   "other"    a role or content    "broken"  no author or no content     *)
(*              we do not support    "bare"    not an object at all        *)
(* This module is only evaluated by TLC: it stages with ImportStaging.     *)
(***************************************************************************)
EXTENDS ImportStaging

CONSTANTS
    Nodes,          \* 1 .. n
    Members,        \* the numbered files
    MaxProjection,  \* max_selected_projection_bytes, in conversations
    MaxEdits        \* bound: changes of files

VARIABLES
    files,          \* [Members -> the conversations in a file]
    projection,     \* the projection that is under way
    moments         \* history: what the files held together

exportVars == <<files, projection, moments>>
-----------------------------------------------------------------------------
(* message_nodes: the message is at least an object. *)
MessageNodes(map) == {n \in Nodes : map[n].holds \in {"text", "other", "broken"}}

(* _nearest_message_parent, from up on: 0 is the conversation; a node that *)
(* is not there, or was visited before, is named as if it were a message.  *)
RECURSIVE NearestMessageParent(_, _, _)
NearestMessageParent(map, up, visited) ==
    IF up = 0 \/ up \in visited \/ up \in MessageNodes(map) \/ up \notin Nodes THEN up
    ELSE NearestMessageParent(map, map[up].parent, visited \union {up})

(* The source ids.  The conversation is object 0, message n object n. *)
Unsupported(n) == 100 + n
Malformed(n) == 200 + n
Reference(n) == 300 + n

Raw(id, type, parent) ==
    [form |-> "ok", id |-> id, type |-> type, parents |-> {parent}, body |-> "x"]

(* _map_message: a supported message keeps its place, any other leaves an  *)
(* object of an unsupported type; attachments leave a reference.           *)
MapMessage(map, n) ==
    LET parent == NearestMessageParent(map, map[n].parent, {})
        text == map[n].holds = "text"
    IN  <<IF text THEN Raw(n, "message", parent) ELSE Raw(Unsupported(n), "unsupported", parent)>>
        \o (IF map[n].attach THEN <<Raw(Reference(n), "reference", IF text THEN n ELSE 0)>> ELSE <<>>)

(* One node of _map_conversation. *)
MapNode(map, n) ==
    CASE map[n].holds = "nothing"            -> <<>>
      [] map[n].holds \in {"broken", "bare"} -> <<Raw(Malformed(n), "malformed", 0)>>
      [] OTHER                               -> MapMessage(map, n)

(* _map_conversation *)
MapConversation(map) ==
    LET add(objects, n) == objects \o MapNode(map, n)
    IN  FoldLeft(add, <<[Raw(0, "conversation", 0) EXCEPT !.parents = {}]>>, SetToSortSeq(Nodes, <))

(* chatgpt_export_source_contract *)
ExportContract == [branch |-> "preserve", attachment |-> "metadata_only",
                   events |-> {"conversation", "message"}, limit |-> 100]
-----------------------------------------------------------------------------
(* A conversation in a numbered file is its identity, 0 when it has none,  *)
(* and its content.  Files are read in the order of their numbers.         *)
Conversation(id, body) == [id |-> id, body |-> body]
InOrder(held) == FlattenSeq([k \in 1 .. Cardinality(Members) |-> held[SetToSortSeq(Members, <)[k]]])

Empty == [bad |-> FALSE, out |-> <<>>, input |-> 0, duplicates |-> 0, quarantined |-> 0, chosen |-> <<>>]

(* What both say of a conversation with an identity: kept, dropped as an   *)
(* exact duplicate, or a conflict.                                         *)
Keep(s, c) ==
    LET same == {k \in DOMAIN s.out : s.out[k].id = c.id}
    IN  IF same = {} THEN [s EXCEPT !.out = Append(@, c)]
        ELSE IF \A k \in same : s.out[k] = c THEN [s EXCEPT !.duplicates = @ + 1]
        ELSE [s EXCEPT !.bad = TRUE]

(* ChatGPTNumberedConversationAggregator.aggregate, in memory. *)
Aggregate(held) ==
    LET add(s, c) == IF c.id = 0 THEN [s EXCEPT !.bad = TRUE, !.input = @ + 1]
                     ELSE Keep([s EXCEPT !.input = @ + 1], c)
    IN  FoldLeft(add, Empty, InOrder(held))

(* The loop body of project: the same, with a store on disk.  A selected   *)
(* conversation is collected when it is first met.                         *)
ProjectConversation(s, c, selected) ==
    LET t == Keep([s EXCEPT !.input = @ + 1], c)
    IN  IF c.id = 0 THEN [s EXCEPT !.input = @ + 1, !.quarantined = @ + 1]
        ELSE IF t.bad \/ t.out = s.out \/ c.id \notin selected THEN t
        ELSE IF Len(s.chosen) = MaxProjection THEN [t EXCEPT !.bad = TRUE]
        ELSE [t EXCEPT !.chosen = Append(@, c)]

(* ChatGPTNumberedSequentialProjector.project, without the files. *)
Project(held, selected) ==
    LET add(s, c) == ProjectConversation(s, c, selected)
        r == FoldLeft(add, Empty, InOrder(held))
    IN  IF selected \subseteq {r.chosen[k].id : k \in DOMAIN r.chosen} THEN r ELSE [r EXCEPT !.bad = TRUE]
-----------------------------------------------------------------------------
Waiting == [phase |-> "idle", held |-> <<>>, todo |-> {}, selected |-> {}, result |-> Empty]

ExportsInit ==
    /\ files \in [Members -> {<<>>, <<Conversation(1, "x")>>, <<Conversation(0, "x"), Conversation(2, "x")>>}]
    /\ projection = Waiting
    /\ moments = <<files>>

(* External: another program rewrites a file. *)
EditFile(f, held) ==
    /\ Len(moments) <= MaxEdits /\ files[f] # held
    /\ files' = [files EXCEPT ![f] = held]
    /\ moments' = Append(moments, files')
    /\ UNCHANGED projection

(* _selected_ids and _ordered_members *)
BeginProjection(selected) ==
    /\ projection.phase = "idle" /\ selected # {}
    /\ projection' = [Waiting EXCEPT !.phase = "read", !.todo = Members, !.selected = selected]
    /\ UNCHANGED <<files, moments>>

(* The next member is read; a conflict or the limit ends the projection. *)
ReadNumbered ==
    LET p == projection
        f == Min(p.todo)
        held == [g \in (Members \ p.todo) \union {f} |-> IF g = f THEN files[f] ELSE p.held[g]]
        sofar == [g \in Members |-> IF g \in DOMAIN held THEN held[g] ELSE <<>>]
        done == p.todo = {f}
        add(s, c) == ProjectConversation(s, c, p.selected)
        result == IF done THEN Project(sofar, p.selected) ELSE FoldLeft(add, Empty, InOrder(sofar))
    IN  /\ p.phase = "read"
        /\ projection' = [p EXCEPT !.held = held, !.result = result,
                             !.todo = IF done THEN Members ELSE @ \ {f},
                             !.phase = IF result.bad THEN "refused" ELSE IF done THEN "check" ELSE "read"]
        /\ UNCHANGED <<files, moments>>

(* _hash_path: size and hash of a file read earlier. *)
SameBytes(f) == files[f] = projection.held[f]

(* The loop over stable_members. *)
CheckNumbered ==
    LET p == projection
        f == Min(p.todo)
    IN  /\ p.phase = "check"
        /\ projection' = [p EXCEPT !.todo = @ \ {f},
                             !.phase = IF ~SameBytes(f) THEN "refused"
                                       ELSE IF p.todo = {f} THEN "accepted" ELSE "check"]
        /\ UNCHANGED <<files, moments>>

ExportsNext ==
    \/ \E f \in Members, b \in {"x", "y"} :
          EditFile(f, <<Conversation(1, b)>>) \/ EditFile(f, <<Conversation(2, b), Conversation(1, "x")>>)
    \/ \E selected \in SUBSET {1, 2} : BeginProjection(selected)
    \/ ReadNumbered \/ CheckNumbered
-----------------------------------------------------------------------------
(* The parents of n, one after the other; 0 and unknown nodes repeat. *)
Chain(map, n) ==
    LET c[k \in 0 .. Cardinality(Nodes) + 1] ==
            IF k = 0 THEN n ELSE IF c[k - 1] \in Nodes THEN map[c[k - 1]].parent ELSE c[k - 1]
    IN  c

(* A message of an export is staged exactly when it is text, its parents   *)
(* lead to the root, and every message on the way is text: nothing is      *)
(* attached past a message that could not be imported, and nothing else is *)
(* lost.  Its parent is then the nearest message above it                  *)
(* (_nearest_message_parent, _map_conversation, and the staging of the     *)
(* result).                                                                *)
ExportPlaced(map) ==
    LET r == StageResult(MapConversation(map), ExportContract)
        c(n) == Chain(map, n)
        above(n) == {k \in DOMAIN c(n) : k > 0 /\ (c(n)[k] = 0 \/ c(n)[k] \in MessageNodes(map))}
    IN  \A n \in Nodes :
           /\ n \in DOMAIN r.objects <=>
                 /\ \A k \in DOMAIN c(n) : c(n)[k] \in MessageNodes(map) => map[c(n)[k]].holds = "text"
                 /\ map[n].holds = "text"
                 /\ c(n)[Cardinality(Nodes) + 1] = 0
           /\ n \in DOMAIN r.objects => r.objects[n].parents = {c(n)[Min(above(n))]}

(* No file came back to contents it had before. *)
NeverPutBack ==
    \A f \in Members, i, j, k \in DOMAIN moments :
        i < j /\ j < k /\ moments[i][f] = moments[k][f] => moments[j][f] = moments[i][f]

(* An accepted projection of numbered files is taken from contents the     *)
(* files had all at one moment (unless old contents were put back, which a *)
(* second hash cannot see), and says of them what the aggregator says: the *)
(* same conversations, duplicates and conflicts, except that it passes     *)
(* over conversations without an identity (project, aggregate).            *)
ProjectionAgrees ==
    projection.phase = "accepted" =>
        LET p == projection.result
            a == Aggregate(projection.held)
        IN  /\ NeverPutBack => \E k \in DOMAIN moments : moments[k] = projection.held
            /\ a.bad <=> p.quarantined > 0
            /\ p.input = a.input /\ p.input = Len(p.out) + p.duplicates + p.quarantined
            /\ p.quarantined = 0 => p.out = a.out /\ p.duplicates = a.duplicates
            /\ p.chosen = SelectSeq(p.out, LAMBDA v : v.id \in projection.selected)
            /\ \A k, l \in DOMAIN p.out : p.out[k].id = p.out[l].id => k = l
=============================================================================
