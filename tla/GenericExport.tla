--------------------------- MODULE GenericExport ---------------------------
(***************************************************************************)
(* GenericExportBuilder: conversations and events as five plain files.     *)
(* build makes and verifies them in memory; publish puts them below the    *)
(* artifacts root one by one, each under a name that must be free, and     *)
(* takes back what it has published when a later one fails.                *)
(*                                                                         *)
(* A conversation is its own conversation and has no parents.  Of its      *)
(* texts the model keeps whether one holds a Unicode line separator.       *)
(***************************************************************************)
EXTENDS Naturals, Sequences, FiniteSets

CONSTANTS
    Publishers,  \* calls of publish, one each
    Prefixes     \* managed prefixes

VARIABLES
    managed,     \* the files below the artifacts root: <<prefix, name, publisher>>
    publishing,  \* [Publishers -> where the call is]
    spoiled      \* history: publishers that crashed or whose cleanup failed

publishVars == <<managed, publishing, spoiled>>

FileOrder == <<"manifest.json", "records.json", "records.jsonl", "transcript.md",
               "checksums.sha256">>
Names == {FileOrder[i] : i \in DOMAIN FileOrder}
-----------------------------------------------------------------------------
Conversations(recs) == {r \in recs : r.conversation = r.id}
Events(recs) == recs \ Conversations(recs)

(* _validate_graph, with _unique_by_id and _reject_event_cycles. *)
GraphValid(recs) ==
    /\ Conversations(recs) # {}
    /\ Cardinality({r.id : r \in recs}) = Cardinality(recs)
    /\ \A r \in Events(recs) :
          /\ \E q \in Conversations(recs) : q.id = r.conversation
          /\ \A p \in r.parents : \E q \in Events(recs) : q.id = p /\ q.conversation = r.conversation
    /\ \A loop \in (SUBSET Events(recs)) \ {{}} :
          \E r \in loop : \A q \in loop : q.id \notin r.parents

(* _jsonl_bytes: one line for the manifest and one for each record, with   *)
(* its texts as they are (ensure_ascii=False).                             *)
LineOf(r) == IF r.text = "separated" THEN <<"half", "half">> ELSE <<r.id>>

(* _parse_jsonl_records: str.splitlines ends a line at a separator too,    *)
(* and half a record is not JSON.                                          *)
LinesParse(recs) == \A r \in recs : LineOf(r) = <<r.id>>

(* build, with verify_generic_export_bundle at its end. *)
Buildable(recs) == GraphValid(recs) /\ LinesParse(recs)
-----------------------------------------------------------------------------
Idle == [prefix |-> "none", done |-> <<>>, pc |-> "idle"]

PublishInit ==
    /\ managed = {}
    /\ publishing = [u \in Publishers |-> Idle]
    /\ spoiled = {}

(* publish, for a bundle that was built. *)
BeginPublish(u, x) ==
    /\ publishing[u].pc = "idle"
    /\ publishing' = [publishing EXCEPT ![u] = [prefix |-> x, done |-> <<>>, pc |-> "files"]]
    /\ UNCHANGED <<managed, spoiled>>

(* publish_new_workspace_file creates, and never replaces. *)
NameFree(x, name) == \A u \in Publishers : <<x, name, u>> \notin managed

PublishFile(u) ==
    LET s == publishing[u]
        name == FileOrder[Len(s.done) + 1]
    IN  /\ s.pc = "files" /\ Len(s.done) < Len(FileOrder)
        /\ NameFree(s.prefix, name)
        /\ managed' = {f \in managed : f[1] # s.prefix \/ f[2] # name} \union {<<s.prefix, name, u>>}
        /\ publishing' = [publishing EXCEPT ![u].done = Append(@, name)]
        /\ UNCHANGED spoiled

(* The name is taken, or the write fails. *)
PublishFails(u) ==
    /\ publishing[u].pc = "files" /\ Len(publishing[u].done) < Len(FileOrder)
    /\ publishing' = [publishing EXCEPT ![u].pc = "cleanup"]
    /\ UNCHANGED <<managed, spoiled>>

PublishDone(u) ==
    /\ publishing[u].pc = "files" /\ Len(publishing[u].done) = Len(FileOrder)
    /\ publishing' = [publishing EXCEPT ![u].pc = "done"]
    /\ UNCHANGED <<managed, spoiled>>

(* cleanup of the last file that was published; it may fail, and then the  *)
(* others are still tried.                                                 *)
CleanupFile(u) ==
    LET s == publishing[u]
        name == s.done[Len(s.done)]
    IN  /\ s.pc = "cleanup" /\ s.done # <<>>
        /\ \/ managed' = managed \ {<<s.prefix, name, q>> : q \in Publishers} /\ UNCHANGED spoiled
           \/ spoiled' = spoiled \union {u} /\ UNCHANGED managed
        /\ publishing' = [publishing EXCEPT ![u].done = SubSeq(@, 1, Len(@) - 1)]

PublishGivenUp(u) ==
    /\ publishing[u].pc = "cleanup" /\ publishing[u].done = <<>>
    /\ publishing' = [publishing EXCEPT ![u].pc = "failed"]
    /\ UNCHANGED <<managed, spoiled>>

PublisherDies(u) ==
    /\ publishing[u].pc \in {"files", "cleanup"}
    /\ publishing' = [publishing EXCEPT ![u].pc = "failed"]
    /\ spoiled' = spoiled \union {u}
    /\ UNCHANGED managed

PublishNext ==
    \E u \in Publishers :
       \/ \E x \in Prefixes : BeginPublish(u, x)
       \/ PublishFile(u) \/ PublishFails(u) \/ PublishDone(u)
       \/ CleanupFile(u) \/ PublishGivenUp(u) \/ PublisherDies(u)
-----------------------------------------------------------------------------
(* A call of publish that returned has its five files where it put them,   *)
(* for ever, and one that raised has left none, unless it was killed or a  *)
(* file could not be removed.  Cleanup removes by name (cleanup), and      *)
(* several calls work under one prefix, so this is about the order in      *)
(* which names are taken and given back.                                   *)
PublishedWhole ==
    \A u \in Publishers :
       LET mine == {f[2] : f \in {g \in managed : g[1] = publishing[u].prefix /\ g[3] = u}}
           s == publishing[u]
       IN  /\ s.pc = "done" => mine = Names
           /\ s.pc = "failed" /\ u \notin spoiled => mine = {}
           /\ s.pc = "files" => mine = {s.done[i] : i \in DOMAIN s.done}
=============================================================================
