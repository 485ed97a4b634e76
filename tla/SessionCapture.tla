---------------------------- MODULE SessionCapture ----------------------------
(***************************************************************************)
(* OllamaChatCaptureService: turns of a chat with a local model, appended  *)
(* to a session bundle that the caller keeps; and the import of such a     *)
(* bundle by OllamaSessionSourceAdapter.  Nothing of it writes Doll State. *)
(*                                                                         *)
(* A bundle has the version of the runtime (0 for none yet) and the        *)
(* messages of one conversation; message ids are numbers, the conversation *)
(* is object 0.  This module is only evaluated by TLC: it stages with      *)
(* ImportStaging.                                                          *)
(***************************************************************************)
EXTENDS ImportStaging

CONSTANTS
    MessageIds,      \* what callers name messages
    MaxMessages,     \* _MAX_CAPTURE_MESSAGES
    MaxVersion,      \* bound: versions of the runtime
    Foreign,         \* bundles that come from elsewhere
    NoBundle

VARIABLES
    retained,            \* the bundle the caller keeps, or NoBundle
    runtime,         \* the version of the runtime that is running
    capture,         \* the call of capture that is under way
    returned         \* history: the bundle that capture returned last, with the one it was given

captureVars == <<retained, runtime, capture, returned>>

Message(id, role, parents) == [id |-> id, role |-> role, parents |-> parents, extra |-> FALSE]
Idling == [phase |-> "idle", given |-> NoBundle, user |-> 0, assistant |-> 0, version |-> 0]

CaptureInit ==
    /\ retained \in Foreign \union {NoBundle}
    /\ runtime = 1
    /\ capture = Idling
    /\ returned = {}
-----------------------------------------------------------------------------
(* _map_message: a message without parents hangs on the conversation; tool *)
(* calls and attachments are objects of their own.                         *)
SessionMessage(msgs, k) ==
    LET m == msgs[k]
        raw(id, type, parents) ==
            [form |-> "ok", id |-> id, type |-> type, parents |-> parents, body |-> k]
    IN  <<raw(m.id, IF m.role = "odd" THEN "unsupported" ELSE m.role,
              IF m.parents = <<>> THEN {0} ELSE {m.parents[j] : j \in DOMAIN m.parents})>>
        \o (IF m.extra THEN <<raw(100 + m.id, "tool-request", {m.id})>> ELSE <<>>)

(* _map_conversation and stage *)
SessionObjects(bundle) ==
    FlattenSeq(<<<<[form |-> "ok", id |-> 0, type |-> "conversation", parents |-> {}, body |-> 0]>>>>
               \o [k \in DOMAIN bundle.messages |-> SessionMessage(bundle.messages, k)])

(* ollama_session_source_contract *)
SessionContract == [branch |-> "preserve", attachment |-> "metadata_only", limit |-> 100,
                    events |-> {"user", "assistant", "system", "tool", "tool-request"}]

SessionStage(bundle) == StageResult(SessionObjects(bundle), SessionContract)
-----------------------------------------------------------------------------
(* _history_message and _validate_linear_history *)
LinearHistory(msgs) ==
    \A k \in DOMAIN msgs :
        /\ msgs[k].role # "odd" /\ ~msgs[k].extra
        /\ msgs[k].parents = IF k = 1 THEN <<>> ELSE <<msgs[k - 1].id>>
        /\ \A j \in 1 .. k - 1 : msgs[j].id # msgs[k].id

(* Mutant: the ids of the new turn are not looked up in the history. *)
AppendableAnyIds(bundle, user, assistant) ==
    Len(bundle.messages) <= MaxMessages - 2 /\ LinearHistory(bundle.messages)

(* _prepare_document: the bundle is staged, which refuses only what is not *)
(* a bundle at all; its history must be linear and leave room for a turn.  *)
Appendable(bundle, user, assistant) ==
    /\ Len(bundle.messages) <= MaxMessages - 2
    /\ LinearHistory(bundle.messages)
    /\ \A k \in DOMAIN bundle.messages : bundle.messages[k].id \notin {user, assistant}

BeginCapture(user, assistant) ==
    /\ capture.phase = "idle" /\ user # assistant
    /\ retained # NoBundle => Appendable(retained, user, assistant)
    /\ capture' = [Idling EXCEPT !.phase = "model", !.given = retained, !.user = user, !.assistant = assistant]
    /\ UNCHANGED <<retained, runtime, returned>>

(* Any request, or the check of its answer, fails: the caller keeps what   *)
(* it has.                                                                 *)
CaptureFails ==
    /\ capture.phase # "idle"
    /\ capture' = Idling
    /\ UNCHANGED <<retained, runtime, returned>>

(* _resolve_local_model *)
ResolveModel ==
    /\ capture.phase = "model"
    /\ capture' = [capture EXCEPT !.phase = "version"]
    /\ UNCHANGED <<retained, runtime, returned>>

(* _read_runtime_version, and the comparison with the bundle's. *)
ReadVersion ==
    /\ capture.phase = "version"
    /\ capture' = IF capture.given # NoBundle /\ capture.given.version \notin {0, runtime} THEN Idling
                  ELSE [capture EXCEPT !.phase = "chat", !.version = runtime]
    /\ UNCHANGED <<retained, runtime, returned>>

(* The two messages of the turn. *)
Turn(c, msgs) ==
    <<Message(c.user, "user", IF msgs = <<>> THEN <<>> ELSE <<Last(msgs).id>>),
      Message(c.assistant, "assistant", <<c.user>>)>>

(* POST /api/chat and the rest of capture.  The bundle is staged once more *)
(* before it is returned; the caller keeps it, or does not.                *)
ChatTurn ==
    LET msgs == IF capture.given = NoBundle THEN <<>> ELSE capture.given.messages
        bundle == [version |-> capture.version, messages |-> msgs \o Turn(capture, msgs)]
    IN  /\ capture.phase = "chat"
        /\ retained' \in {retained, bundle}
        /\ returned' = {<<capture.given, bundle>>}
        /\ capture' = Idling
        /\ UNCHANGED runtime

(* External: the runtime is upgraded, at any time. *)
Upgrade ==
    /\ runtime < MaxVersion
    /\ runtime' = runtime + 1
    /\ UNCHANGED <<retained, capture, returned>>

CaptureNext ==
    \/ \E user, assistant \in MessageIds : BeginCapture(user, assistant)
    \/ CaptureFails \/ ResolveModel \/ ReadVersion \/ ChatTurn \/ Upgrade
-----------------------------------------------------------------------------
(* Whatever capture returns can be imported whole, in the order of the     *)
(* turns, with nothing in quarantine; it continues the bundle it was given *)
(* and one version of the runtime answers for all of it; and, while there  *)
(* is room and the runtime is the same, it can be continued again          *)
(* (OllamaChatCaptureService.capture, OllamaSessionSourceAdapter.stage).   *)
CaptureImportable ==
    \A r \in returned :
        LET msgs == r[2].messages
            staged == SessionStage(r[2])
        IN  /\ staged.quarantined = {}
            /\ DOMAIN staged.objects = {0} \union {msgs[k].id : k \in DOMAIN msgs}
            /\ Cardinality(DOMAIN staged.objects) = Len(msgs) + 1
            /\ Len(msgs) <= MaxMessages
            /\ LinearHistory(msgs)
            /\ r[1] # NoBundle => /\ SubSeq(msgs, 1, Len(r[1].messages)) = r[1].messages
                                  /\ r[1].version \in {0, r[2].version}
=============================================================================
