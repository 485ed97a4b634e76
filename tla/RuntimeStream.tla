--------------------------- MODULE RuntimeStream ---------------------------
(***************************************************************************)
(* One call of a local model runtime: LocalRuntimeBoundary over the Ollama *)
(* adapter over HTTP, and what a streaming turn makes of the answer.       *)
(*                                                                         *)
(* The three layers are generators that pull: the boundary asks the        *)
(* adapter for an event, the adapter asks the transport for a line, the    *)
(* transport waits for the server.  Between any two steps the caller may   *)
(* cancel and the deadline may pass.  The server is external: it may send  *)
(* anything, fall silent, or break the connection.                         *)
(***************************************************************************)
EXTENDS Naturals, Sequences, SequencesExt, FiniteSets

CONSTANTS
    MaxEvents,   \* MAX_RUNTIME_STREAM_EVENTS
    MaxChars,    \* max_output_chars of the request; a chunk is one character
    MaxLines,    \* MAX_OLLAMA_STREAM_BYTES, counted in lines
    Nothing

ASSUME LimitsAssumption == MaxEvents \in Nat /\ MaxEvents >= 2 /\ MaxChars \in Nat /\ MaxLines \in Nat

VARIABLES
    call,        \* the call: phase, the layers' local state, its answer
    cancelled,   \* RuntimeCancellationToken
    late,        \* the deadline has passed
    server       \* history: chunks the server sent in lines that were read

streamVars == <<call, cancelled, late, server>>

Requests == {"inventory", "generate", "stream"}
Chunks == {"word", "blank", "secret"}
NoText == "no text"   \* the empty text of a line or of an event without one
Lines ==
    [kind : {"chunk"}, text : Chunks \union {NoText}, done : BOOLEAN]
        \union [kind : {"error", "garbage", "oversized"}]
Terminal == {"complete", "error", "cancelled"}
Event(k, t) == [kind |-> k, text |-> t]
Start == Event("start", NoText)
Events == [kind : {"start", "delta"} \union Terminal, text : Chunks \union {NoText}]
Texts == Seq(Chunks \union {NoText})

ASSUME NothingAssumption ==
    Nothing \notin Lines \union Events \union Texts \union Requests
                     \union {"completed", "failed", "timeout", "cancelled"}

(* RuntimeStreamResult.output_text, as the sequence of its chunks: the     *)
(* texts of the delta events, in order.                                    *)
Deltas(events) ==
    LET at == {n \in DOMAIN events : events[n].kind = "delta"}
        nth(k) == CHOOSE n \in at : Cardinality({m \in at : m <= n}) = k
    IN  [k \in 1 .. Cardinality(at) |-> events[nth(k)].text]
-----------------------------------------------------------------------------
NoCall == [phase |-> "idle", op |-> Nothing, events |-> <<>>, made |-> 0, chars |-> 0,
           lines |-> 0, line |-> Nothing, event |-> Nothing, done |-> FALSE,
           outcome |-> Nothing, code |-> Nothing, text |-> Nothing, shown |-> <<>>]

StreamInit ==
    /\ call = NoCall
    /\ cancelled \in BOOLEAN /\ late = FALSE
    /\ server = [chunks |-> <<>>, done |-> FALSE]

(* RuntimeCancellationToken.cancel, from another thread. *)
Cancel ==
    /\ ~cancelled
    /\ cancelled' = TRUE
    /\ UNCHANGED <<call, late, server>>

(* The monotonic clock reaches deadline_monotonic. *)
DeadlinePasses ==
    /\ ~late
    /\ late' = TRUE
    /\ UNCHANGED <<call, cancelled, server>>

Calm == UNCHANGED <<cancelled, late, server>>

(* _post_failure, and the checks of the adapter and of the transport,      *)
(* which map to the same two codes.                                        *)
PostFailure == IF cancelled THEN "cancelled" ELSE IF late THEN "timeout" ELSE Nothing

OutcomeOf(code) == IF code \in {"cancelled", "timeout"} THEN code ELSE "failed"

(* _prefix_before_terminal *)
PrefixBeforeTerminal(events) ==
    LET ends == {n \in DOMAIN events : events[n].kind \in Terminal}
    IN  IF ends = {} THEN events
        ELSE SubSeq(events, 1, (CHOOSE n \in ends : \A k \in ends : n <= k) - 1)

(* _stream_failure: what was shown so far, cut to the limit, a start event *)
(* if there was none, and one terminal event.                              *)
FailureEvents(events, code) ==
    LET prefix == PrefixBeforeTerminal(events)
        safe == SubSeq(prefix, 1, IF Len(prefix) < MaxEvents THEN Len(prefix) ELSE MaxEvents - 1)
    IN  Append(IF safe = <<>> THEN <<Start>> ELSE safe,
               Event(IF code = "cancelled" THEN "cancelled" ELSE "error", NoText))

(* The boundary returns a failure of call c. *)
Failed(c, code) ==
    [c EXCEPT !.phase = "result", !.outcome = OutcomeOf(code), !.code = code, !.line = Nothing,
              !.event = Nothing,
              !.events = IF c.op = "stream" THEN FailureEvents(c.events, code) ELSE <<>>]
Fail(code) == call' = Failed(call, code)

(* _prepare: the token and the clock, the registry, the declaration, the   *)
(* supported operations.                                                   *)
Begin(op) ==
    LET c == [NoCall EXCEPT !.op = op, !.phase = "health"]
    IN  /\ call.phase = "idle"
        /\ IF PostFailure # Nothing THEN call' = Failed(c, PostFailure)
           ELSE \/ call' = c
                \/ \E code \in {"adapter_not_configured", "unsupported_operation"} :
                      call' = Failed(c, code)
        /\ Calm

(* _safe_health and the Ollama health request, which has a timeout of its  *)
(* own; then _post_failure.                                                *)
Health ==
    /\ call.phase = "health"
    /\ \/ \E code \in {"adapter_failure", "runtime_unavailable"} : Fail(code)
       \/ IF PostFailure # Nothing THEN Fail(PostFailure)
          ELSE call' = [call EXCEPT !.phase = "tags"]
    /\ Calm

(* GET /api/tags: the inventory itself, or the native name of the model.   *)
(* _request_json looks at the context after the response.                  *)
Tags ==
    /\ call.phase = "tags"
    /\ \/ \E code \in {"timeout", "runtime_unavailable", "resource_limit"} : Fail(code)
       \/ IF PostFailure # Nothing THEN Fail(PostFailure)
          ELSE \/ Fail("invalid_response")
               \/ call.op # "inventory" /\ Fail("model_not_found")
               \/ call' = [call EXCEPT
                     !.phase = CASE call.op = "inventory" -> "result"
                                 [] call.op = "generate"  -> "post"
                                 [] call.op = "stream"    -> "start",
                     !.outcome = IF call.op = "inventory" THEN "completed" ELSE Nothing]
    /\ Calm

(* POST /api/generate without streaming: one document, which must be done  *)
(* and keep the limit; the boundary checks the context last.               *)
Generate(l) ==
    /\ call.phase = "post"
    /\ UNCHANGED <<cancelled, late>>
    /\ \/ l.kind # "chunk" /\ Fail("adapter_failure") /\ UNCHANGED server
       \/ /\ l.kind = "chunk"
          /\ server' = [chunks |-> <<l.text>>, done |-> l.done]
          /\ IF PostFailure # Nothing THEN Fail(PostFailure)
             ELSE IF ~l.done THEN Fail("invalid_response")
             ELSE call' = [call EXCEPT !.phase = "result", !.outcome = "completed",
                                       !.text = <<l.text>>]
-----------------------------------------------------------------------------
(* _stream_events, up to its first yield: no connection is made yet. *)
StartStream ==
    /\ call.phase = "start"
    /\ call' = [call EXCEPT !.phase = "event", !.event = Start, !.made = 1]
    /\ Calm

(* The loop of LocalRuntimeBoundary.stream, for the event it was given. *)
TakeEvent ==
    LET events == Append(call.events, call.event)
    IN  /\ call.phase = "event"
        /\ IF PostFailure # Nothing THEN Fail(PostFailure)
           ELSE IF Len(events) > MaxEvents \/ Len(Deltas(events)) > MaxChars
           THEN Fail("resource_limit")
           ELSE call' = [call EXCEPT !.phase = "pull", !.events = events, !.event = Nothing]
        /\ Calm

Yield(e) == [call EXCEPT !.phase = "event", !.event = e, !.made = @ + 1, !.line = Nothing]

(* The adapter is resumed: by the line it is in, whose marker is still to  *)
(* be looked at, or by the next line, before which the transport looks at  *)
(* the context.                                                            *)
Pull ==
    /\ call.phase = "pull"
    /\ IF call.line # Nothing THEN call' = [Yield(Event("complete", NoText)) EXCEPT !.done = TRUE]
       ELSE IF PostFailure # Nothing THEN Fail(PostFailure)
       ELSE call' = [call EXCEPT !.phase = "wait"]
    /\ Calm

(* The server sends a line. *)
Receive(l) ==
    /\ call.phase = "wait"
    /\ UNCHANGED <<cancelled, late>>
    /\ server' = IF l.kind # "chunk" THEN server
                 ELSE [chunks |-> IF l.text = NoText THEN server.chunks ELSE Append(server.chunks, l.text),
                       done |-> server.done \/ l.done]
    /\ IF l.kind = "oversized" \/ call.lines >= MaxLines THEN Fail("resource_limit")
       ELSE call' = [call EXCEPT !.phase = "line", !.line = l, !.lines = @ + 1]

(* The server closes, or refuses, or breaks the connection. *)
Disconnect ==
    /\ call.phase = "wait"
    /\ \/ \E code \in {"adapter_failure", "model_not_found"} : Fail(code)
       \/ IF call.done THEN call' = [call EXCEPT !.phase = "end"] ELSE Fail("invalid_response")
    /\ Calm

(* Mutant: the connection is made without a timeout. *)
ReadTimeoutNever == FALSE /\ UNCHANGED streamVars

(* The socket's timeout: the time that was left when it was opened. *)
ReadTimeout ==
    /\ call.phase \in {"wait", "post"}
    /\ Fail("timeout")
    /\ Calm

(* The body of the adapter's loop over lines. *)
ParseLine ==
    LET l == call.line
    IN  /\ call.phase = "line"
        /\ IF PostFailure # Nothing THEN Fail(PostFailure)
           ELSE IF call.done THEN Fail("invalid_response")
           ELSE IF call.made >= MaxEvents THEN Fail("resource_limit")
           ELSE IF l.kind = "garbage" THEN Fail("invalid_response")
           ELSE IF l.kind = "error" THEN Fail("adapter_failure")
           ELSE IF l.text # NoText
           THEN IF call.chars = MaxChars THEN Fail("resource_limit")
                ELSE call' = [Yield(Event("delta", l.text)) EXCEPT
                                 !.chars = @ + 1, !.line = IF l.done THEN l ELSE Nothing]
           ELSE IF l.done THEN call' = [Yield(Event("complete", NoText)) EXCEPT !.done = TRUE]
           ELSE call' = [call EXCEPT !.phase = "pull", !.line = Nothing]
        /\ Calm

(* After the loop of the boundary; _validate_stream_transcript. *)
EndStream ==
    /\ call.phase = "end"
    /\ IF PostFailure # Nothing THEN Fail(PostFailure)
       ELSE IF Last(call.events).kind # "complete" THEN Fail("invalid_response")
       ELSE call' = [call EXCEPT !.phase = "result", !.outcome = "completed"]
    /\ Calm
-----------------------------------------------------------------------------
(* Mutant: only the text of a completed answer is scanned. *)
ScannedCompleted == IF call.outcome = "completed" THEN Deltas(call.events) ELSE <<>>

(* exposed_text: whatever the outcome, what the transcript shows. *)
Scanned == Deltas(call.events)

Sanitized == <<Start, Event("error", NoText)>>
Withheld == [call EXCEPT !.phase = "answered", !.outcome = "failed",
                         !.code = "invalid_response", !.shown = Sanitized]

(* _normalize_stream_result and the scan of execute_streaming_turn: the    *)
(* assistant's text and the events shown to the user.                      *)
Present ==
    /\ call.phase = "result" /\ call.op = "stream"
    /\ call' = IF Contains(Scanned, "secret") THEN Withheld
               ELSE IF call.outcome # "completed"
               THEN [call EXCEPT !.phase = "answered", !.shown = call.events]
               ELSE IF ToSet(Deltas(call.events)) \subseteq {"blank"} THEN Withheld
               ELSE [call EXCEPT !.phase = "answered", !.shown = call.events,
                                 !.text = Deltas(call.events)]
    /\ Calm

(* inventory and generate give their result to the caller as it is. *)
Return ==
    /\ call.phase = "result" /\ call.op # "stream"
    /\ call' = [call EXCEPT !.phase = "answered"]
    /\ Calm

(* What the program does by itself; the rest waits for the server. *)
ProgramStep ==
    \/ Health \/ Tags \/ StartStream \/ TakeEvent \/ Pull \/ ReadTimeout
    \/ ParseLine \/ EndStream \/ Present \/ Return

StreamNext ==
    \/ \E op \in Requests : Begin(op)
    \/ ProgramStep
    \/ \E l \in Lines : Generate(l) \/ Receive(l)
    \/ Disconnect \/ Cancel \/ DeadlinePasses

StreamSpec == StreamInit /\ [][StreamNext]_streamVars
-----------------------------------------------------------------------------
StreamTypeOK ==
    /\ call.op \in Requests \union {Nothing}
    /\ Len(call.events) <= MaxEvents /\ call.chars <= MaxChars /\ call.lines <= MaxLines
    /\ cancelled \in BOOLEAN /\ late \in BOOLEAN

(* The transcript shown to the user starts with the start event, ends with *)
(* its only terminal event, keeps the limit, and shows in order chunks the *)
(* server sent and no secret; the assistant's text exists only when the    *)
(* server said that it was done, and is then everything it sent            *)
(* (LocalRuntimeBoundary.stream, _stream_events, execute_streaming_turn).  *)
TranscriptFaithful ==
    /\ StreamTypeOK
    /\ call.phase = "answered" =>
          /\ call.op = "stream" =>
                /\ Head(call.shown) = Start /\ Last(call.shown).kind \in Terminal
                /\ \A n \in 1 .. Len(call.shown) - 1 : call.shown[n].kind \notin Terminal
                /\ Len(call.shown) <= MaxEvents
                /\ IsPrefix(Deltas(call.shown), server.chunks)
                /\ ~Contains(Deltas(call.shown), "secret")
          /\ call.text # Nothing <=> call.outcome = "completed" /\ call.op # "inventory"
          /\ call.text # Nothing => server.done /\ call.text = server.chunks

(* A call that began is answered, whatever the server does: a silent       *)
(* server meets the socket's timeout, a talkative one the limits.          *)
StreamEnds == call.phase = "health" ~> call.phase = "answered"
=============================================================================
