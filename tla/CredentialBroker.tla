-------------------------- MODULE CredentialBroker --------------------------
(***************************************************************************)
(* The credential broker: one-time authorization grants, the attempt and   *)
(* result audit events, the lookup of secret material in the external      *)
(* store, and the handler that uses it.  Calls of execute run concurrently *)
(* and may share a grant; time passes and tokens are cancelled between any *)
(* two of their steps, also between a call's test of its token, its test   *)
(* of the clock and what it does next.                                     *)
(*                                                                         *)
(* Failure codes are grouped: denied (authorization, scope, reference and  *)
(* handler checks), store (every failure of the secret store but           *)
(* cancellation and timeout), handler, cancelled, timeout, audit.          *)
(***************************************************************************)
EXTENDS Naturals

CONSTANTS
    Calls,        \* invocations of CredentialBroker.execute
    Intents,      \* CredentialUseIntent values, each with its own token
    BadIntents,   \* those whose reference, scopes or handler do not match
    Grants,       \* grant identifiers
    Timeout,      \* intent.timeout_seconds
    Lifetime,     \* lifetime of a grant
    LastInstant   \* bound: last instant of the clock

ASSUME BrokerAssumption ==
    /\ BadIntents \subseteq Intents
    /\ Intents # {} /\ Grants # {}
    /\ Timeout \in Nat /\ Lifetime \in Nat /\ LastInstant \in Nat

VARIABLES
    instant,        \* the monotonic clock
    cancelled,      \* intents whose cancellation token is set
    issued,         \* grants in CredentialAuthorizationAuthority._states
    grantIntent,    \* intent_signature of a grant
    grantExpires,   \* expires_at_monotonic of a grant
    consumed,       \* grants marked consumed
    pc,             \* where each call is
    intent, grant,  \* the call's arguments
    deadline,       \* the call's deadline
    clockSeen,      \* the clock as consume read it, the store's budget, its deadline
    material,       \* SecretMaterial held by the call
    ran,            \* calls whose handler was invoked
    outcome,        \* what the handler's invocation really amounted to
    failure, completion,   \* the CredentialBrokerResult so far
    attempted, recorded,   \* calls with an attempt / a result audit event
    lateAnswer, lateReturn \* history: calls already cancelled or past their deadline
                           \* when the adapter answered / when the handler returned

authVars == <<issued, grantIntent, grantExpires, consumed>>
callVars == <<intent, grant, deadline>>
resultVars == <<failure, completion>>
auditVars == <<attempted, recorded>>
useVars == <<material, ran, outcome>>
lateVars == <<lateAnswer, lateReturn>>
brokerVars ==
    <<instant, cancelled, authVars, pc, callVars, clockSeen, useVars, resultVars, auditVars,
      lateVars>>

PC == {"idle", "attempt", "precheck", "precheckClock", "scopes", "consume", "postcheck",
       "postcheckClock", "prepare", "storeClock", "lookup", "lookupClock", "adapter",
       "lookupPost", "lookupPostClock", "held", "heldClock", "start", "handler", "override",
       "overrideClock", "terminal", "done"}
Failure == {"none", "denied", "store", "handler", "cancelled", "timeout", "audit"}
Completion == {"not_started", "completed", "unknown"}
Outcome == {"none", "running", "succeeded", "completed", "unclear"}

BrokerInit ==
    /\ instant = 0
    /\ cancelled = {}
    /\ issued = {}
    /\ grantIntent = [g \in Grants |-> CHOOSE i \in Intents : TRUE]
    /\ grantExpires = [g \in Grants |-> 0]
    /\ consumed = {}
    /\ pc = [c \in Calls |-> "idle"]
    /\ intent = [c \in Calls |-> CHOOSE i \in Intents : TRUE]
    /\ grant = [c \in Calls |-> CHOOSE g \in Grants : TRUE]
    /\ deadline = [c \in Calls |-> 0]
    /\ clockSeen = [c \in Calls |-> 0]
    /\ material = [c \in Calls |-> "none"]
    /\ ran = {}
    /\ outcome = [c \in Calls |-> "none"]
    /\ failure = [c \in Calls |-> "none"]
    /\ completion = [c \in Calls |-> "not_started"]
    /\ attempted = {}
    /\ recorded = {}
    /\ lateAnswer = {} /\ lateReturn = {}

Goto(c, l) == pc' = [pc EXCEPT ![c] = l]

(* _result(...) on its way to _record_terminal. *)
Finish(c, f, done) ==
    /\ failure' = [failure EXCEPT ![c] = f]
    /\ completion' = [completion EXCEPT ![c] = done]
    /\ clockSeen' = [clockSeen EXCEPT ![c] = 0]
    /\ Goto(c, "terminal")

(* On to l, with the reading t of the clock in hand. *)
ProceedWith(c, l, t) ==
    /\ Goto(c, l)
    /\ clockSeen' = [clockSeen EXCEPT ![c] = t]
    /\ UNCHANGED resultVars

Proceed(c, l) == Goto(c, l) /\ UNCHANGED <<clockSeen, resultVars>>

IsCancelled(c) == intent[c] \in cancelled
Expired(c) == instant >= deadline[c]

(* What the pair of tests the code repeats would find. *)
Interrupted(c) == IsCancelled(c) \/ Expired(c)

(* cancellation.is_cancelled, read on the way to "not_started"; the store  *)
(* closes the material it was just given.                                  *)
TestToken(c, here, next) ==
    /\ pc[c] = here
    /\ \/ IsCancelled(c) /\ Finish(c, "cancelled", "not_started")
       \/ ~IsCancelled(c) /\ Proceed(c, next)
    /\ material' = IF here = "lookupPost" /\ IsCancelled(c)
                   THEN [material EXCEPT ![c] = "closed"] ELSE material
    /\ UNCHANGED <<instant, cancelled, authVars, callVars, ran, outcome, auditVars,
                   lateVars>>
-----------------------------------------------------------------------------
(* CredentialAuthorizationAuthority.issue: a duplicate identifier is       *)
(* refused.                                                                *)
Issue(g, i) ==
    /\ g \notin issued
    /\ issued' = issued \union {g}
    /\ grantIntent' = [grantIntent EXCEPT ![g] = i]
    /\ grantExpires' = [grantExpires EXCEPT ![g] = instant + Lifetime]
    /\ UNCHANGED <<instant, cancelled, consumed, pc, callVars, clockSeen, useVars,
                   resultVars, auditVars, lateVars>>

(* execute starts; a grant that was not issued stands for a forged one. *)
Execute(c, i, g) ==
    /\ pc[c] = "idle"
    /\ intent' = [intent EXCEPT ![c] = i]
    /\ grant' = [grant EXCEPT ![c] = g]
    /\ deadline' = [deadline EXCEPT ![c] = instant + Timeout]
    /\ Proceed(c, "attempt")
    /\ UNCHANGED <<instant, cancelled, authVars, useVars, auditVars, lateVars>>

(* A failed attempt event ends the call with CREDENTIAL_BROKER_AUDIT_FAILED. *)
AfterFailedAttempt == "done"

(* _record_attempt.  The sink may fail before its event is written, or     *)
(* after (AuditService.append raises when workspace.json cannot be         *)
(* synchronized although the event is committed).                          *)
RecordAttempt(c) ==
    /\ pc[c] = "attempt"
    /\ \/ attempted' = attempted \union {c} /\ Proceed(c, "precheck")
       \/ /\ attempted' \in {attempted, attempted \union {c}}
          /\ UNCHANGED clockSeen
          /\ failure' = [failure EXCEPT ![c] = "audit"]
          /\ completion' = [completion EXCEPT ![c] = "not_started"]
          /\ Goto(c, AfterFailedAttempt)
    /\ UNCHANGED <<instant, cancelled, authVars, callVars, useVars, recorded, lateVars>>

(* The first clock test of _preflight. *)
PrecheckClock(c) ==
    /\ pc[c] = "precheckClock"
    /\ \/ Expired(c) /\ Finish(c, "timeout", "not_started")
       \/ ~Expired(c) /\ Proceed(c, "scopes")
    /\ UNCHANGED <<instant, cancelled, authVars, callVars, useVars, auditVars, lateVars>>

(* The rest of _preflight up to the authorization, whose clock is read     *)
(* before its lock is taken.                                               *)
CheckScopes(c) ==
    /\ pc[c] = "scopes"
    /\ \/ intent[c] \in BadIntents /\ Finish(c, "denied", "not_started")
       \/ intent[c] \notin BadIntents /\ ProceedWith(c, "consume", instant)
    /\ UNCHANGED <<instant, cancelled, authVars, callVars, useVars, auditVars, lateVars>>

GrantUsable(c) == grant[c] \in issued /\ grant[c] \notin consumed

GrantFresh(c) == clockSeen[c] < grantExpires[grant[c]]

GrantMatches(c) == grantIntent[grant[c]] = intent[c]

(* CredentialAuthorizationAuthority.consume, under its lock: missing,      *)
(* consumed, expired (which consumes), mismatch (which does not), granted. *)
ConsumeGrant(c) ==
    /\ pc[c] = "consume"
    /\ \/ /\ ~GrantUsable(c)
          /\ Finish(c, "denied", "not_started")
          /\ UNCHANGED consumed
       \/ /\ GrantUsable(c) /\ ~GrantFresh(c)
          /\ Finish(c, "denied", "not_started")
          /\ consumed' = consumed \union {grant[c]}
       \/ /\ GrantUsable(c) /\ GrantFresh(c) /\ ~GrantMatches(c)
          /\ Finish(c, "denied", "not_started")
          /\ UNCHANGED consumed
       \/ /\ GrantUsable(c) /\ GrantFresh(c) /\ GrantMatches(c)
          /\ ProceedWith(c, "postcheck", 0)
          /\ consumed' = consumed \union {grant[c]}
    /\ UNCHANGED <<instant, cancelled, issued, grantIntent, grantExpires, callVars,
                   useVars, auditVars, lateVars>>

(* The clock test that ends _preflight and the remaining budget execute    *)
(* computes next: two readings of the clock with nothing between them, so  *)
(* the second decides.                                                     *)
PostcheckClock(c) ==
    /\ pc[c] = "postcheckClock"
    /\ \/ Expired(c) /\ Finish(c, "timeout", "not_started")
       \/ ~Expired(c) /\ ProceedWith(c, "prepare", deadline[c] - instant)
    /\ UNCHANGED <<instant, cancelled, authVars, callVars, useVars, auditVars, lateVars>>

(* ExternalSecretStore._prepare until the adapter's status is asked: the   *)
(* store starts a deadline of its own with the budget it was given, and    *)
(* fails when no adapter is registered.                                    *)
StorePrepare(c) ==
    /\ pc[c] = "storeClock"
    /\ \/ Finish(c, "store", "not_started")
       \/ ProceedWith(c, "lookup", instant + clockSeen[c])
    /\ UNCHANGED <<instant, cancelled, authVars, callVars, useVars, auditVars, lateVars>>

(* material.close() *)
CloseMaterial(c) == material' = [material EXCEPT ![c] = "closed"]

(* The store's tests of its own deadline: before the adapter is asked, and *)
(* once it has answered, when a late answer is closed.                     *)
StoreClock(c, here, next) ==
    /\ pc[c] = here
    /\ \/ /\ instant >= clockSeen[c]
          /\ Finish(c, "timeout", "not_started")
          /\ IF here = "lookupPostClock" THEN CloseMaterial(c) ELSE UNCHANGED material
       \/ /\ instant < clockSeen[c]
          /\ Proceed(c, next)
          /\ UNCHANGED material
    /\ UNCHANGED <<instant, cancelled, authVars, callVars, ran, outcome, auditVars,
                   lateVars>>

(* The adapter's status and lookup: refused or failed (with any code the   *)
(* adapter raises), or material was obtained.                              *)
AdapterLookup(c) ==
    /\ pc[c] = "adapter"
    /\ \/ /\ \E f \in {"store", "cancelled", "timeout"} : Finish(c, f, "not_started")
          /\ UNCHANGED <<material, lateAnswer>>
       \/ /\ Proceed(c, "lookupPost")
          /\ material' = [material EXCEPT ![c] = "open"]
          /\ lateAnswer' = IF Interrupted(c) THEN lateAnswer \union {c} ELSE lateAnswer
    /\ UNCHANGED <<instant, cancelled, authVars, callVars, ran, outcome, auditVars,
                   lateReturn>>

(* The clock is compared with the call's own deadline, which is no later   *)
(* than the store's: the store added a budget that was computed earlier.   *)
StoreDeadlineGone(c) == instant >= clockSeen[c]
DeadlineGone(c) == Expired(c)

(* The broker's clock test inside "with lookup"; a call stopped here, or   *)
(* by the token test before it, records its result inside the block: the   *)
(* material is still open then.                                            *)
HeldClock(c) ==
    /\ pc[c] = "heldClock"
    /\ \/ DeadlineGone(c) /\ Finish(c, "timeout", "not_started")
       \/ ~DeadlineGone(c) /\ ProceedWith(c, "start", 0)
    /\ UNCHANGED <<instant, cancelled, authVars, callVars, useVars, auditVars, lateVars>>

(* handler.execute: nothing is tested any more, and the call may have been *)
(* cancelled or its deadline have passed since.                            *)
BeginHandler(c) ==
    /\ pc[c] = "start"
    /\ Proceed(c, "handler")
    /\ ran' = ran \union {c}
    /\ outcome' = [outcome EXCEPT ![c] = "running"]
    /\ UNCHANGED <<instant, cancelled, authVars, callVars, material, auditVars, lateVars>>

(* The completion a handler failure is reported with: exceptions and       *)
(* malformed results are unknown, a bounded result says which.             *)
FailureNotStarted(o) == IF o = "completed" THEN "completed" ELSE "not_started"
HandlerCompletion(o) == IF o = "completed" THEN "completed" ELSE "unknown"

(* The handler returns or raises; leaving "with lookup" closes the         *)
(* material.                                                               *)
EndHandler(c) ==
    /\ pc[c] = "handler"
    /\ CloseMaterial(c)
    /\ \E o \in {"succeeded", "completed", "unclear"} :
          /\ outcome' = [outcome EXCEPT ![c] = o]
          /\ failure' = [failure EXCEPT ![c] = IF o = "succeeded" THEN "none" ELSE "handler"]
          /\ completion' = [completion EXCEPT ![c] =
                IF o = "succeeded" THEN "completed" ELSE HandlerCompletion(o)]
    /\ lateReturn' = IF Interrupted(c) THEN lateReturn \union {c} ELSE lateReturn
    /\ Goto(c, "override")
    /\ UNCHANGED <<instant, cancelled, authVars, callVars, clockSeen, ran, auditVars, lateAnswer>>

(* A cancellation, and when there is none a timeout, noticed after the     *)
(* handler makes the result unknown.                                       *)
OverrideToken(c) ==
    /\ pc[c] = "override"
    /\ \/ IsCancelled(c) /\ Finish(c, "cancelled", "unknown")
       \/ ~IsCancelled(c) /\ Proceed(c, "overrideClock")
    /\ UNCHANGED <<instant, cancelled, authVars, callVars, useVars, auditVars, lateVars>>

OverrideClock(c) ==
    /\ pc[c] = "overrideClock"
    /\ \/ Expired(c) /\ Finish(c, "timeout", "unknown")
       \/ ~Expired(c) /\ Proceed(c, "terminal")
    /\ UNCHANGED <<instant, cancelled, authVars, callVars, useVars, auditVars, lateVars>>

(* The result returned when the result event could not be written keeps    *)
(* the completion.                                                         *)
ForgetCompletion(c) == [completion EXCEPT ![c] = "not_started"]
CompletionAfterAuditFailure(c) == completion

(* The call ends whether or not its result event was written. *)
RestartCall(wrote) == IF wrote THEN "done" ELSE "attempt"
AfterResult(wrote) == "done"

(* _record_terminal, and the end of the "with lookup" block when the call  *)
(* was stopped inside it.                                                  *)
RecordTerminal(c) ==
    /\ pc[c] = "terminal"
    /\ \/ /\ recorded' = recorded \union {c}
          /\ UNCHANGED resultVars
          /\ Goto(c, AfterResult(TRUE))
       \/ /\ recorded' \in {recorded, recorded \union {c}}
          /\ failure' = [failure EXCEPT ![c] = "audit"]
          /\ completion' = CompletionAfterAuditFailure(c)
          /\ Goto(c, AfterResult(FALSE))
    /\ IF material[c] = "open" THEN CloseMaterial(c) ELSE UNCHANGED material
    /\ UNCHANGED <<instant, cancelled, authVars, callVars, clockSeen, ran, outcome, attempted,
                   lateVars>>
-----------------------------------------------------------------------------
Cancel(i) ==
    /\ i \notin cancelled
    /\ cancelled' = cancelled \union {i}
    /\ UNCHANGED <<instant, authVars, pc, callVars, clockSeen, useVars, resultVars, auditVars, lateVars>>

Tick ==
    /\ instant < LastInstant
    /\ instant' = instant + 1
    /\ UNCHANGED <<cancelled, authVars, pc, callVars, clockSeen, useVars, resultVars, auditVars, lateVars>>

Step(c) ==
    \/ RecordAttempt(c)
    \/ TestToken(c, "precheck", "precheckClock") \/ PrecheckClock(c) \/ CheckScopes(c)
    \/ ConsumeGrant(c)
    \/ TestToken(c, "postcheck", "postcheckClock") \/ PostcheckClock(c)
    \/ TestToken(c, "prepare", "storeClock") \/ StorePrepare(c)
    \/ TestToken(c, "lookup", "lookupClock") \/ StoreClock(c, "lookupClock", "adapter")
    \/ AdapterLookup(c)
    \/ TestToken(c, "lookupPost", "lookupPostClock")
    \/ StoreClock(c, "lookupPostClock", "held")
    \/ TestToken(c, "held", "heldClock") \/ HeldClock(c)
    \/ BeginHandler(c) \/ EndHandler(c)
    \/ OverrideToken(c) \/ OverrideClock(c)
    \/ RecordTerminal(c)

BrokerNext ==
    \/ \E g \in Grants, i \in Intents : Issue(g, i)
    \/ \E c \in Calls, i \in Intents, g \in Grants : Execute(c, i, g)
    \/ \E c \in Calls : Step(c)
    \/ \E i \in Intents : Cancel(i)
    \/ Tick

BrokerSpec == BrokerInit /\ [][BrokerNext]_brokerVars

(* Every call keeps running: the code between two of its steps blocks on   *)
(* nothing but the store's adapter and the handler, which return or raise. *)
BrokerFairSpec == BrokerSpec /\ \A c \in Calls : WF_brokerVars(Step(c))
-----------------------------------------------------------------------------
BrokerTypeOK ==
    /\ instant \in Nat
    /\ cancelled \subseteq Intents
    /\ issued \subseteq Grants /\ consumed \subseteq Grants
    /\ grantIntent \in [Grants -> Intents] /\ grantExpires \in [Grants -> Nat]
    /\ pc \in [Calls -> PC]
    /\ intent \in [Calls -> Intents] /\ grant \in [Calls -> Grants]
    /\ deadline \in [Calls -> Nat]
    /\ material \in [Calls -> {"none", "open", "closed"}]
    /\ ran \subseteq Calls
    /\ outcome \in [Calls -> Outcome]
    /\ failure \in [Calls -> Failure]
    /\ completion \in [Calls -> Completion]
    /\ attempted \subseteq Calls /\ recorded \subseteq Calls
    /\ lateAnswer \subseteq Calls /\ lateReturn \subseteq Calls

(* A grant authorizes at most one handler invocation, and one of exactly    *)
(* the intent it was issued for, although concurrent calls may present it. *)
GrantSingleUse ==
    \A c, d \in ran :
        /\ grantIntent[grant[c]] = intent[c]
        /\ grant[c] = grant[d] => c = d

(* "not_started: the handler did not begin" and "completed: the handler    *)
(* returned a bounded completed result" (IMP-017): no failure, whichever   *)
(* step it strikes, hides a side effect or claims one that was not          *)
(* reported.                                                                *)
CompletionTruthful ==
    \A c \in Calls : pc[c] = "done" =>
        /\ completion[c] = "not_started" => c \notin ran
        /\ completion[c] = "completed" => outcome[c] \in {"succeeded", "completed"}
        /\ failure[c] = "none" => outcome[c] = "succeeded" /\ c \in recorded

(* A grant is consumed and a handler runs only after the attempt is in the *)
(* audit log: a sink that fails first leaves the grant unconsumed.         *)
AttemptAuditedFirst ==
    /\ ran \subseteq attempted
    /\ \A g \in consumed : \E c \in attempted : grant[c] = g

(* No call ends holding secret material that was not wiped, whichever way   *)
(* it leaves; after the handler it is wiped before the result is recorded; *)
(* and the handler runs only while the material is open.                   *)
MaterialWiped ==
    \A c \in Calls :
        /\ pc[c] \in {"override", "overrideClock", "done"} => material[c] # "open"
        /\ pc[c] = "terminal" /\ c \in ran => material[c] # "open"
        /\ pc[c] = "handler" => material[c] = "open"

(* A call that was cancelled or out of time when the adapter answered (a    *)
(* lookup may wait for the user) never runs its handler, although the       *)
(* store's deadline is later than the call's and the tests come one by one. *)
LateAnswerUnused == lateAnswer \cap ran = {}

(* The token or the clock may still strike between the last test and the    *)
(* handler, or while it runs.  What was late when the handler returned is   *)
(* never reported as completed or as not begun: the caller is told that the *)
(* outcome is unknown, whatever the handler itself answered.                *)
LateReturnUnknown ==
    \A c \in lateReturn : pc[c] = "done" => completion[c] = "unknown" /\ failure[c] # "none"

(* A handler runs with authority, however calls race and whatever fails:    *)
(* one per grant and for the grant's intent, after its attempt is audited;  *)
(* a late answer of the store is never used, and a late handler never       *)
(* counted as done.                                                         *)
HandlerAuthorized ==
    /\ GrantSingleUse /\ AttemptAuditedFirst
    /\ LateAnswerUnused /\ LateReturnUnknown

(* What a call leaves: a truthful completion status and wiped material.     *)
CallsEndClean == BrokerTypeOK /\ CompletionTruthful /\ MaterialWiped

(* Every call that starts returns a result. *)
CallsReturn == \A c \in Calls : pc[c] = "attempt" ~> pc[c] = "done"
=============================================================================
