---------------------------- MODULE Authorization ----------------------------
(***************************************************************************)
(* Who may use a capability: permission records (settings.py), the         *)
(* preflight of capability requests (capabilities.py,                      *)
(* confirmation_preflight.py) and the append-only ledger of exact Tier 3   *)
(* confirmations (confirmation.py).  Clients interleave freely; the wall   *)
(* clock may be set forwards and backwards.                                *)
(*                                                                         *)
(* A request stands for its validated envelope and so for its fingerprint; *)
(* whether its envelope meets the registered contract does not change and  *)
(* is a constant.  Only the user's management actor reaches the mutations, *)
(* and only the broker or the core system the two consume operations.      *)
(***************************************************************************)
EXTENDS Naturals, Sequences, FiniteSets

CONSTANTS
    Clients,       \* concurrent callers
    Requests,      \* exact capability requests
    HighRisk,      \* those for a Tier 3 capability
    Malformed,     \* those that break their capability's contract
    Perms,         \* permission record identifiers
    Keys,          \* permission identities (capability and scope)
    KeyOf,         \* the identity each request needs
    Confs,         \* confirmation identifiers
    TTL,           \* lifetime of a confirmation
    MaxTime,       \* bound: last value of the clock
    MaxRev         \* bound: revisions of one permission

ASSUME AuthorizationAssumption ==
    /\ HighRisk \subseteq Requests /\ Malformed \subseteq Requests
    /\ KeyOf \in [Requests -> Keys]
    /\ Confs # {} /\ Requests # {} /\ Keys # {}
    /\ TTL \in Nat \ {0} /\ MaxTime \in Nat /\ MaxRev \in Nat

VARIABLES
    now,        \* datetime.now(UTC)
    perms,      \* the permission records
    spent,      \* permission.consume_once audit events per permission
    history,    \* confirmation events per confirmation, in sequence order
    usedAt,     \* the clock at the consume event
    calls       \* what each client is doing

vars == <<now, perms, spent, history, usedAt, calls>>

Time == 0..MaxTime
Never == MaxTime + TTL + 1
Mode == {"denied", "ask", "allow_once", "scoped"}

AnyKey == CHOOSE k \in Keys : TRUE
NoPerm == [rev |-> 0, life |-> "none", key |-> AnyKey, mode |-> "denied", expires |-> 0]
Perm == [rev : Nat, life : {"none", "active", "archived"}, key : Keys, mode : Mode,
         expires : Nat]

Event == [action : {"issue", "consume", "revoke"}, request : Requests,
          decision : {"approved", "denied"}, expires : Nat]

AnyRequest == CHOOSE r \in Requests : TRUE
NoConf == "none"

(* A client's call: its program counter, a permission row or a             *)
(* confirmation it has prepared, and the preflight it evaluates.  deadConf *)
(* remembers whether the confirmation was dead when the preflight began.   *)
Idle == [pc |-> "idle", op |-> "none", perm |-> NoConf, row |-> NoPerm,
         request |-> AnyRequest, conf |-> NoConf, decision |-> "denied", clock |-> 0,
         verdict |-> "none", confAsked |-> FALSE, deadConf |-> FALSE]

Init ==
    /\ now = 0
    /\ perms = [p \in Perms |-> NoPerm]
    /\ spent = [p \in Perms |-> 0]
    /\ history = [c \in Confs |-> <<>>]
    /\ usedAt = [c \in Confs |-> 0]
    /\ calls = [cl \in Clients |-> Idle]

Become(cl, call) == calls' = [calls EXCEPT ![cl] = call]
-----------------------------------------------------------------------------
(* Permission records. *)

ActiveWith(k) == {p \in Perms : perms[p].life = "active" /\ perms[p].key = k}

(* _assert_unique_active_identity *)
IdentityFree(k) == ActiveWith(k) = {}

(* PermissionService.create: the identity is checked in the transaction    *)
(* that inserts.                                                           *)
CreatePermission(cl, p, k, mode, expires) ==
    /\ calls[cl].pc = "idle"
    /\ perms[p].life = "none"
    /\ IdentityFree(k)
    /\ perms' = [perms EXCEPT ![p] =
          [rev |-> 1, life |-> "active", key |-> k, mode |-> mode, expires |-> expires]]
    /\ UNCHANGED <<now, spent, history, usedAt, calls>>

(* _decision_from_permission *)
ModeUntilExpiry(p) == IF now < perms[p].expires THEN perms[p].mode ELSE "denied"
EffectiveMode(p) ==
    IF perms[p].life = "active" /\ now < perms[p].expires THEN perms[p].mode ELSE "denied"

(* update, archive and consume_allow_once load and decide first; the       *)
(* transaction comes later.                                                *)
PreparePermission(cl, p, op, row) ==
    /\ calls[cl].pc = "idle"
    /\ perms[p].rev \in 1..(MaxRev - 1)
    /\ Become(cl, [Idle EXCEPT !.pc = "permTxn", !.op = op, !.perm = p, !.row = row])
    /\ UNCHANGED <<now, perms, spent, history, usedAt>>

UpdatePermission(cl, p, mode, expires) ==
    /\ perms[p].life = "active"
    /\ PreparePermission(cl, p, "update",
          [perms[p] EXCEPT !.mode = mode, !.expires = expires])

ArchivePermission(cl, p) ==
    /\ perms[p].life = "active"
    /\ PreparePermission(cl, p, "archive", [perms[p] EXCEPT !.life = "archived"])

ConsumeAllowOnce(cl, p) ==
    /\ EffectiveMode(p) = "allow_once"
    /\ PreparePermission(cl, p, "consume", [perms[p] EXCEPT !.mode = "denied"])

(* refreshed.revision = expected_revision, and WHERE revision = ? *)
RevisionExpected(cl) == perms[calls[cl].perm].rev = calls[cl].row.rev

(* _update_typed_record: the record and its audit event commit together. *)
CommitPermission(cl) ==
    LET p == calls[cl].perm IN
    /\ calls[cl].pc = "permTxn"
    /\ RevisionExpected(cl)
    /\ perms' = [perms EXCEPT ![p] = [calls[cl].row EXCEPT !.rev = perms[p].rev + 1]]
    /\ spent' = [spent EXCEPT ![p] = IF calls[cl].op = "consume" THEN @ + 1 ELSE @]
    /\ Become(cl, Idle)
    /\ UNCHANGED <<now, history, usedAt>>
-----------------------------------------------------------------------------
(* The confirmation ledger. *)

Has(c, action) == \E n \in 1..Len(history[c]) : history[c][n].action = action

Count(c, action) == Cardinality({n \in 1..Len(history[c]) : history[c][n].action = action})

(* The ledger's contradictions, which resolve reports as corrupt. *)
CorruptHistory(c) ==
    \/ Count(c, "issue") # 1
    \/ Count(c, "consume") > 1 \/ Count(c, "revoke") > 1

Revoked(c) == Has(c, "revoke")

NeverConsumed(c) == FALSE
Consumed(c) == Has(c, "consume")

(* resolution_from_events: revoked and consumed come before the decision   *)
(* and its expiry.                                                         *)
Resolution(c, r) ==
    IF history[c] = <<>> THEN "missing"
    ELSE IF CorruptHistory(c) THEN "corrupt"
    ELSE IF history[c][1].request # r THEN "mismatch"
    ELSE IF Revoked(c) THEN "revoked"
    ELSE IF Consumed(c) THEN "consumed"
    ELSE IF history[c][1].decision = "denied" THEN "denied"
    ELSE IF now >= history[c][1].expires THEN "expired" ELSE "approved"

(* The arguments, the target, the destination and the scope of the         *)
(* permission fit the definition of the capability and each other.         *)
MeetsContract(r) == r \notin Malformed

(* issue until its transaction: the contract is checked and the clock read. *)
IssueStart(cl, c, r, decision) ==
    /\ calls[cl].pc = "idle"
    /\ r \in HighRisk /\ MeetsContract(r)
    /\ Become(cl, [Idle EXCEPT !.pc = "issueTxn", !.conf = c, !.request = r,
                               !.decision = decision, !.clock = now])
    /\ UNCHANGED <<now, perms, spent, history, usedAt>>

IssueEvent(cl) ==
    [action |-> "issue", request |-> calls[cl].request, decision |-> calls[cl].decision,
     expires |-> calls[cl].clock + TTL]

(* _append_unique_issue: an identifier is issued once. *)
IdentifierUnused(c) == history[c] = <<>>

IssueCommit(cl) ==
    LET c == calls[cl].conf IN
    /\ calls[cl].pc = "issueTxn"
    /\ IdentifierUnused(c)
    /\ history' = [history EXCEPT ![c] = Append(@, IssueEvent(cl))]
    /\ Become(cl, Idle)
    /\ UNCHANGED <<now, perms, spent, usedAt>>

(* consume: resolved again inside the transaction that appends. *)
Consume(cl, c, r) ==
    /\ calls[cl].pc = "idle"
    /\ Resolution(c, r) = "approved"
    /\ history' = [history EXCEPT ![c] = Append(@, [@[1] EXCEPT !.action = "consume"])]
    /\ usedAt' = [usedAt EXCEPT ![c] = now]
    /\ UNCHANGED <<now, perms, spent, calls>>

(* revoke: any issued confirmation, once, consumed or not. *)
Revoke(cl, c) ==
    /\ calls[cl].pc = "idle"
    /\ history[c] # <<>> /\ ~Has(c, "revoke")
    /\ history' = [history EXCEPT ![c] = Append(@, [@[1] EXCEPT !.action = "revoke"])]
    /\ UNCHANGED <<now, perms, spent, usedAt, calls>>
-----------------------------------------------------------------------------
(* The preflight. *)

(* PermissionService.resolve: only active records are listed.  The mode    *)
(* of several with one identity is StateCorruptError, reported as denied.  *)
Granting(k) ==
    IF \E p \in Perms : ActiveWith(k) = {p}
    THEN (CHOOSE p \in Perms : ActiveWith(k) = {p}) ELSE NoConf

PermissionPasses(k) ==
    LET p == Granting(k)
    IN  p # NoConf /\ perms[p].mode \in {"allow_once", "scoped"} /\ now < perms[p].expires

(* The confirmation is spent, revoked, refused or of another request: it   *)
(* will never authorize r again.                                           *)
ConfDead(c, r) ==
    \/ c = NoConf
    \/ /\ history[c] # <<>>
       /\ \/ Has(c, "revoke") \/ Has(c, "consume")
          \/ history[c][1].request # r \/ history[c][1].decision = "denied"

(* preflight: the checks of the envelope against its definition; a         *)
(* refusal goes straight to its audit event.                               *)
PreflightStart(cl, r, c) ==
    /\ calls[cl].pc = "idle"
    /\ Become(cl, [Idle EXCEPT
          !.pc = IF MeetsContract(r) THEN "permission" ELSE "auditDecision",
          !.request = r, !.conf = c, !.verdict = "denied",
          !.deadConf = ConfDead(c, r)])
    /\ UNCHANGED <<now, perms, spent, history, usedAt>>

PreflightPermission(cl) ==
    LET r == calls[cl].request IN
    /\ calls[cl].pc = "permission"
    /\ \/ /\ ~PermissionPasses(KeyOf[r])
          /\ Become(cl, [calls[cl] EXCEPT !.pc = "auditDecision"])
       \/ /\ PermissionPasses(KeyOf[r]) /\ r \in HighRisk
          /\ Become(cl, [calls[cl] EXCEPT !.pc = "confirmation"])
       \/ /\ PermissionPasses(KeyOf[r]) /\ r \notin HighRisk
          /\ Become(cl, [calls[cl] EXCEPT !.pc = "auditDecision", !.verdict = "authorized"])
    /\ UNCHANGED <<now, perms, spent, history, usedAt>>

PreflightConfirmation(cl) ==
    LET c == calls[cl].conf
        approved == c # NoConf /\ Resolution(c, calls[cl].request) = "approved"
    IN
    /\ calls[cl].pc = "confirmation"
    /\ Become(cl, [calls[cl] EXCEPT !.pc = "auditDecision", !.confAsked = TRUE,
                                   !.verdict = IF approved THEN "authorized" ELSE "denied"])
    /\ UNCHANGED <<now, perms, spent, history, usedAt>>

(* _audit_decision, then _audit_confirmation when a confirmation was       *)
(* resolved; a failed append raises CapabilityAuditError and nothing is    *)
(* returned.                                                               *)
PreflightAudit(cl) ==
    /\ calls[cl].pc \in {"auditDecision", "auditConfirmation"}
    /\ \/ Become(cl, Idle)
       \/ Become(cl, [calls[cl] EXCEPT
             !.pc = IF calls[cl].pc = "auditDecision" /\ calls[cl].confAsked
                    THEN "auditConfirmation" ELSE "returned"])
    /\ UNCHANGED <<now, perms, spent, history, usedAt>>

(* The caller has its decision; a call may end at any time (a transaction  *)
(* that found a stale revision, a lock timeout, a crash).                  *)
EndCall(cl) ==
    /\ calls[cl].pc # "idle"
    /\ Become(cl, Idle)
    /\ UNCHANGED <<now, perms, spent, history, usedAt>>

SetClock(t) ==
    /\ t # now
    /\ now' = t
    /\ UNCHANGED <<perms, spent, history, usedAt, calls>>
-----------------------------------------------------------------------------
Next ==
    \/ \E cl \in Clients, p \in Perms, mode \in Mode, e \in {1, Never} :
          \/ \E k \in Keys : CreatePermission(cl, p, k, mode, e)
          \/ UpdatePermission(cl, p, mode, e)
    \/ \E cl \in Clients, p \in Perms : ArchivePermission(cl, p) \/ ConsumeAllowOnce(cl, p)
    \/ \E cl \in Clients, c \in Confs, r \in Requests :
          \/ \E d \in {"approved", "denied"} : IssueStart(cl, c, r, d)
          \/ Consume(cl, c, r)
    \/ \E cl \in Clients, c \in Confs : Revoke(cl, c)
    \/ \E cl \in Clients, r \in Requests, c \in Confs \union {NoConf} : PreflightStart(cl, r, c)
    \/ \E cl \in Clients :
          \/ CommitPermission(cl) \/ IssueCommit(cl) \/ PreflightPermission(cl)
          \/ PreflightConfirmation(cl) \/ PreflightAudit(cl) \/ EndCall(cl)
    \/ \E t \in Time : SetClock(t)

Spec == Init /\ [][Next]_vars
-----------------------------------------------------------------------------
Call == [pc : {"idle", "permTxn", "issueTxn", "permission", "confirmation",
               "auditDecision", "auditConfirmation", "returned"},
         op : {"none", "update", "archive", "consume"}, perm : Perms \union {NoConf},
         row : Perm, request : Requests, conf : Confs \union {NoConf},
         decision : {"approved", "denied"}, clock : Nat,
         verdict : {"none", "denied", "authorized"},
         confAsked : BOOLEAN, deadConf : BOOLEAN]

TypeOK ==
    /\ now \in Nat
    /\ perms \in [Perms -> Perm]
    /\ spent \in [Perms -> Nat]
    /\ history \in [Confs -> Seq(Event)]
    /\ usedAt \in [Confs -> Nat]
    /\ calls \in [Clients -> Call]

(* No two active permissions share a capability and scope, whatever        *)
(* creations, archivings and updates interleave: resolve never meets        *)
(* "multiple active permission records share one identity".                *)
OneActivePermission ==
    \A p, q \in Perms :
        perms[p].life = "active" /\ perms[q].life = "active" /\ perms[p].key = perms[q].key
            => p = q

(* An allow-once permission is spent once per grant: every consume_once    *)
(* event replaces an active allow_once row by a denied one, although two   *)
(* consumers, or a consumer and the user changing his mind, may have       *)
(* loaded the same row.                                                    *)
AllowOnceSpent ==
    \A p \in Perms : spent'[p] # spent[p] =>
        /\ perms[p].life = "active" /\ perms[p].mode = "allow_once"
        /\ perms'[p].mode = "denied"

(* Permission records, with clients racing on the same two: an identity    *)
(* has one active record at most, an allow-once grant is used once.        *)
PermissionSound == []OneActivePermission /\ [][AllowOnceSpent]_vars

(* A confirmation authorizes at most one operation: its history starts     *)
(* with its only issue, and a consume in it is single, follows no revoke,  *)
(* and was made of an approval that had not expired.  Whatever order       *)
(* clients append in, the service never finds its own history corrupt.     *)
ConfirmationSpentOnce ==
    /\ \A c \in Confs : history[c] # <<>> => ~CorruptHistory(c)
    /\ \A c \in Confs : \A n \in 1..Len(history[c]) :
          /\ history[c][n].action = "issue" <=> n = 1
          /\ history[c][n].action = "consume" =>
                /\ \A m \in 1..(n - 1) : history[c][m].action = "issue"
                /\ history[c][1].decision = "approved"
                /\ usedAt[c] < history[c][1].expires

(* An authorization that is returned was not out of date from the start:   *)
(* a request that breaks its contract, or whose confirmation was revoked,   *)
(* spent, refused or given for another request before the preflight began,  *)
(* is refused, however the preflight's reads interleave with the ledger.    *)
NoStaleAuthorization ==
    \A cl \in Clients :
        calls[cl].pc = "returned" /\ calls[cl].verdict = "authorized" =>
            /\ calls[cl].request \notin Malformed
            /\ calls[cl].request \in HighRisk => ~calls[cl].deadConf

(* The ledger of confirmations and the preflight that reads it, with       *)
(* issues, preflights, uses and revocations in any order and a clock that   *)
(* moves both ways: one use per confirmation, and no verdict on a dead one. *)
ConfirmationSound == TypeOK /\ ConfirmationSpentOnce /\ NoStaleAuthorization
=============================================================================
