------------------------ MODULE AuthorizationProofs ------------------------
(***************************************************************************)
(* Permissions, confirmations, preferences and policies, for any number of *)
(* clients and records: an identity has one active permission record at    *)
(* most, and an allow-once grant is used once; a confirmation is used once *)
(* and authorizes nothing when it is dead; a key has one active setting; a *)
(* credential's grant runs one handler, and its call ends clean.  None of  *)
(* these is inductive: what a client has prepared outside its transaction  *)
(* must agree with the record whenever the revision it was prepared from   *)
(* is still the record's.                                                  *)
(***************************************************************************)
EXTENDS Authorization, Settings, CredentialBroker, FiniteSetTheorems, TLAPS

(* The part of the state that permissions depend on. *)
PermTypeOK ==
    /\ now \in Nat
    /\ perms \in [Perms -> Perm]
    /\ spent \in [Perms -> Nat]
    /\ calls \in [Clients -> Call]

(* A record that was never created has no revision. *)
RowsNumbered == \A p \in Perms : perms[p].life = "none" => perms[p].rev = 0

(* What a client prepared is from a revision the record has had; if it     *)
(* still has it, it is active, has the identity the client will write, and *)
(* is an unused allow-once permission if the client consumes it.           *)
PreparedAgrees(cl) ==
    LET p == calls[cl].perm
        row == calls[cl].row
    IN  /\ p \in Perms
        /\ row.life # "none"
        /\ row.rev # 0 /\ row.rev <= perms[p].rev
        /\ calls[cl].op = "consume" => row.mode = "denied"
        /\ row.rev = perms[p].rev =>
              /\ perms[p].life = "active" /\ row.key = perms[p].key
              /\ calls[cl].op = "consume" => perms[p].mode = "allow_once"

AllPreparedAgree == \A cl \in Clients : calls[cl].pc = "permTxn" => PreparedAgrees(cl)

PInv == PermTypeOK /\ RowsNumbered /\ AllPreparedAgree /\ OneActivePermission

LEMMA KeyType == AnyKey \in Keys
BY AuthorizationAssumption DEF AnyKey

LEMMA RequestType == AnyRequest \in Requests
BY AuthorizationAssumption DEF AnyRequest

LEMMA NoPermType == NoPerm \in Perm
BY KeyType DEF NoPerm, Perm, Mode

LEMMA IdleType == Idle \in Call
BY RequestType, NoPermType DEF Idle, Call, NoConf

LEMMA InitPInv == Init => PInv
<1> SUFFICES ASSUME Init PROVE PInv
  OBVIOUS
<1>1. PermTypeOK
  BY NoPermType, IdleType DEF Init, PermTypeOK
<1>2. RowsNumbered
  BY DEF Init, RowsNumbered, NoPerm
<1>3. AllPreparedAgree
  BY DEF Init, AllPreparedAgree, Idle
<1>4. OneActivePermission
  BY DEF Init, OneActivePermission, NoPerm
<1> QED BY <1>1, <1>2, <1>3, <1>4 DEF PInv

(* A step that changes no permission, after which the client has nothing   *)
(* prepared.                                                               *)
LEMMA OtherStep ==
    ASSUME PInv, NEW cl \in Clients, NEW call \in Call, call.pc # "permTxn",
           calls' = [calls EXCEPT ![cl] = call], UNCHANGED <<now, perms, spent>>
    PROVE  PInv'
<1>1. PermTypeOK'
  BY DEF PInv, PermTypeOK
<1>2. AllPreparedAgree'
  BY DEF PInv, PermTypeOK, AllPreparedAgree, PreparedAgrees
<1> QED BY <1>1, <1>2 DEF PInv, RowsNumbered, OneActivePermission

(* A new record takes an identity that no active record has. *)
LEMMA CreateStep ==
    ASSUME PInv, NEW cl \in Clients, NEW p \in Perms, NEW k \in Keys, NEW mode \in Mode,
           NEW expires \in Nat, CreatePermission(cl, p, k, mode, expires)
    PROVE  PInv'
<1> DEFINE row == [rev |-> 1, life |-> "active", key |-> k, mode |-> mode, expires |-> expires]
<1>1. perms' = [perms EXCEPT ![p] = row] /\ UNCHANGED <<now, spent, calls>>
  BY DEF CreatePermission
<1>2. row \in Perm
  BY DEF Perm
<1>3. PermTypeOK'
  BY <1>1, <1>2 DEF PInv, PermTypeOK
<1>4. perms[p].rev = 0
  BY DEF PInv, RowsNumbered, CreatePermission
<1>5. RowsNumbered'
  BY <1>1 DEF PInv, PermTypeOK, RowsNumbered
<1>6. AllPreparedAgree'
  <2> SUFFICES ASSUME NEW c \in Clients, calls[c].pc = "permTxn" PROVE PreparedAgrees(c)'
    BY <1>1 DEF AllPreparedAgree
  <2>1. PreparedAgrees(c) /\ calls[c].row \in Perm
    BY DEF PInv, AllPreparedAgree, PermTypeOK, Call
  <2>2. calls[c].perm # p
    BY <2>1, <1>4 DEF PreparedAgrees, Perm
  <2> QED BY <1>1, <2>1, <2>2 DEF PreparedAgrees, PInv, PermTypeOK
<1>7. OneActivePermission'
  BY <1>1 DEF PInv, PermTypeOK, OneActivePermission, CreatePermission, IdentityFree, ActiveWith
<1> QED BY <1>3, <1>5, <1>6, <1>7 DEF PInv

(* update, archive and consume_allow_once prepare from an active record. *)
LEMMA PrepareStep ==
    ASSUME PInv, NEW cl \in Clients, NEW p \in Perms, NEW row \in Perm,
           NEW op \in {"update", "archive", "consume"},
           PreparePermission(cl, p, op, row),
           perms[p].life = "active", row.rev = perms[p].rev, row.key = perms[p].key,
           row.life # "none",
           op = "consume" => perms[p].mode = "allow_once" /\ row.mode = "denied"
    PROVE  PInv'
<1> DEFINE call == [Idle EXCEPT !.pc = "permTxn", !.op = op, !.perm = p, !.row = row]
<1>1. calls' = [calls EXCEPT ![cl] = call] /\ UNCHANGED <<now, perms, spent>>
  BY DEF PreparePermission, Become
<1>2. /\ call \in Call
      /\ call.pc = "permTxn" /\ call.op = op /\ call.perm = p /\ call.row = row
  BY IdleType DEF Call, Idle
<1> HIDE DEF call
<1>3. PermTypeOK'
  BY <1>1, <1>2 DEF PInv, PermTypeOK
<1>4. perms[p].rev \in Nat \ {0}
  BY DEF PreparePermission
<1>5. AllPreparedAgree'
  <2> SUFFICES ASSUME NEW c \in Clients, calls'[c].pc = "permTxn" PROVE PreparedAgrees(c)'
    BY DEF AllPreparedAgree
  <2>1. CASE c = cl
    BY <1>1, <1>2, <1>4, <2>1 DEF PreparedAgrees, PInv, PermTypeOK
  <2>2. CASE c # cl
    BY <1>1, <2>2 DEF PreparedAgrees, AllPreparedAgree, PInv, PermTypeOK
  <2> QED BY <2>1, <2>2
<1> QED BY <1>1, <1>3, <1>5 DEF PInv, RowsNumbered, OneActivePermission

(* What a commit finds, by the revision it compares. *)
LEMMA CommitFinds ==
    ASSUME PInv, NEW cl \in Clients, CommitPermission(cl)
    PROVE  LET p == calls[cl].perm
               row == calls[cl].row
           IN  /\ p \in Perms /\ row \in Perm
               /\ row.life # "none" /\ row.key = perms[p].key
               /\ perms[p].life = "active" /\ perms[p].rev \in Nat
               /\ calls[cl].op = "consume" => row.mode = "denied" /\ perms[p].mode = "allow_once"
               /\ perms' = [perms EXCEPT ![p] = [row EXCEPT !.rev = perms[p].rev + 1]]
               /\ spent' = [spent EXCEPT ![p] = IF calls[cl].op = "consume" THEN @ + 1 ELSE @]
               /\ calls' = [calls EXCEPT ![cl] = Idle]
               /\ now' = now
<1>1. PreparedAgrees(cl) /\ RevisionExpected(cl)
  BY DEF PInv, AllPreparedAgree, CommitPermission
<1>2. calls[cl].row \in Perm
  BY DEF PInv, PermTypeOK, Call
<1>3. perms[calls[cl].perm] \in Perm
  BY <1>1 DEF PInv, PermTypeOK, PreparedAgrees
<1> QED BY <1>1, <1>2, <1>3 DEF PreparedAgrees, RevisionExpected, CommitPermission, Become, Perm

LEMMA CommitStep ==
    ASSUME PInv, NEW cl \in Clients, CommitPermission(cl)
    PROVE  PInv'
<1> DEFINE p == calls[cl].perm
           row == calls[cl].row
           new == [row EXCEPT !.rev = perms[p].rev + 1]
<1>1. /\ p \in Perms /\ row \in Perm /\ perms[p].rev \in Nat
      /\ row.life # "none" /\ row.key = perms[p].key
      /\ perms[p].life = "active"
      /\ perms' = [perms EXCEPT ![p] = new]
      /\ spent' = [spent EXCEPT ![p] = IF calls[cl].op = "consume" THEN @ + 1 ELSE @]
      /\ calls' = [calls EXCEPT ![cl] = Idle]
      /\ now' = now
  BY CommitFinds
<1>2. /\ new \in Perm
      /\ new.rev = perms[p].rev + 1 /\ new.life = row.life /\ new.key = row.key
  BY <1>1 DEF Perm
<1> HIDE DEF new, row, p
<1>3. PermTypeOK'
  BY <1>1, <1>2, IdleType DEF PInv, PermTypeOK
<1>4. RowsNumbered'
  BY <1>1, <1>2 DEF PInv, PermTypeOK, RowsNumbered
<1>5. AllPreparedAgree'
  <2> SUFFICES ASSUME NEW c \in Clients, calls'[c].pc = "permTxn" PROVE PreparedAgrees(c)'
    BY DEF AllPreparedAgree
  <2>1. c # cl /\ calls'[c] = calls[c]
    BY <1>1 DEF Idle, PInv, PermTypeOK
  <2>2. PreparedAgrees(c) /\ calls[c].row \in Perm
    BY <2>1 DEF PInv, AllPreparedAgree, PermTypeOK, Call
  <2>3. CASE calls[c].perm = p
    BY <1>1, <1>2, <2>1, <2>2, <2>3 DEF PreparedAgrees, PInv, PermTypeOK, Perm
  <2>4. CASE calls[c].perm # p
    BY <1>1, <2>1, <2>2, <2>4 DEF PreparedAgrees, PInv, PermTypeOK
  <2> QED BY <2>3, <2>4
<1>6. OneActivePermission'
  BY <1>1, <1>2 DEF PInv, PermTypeOK, OneActivePermission
<1> QED BY <1>3, <1>4, <1>5, <1>6 DEF PInv

LEMMA NextPInv == PInv /\ [Next]_vars => PInv'
<1> SUFFICES ASSUME PInv, [Next]_vars PROVE PInv'
  OBVIOUS
<1> USE DEF PInv
<1>0. Never \in Nat /\ 1 \in Nat
  BY AuthorizationAssumption DEF Never
<1>1. ASSUME NEW cl \in Clients, NEW p \in Perms, NEW k \in Keys, NEW mode \in Mode,
             NEW e \in {1, Never}, CreatePermission(cl, p, k, mode, e)
      PROVE  PInv'
  BY <1>0, <1>1, CreateStep
<1>2. ASSUME NEW cl \in Clients, NEW p \in Perms, NEW mode \in Mode, NEW e \in {1, Never},
             UpdatePermission(cl, p, mode, e)
      PROVE  PInv'
  <2> DEFINE row == [perms[p] EXCEPT !.mode = mode, !.expires = e]
  <2>1. perms[p] \in Perm
    BY DEF PermTypeOK
  <2>2. row \in Perm /\ row.rev = perms[p].rev /\ row.key = perms[p].key /\ row.life = perms[p].life
    BY <1>0, <2>1 DEF Perm
  <2>3. perms[p].life = "active" /\ PreparePermission(cl, p, "update", row)
    BY <1>2 DEF UpdatePermission
  <2> QED BY <2>2, <2>3, PrepareStep
<1>3. ASSUME NEW cl \in Clients, NEW p \in Perms, ArchivePermission(cl, p)
      PROVE  PInv'
  <2> DEFINE row == [perms[p] EXCEPT !.life = "archived"]
  <2>1. perms[p] \in Perm
    BY DEF PermTypeOK
  <2>2. row \in Perm /\ row.rev = perms[p].rev /\ row.key = perms[p].key /\ row.life # "none"
    BY <2>1 DEF Perm
  <2>3. perms[p].life = "active" /\ PreparePermission(cl, p, "archive", row)
    BY <1>3 DEF ArchivePermission
  <2> QED BY <2>2, <2>3, PrepareStep
<1>4. ASSUME NEW cl \in Clients, NEW p \in Perms, ConsumeAllowOnce(cl, p)
      PROVE  PInv'
  <2> DEFINE row == [perms[p] EXCEPT !.mode = "denied"]
  <2>1. perms[p] \in Perm
    BY DEF PermTypeOK
  <2>2. /\ row \in Perm /\ row.rev = perms[p].rev /\ row.key = perms[p].key
        /\ row.life = perms[p].life /\ row.mode = "denied"
    BY <2>1 DEF Perm, Mode
  <2>3. /\ perms[p].life = "active" /\ perms[p].mode = "allow_once"
        /\ PreparePermission(cl, p, "consume", row)
    BY <1>4 DEF ConsumeAllowOnce, EffectiveMode
  <2> QED BY <2>2, <2>3, PrepareStep
<1>5. ASSUME NEW cl \in Clients, NEW c \in Confs, NEW r \in Requests,
             NEW d \in {"approved", "denied"}, IssueStart(cl, c, r, d)
      PROVE  PInv'
  <2> DEFINE call == [Idle EXCEPT !.pc = "issueTxn", !.conf = c, !.request = r,
                                  !.decision = d, !.clock = now]
  <2>1. call \in Call /\ call.pc # "permTxn"
    BY <1>5, IdleType DEF Call, Idle, PermTypeOK
  <2> QED BY <1>5, <2>1, OtherStep DEF IssueStart, Become
<1>6. ASSUME NEW cl \in Clients, CommitPermission(cl) PROVE PInv'
  BY <1>6, CommitStep
<1>7. ASSUME NEW cl \in Clients, IssueCommit(cl) \/ EndCall(cl) PROVE PInv'
  <2>1. Idle \in Call /\ Idle.pc # "permTxn"
    BY IdleType DEF Idle
  <2> QED BY <1>7, <2>1, OtherStep DEF IssueCommit, EndCall, Become
<1>8. ASSUME NEW cl \in Clients, NEW r \in Requests, NEW c \in Confs \union {NoConf},
             PreflightStart(cl, r, c)
      PROVE  PInv'
  <2> DEFINE call == [Idle EXCEPT
                         !.pc = IF MeetsContract(r) THEN "permission" ELSE "auditDecision",
                         !.request = r, !.conf = c, !.verdict = "denied",
                         !.deadConf = ConfDead(c, r)]
  <2>1. ConfDead(c, r) \in BOOLEAN
    BY DEF ConfDead
  <2>2. call \in Call /\ call.pc # "permTxn"
    BY <2>1, IdleType DEF Call, Idle
  <2> QED BY <1>8, <2>2, OtherStep DEF PreflightStart, Become
<1>9. ASSUME NEW cl \in Clients, PreflightPermission(cl) PROVE PInv'
  <2>1. calls[cl] \in Call
    BY DEF PermTypeOK
  <2>2. ASSUME NEW step \in {"auditDecision", "confirmation"}
        PROVE  LET call == [calls[cl] EXCEPT !.pc = step]
               IN  call \in Call /\ call.pc # "permTxn"
    BY <2>1 DEF Call
  <2>3. LET call == [calls[cl] EXCEPT !.pc = "auditDecision", !.verdict = "authorized"]
        IN  call \in Call /\ call.pc # "permTxn"
    BY <2>1 DEF Call
  <2> QED BY <1>9, <2>2, <2>3, OtherStep DEF PreflightPermission, Become
<1>10. ASSUME NEW cl \in Clients, PreflightConfirmation(cl) PROVE PInv'
  <2>1. calls[cl] \in Call
    BY DEF PermTypeOK
  <2>2. ASSUME NEW v \in {"authorized", "denied"}
        PROVE  LET call == [calls[cl] EXCEPT !.pc = "auditDecision", !.confAsked = TRUE,
                                             !.verdict = v]
               IN  call \in Call /\ call.pc # "permTxn"
    BY <2>1 DEF Call
  <2>3. PICK v \in {"authorized", "denied"} :
           /\ calls' = [calls EXCEPT ![cl] = [calls[cl] EXCEPT
                           !.pc = "auditDecision", !.confAsked = TRUE, !.verdict = v]]
           /\ UNCHANGED <<now, perms, spent>>
    BY <1>10 DEF PreflightConfirmation, Become
  <2> QED BY <2>2, <2>3, OtherStep
<1>11. ASSUME NEW cl \in Clients, PreflightAudit(cl) PROVE PInv'
  <2>1. calls[cl] \in Call /\ Idle \in Call /\ Idle.pc # "permTxn"
    BY IdleType DEF PermTypeOK, Idle
  <2>2. ASSUME NEW step \in {"auditConfirmation", "returned"}
        PROVE  LET call == [calls[cl] EXCEPT !.pc = step]
               IN  call \in Call /\ call.pc # "permTxn"
    BY <2>1 DEF Call
  <2> QED BY <1>11, <2>1, <2>2, OtherStep DEF PreflightAudit, Become
<1>12. ASSUME UNCHANGED <<perms, spent, calls>>, now' \in Nat PROVE PInv'
  BY <1>12 DEF PermTypeOK, RowsNumbered, AllPreparedAgree, PreparedAgrees, OneActivePermission
<1>13. ASSUME NEW cl \in Clients, NEW c \in Confs, NEW r \in Requests, Consume(cl, c, r)
       PROVE  PInv'
  BY <1>12, <1>13 DEF Consume, PermTypeOK
<1>14. ASSUME NEW cl \in Clients, NEW c \in Confs, Revoke(cl, c) PROVE PInv'
  BY <1>12, <1>14 DEF Revoke, PermTypeOK
<1>15. ASSUME NEW t \in Time, SetClock(t) PROVE PInv'
  <2>1. t \in Nat
    BY AuthorizationAssumption DEF Time
  <2> QED BY <1>12, <1>15, <2>1 DEF SetClock
<1>16. CASE UNCHANGED vars
  BY <1>12, <1>16 DEF vars, PermTypeOK
<1>17. CASE Next
  BY <1>1, <1>2, <1>3, <1>4, <1>5, <1>6, <1>7, <1>8, <1>9, <1>10, <1>11, <1>13, <1>14, <1>15,
     <1>17 DEF Next
<1> QED BY <1>16, <1>17

LEMMA PInvAlways == Spec => []PInv
BY InitPInv, NextPInv, PTL DEF Spec

(* Only the commit of a consume changes how often a permission was spent. *)
LEMMA SpentByCommit ==
    ASSUME Next, NEW p \in Perms, spent'[p] # spent[p]
    PROVE  \E cl \in Clients : CommitPermission(cl)
BY DEF Next, CreatePermission, UpdatePermission, ArchivePermission, ConsumeAllowOnce,
       PreparePermission, IssueStart, IssueCommit, Consume, Revoke, PreflightStart,
       PreflightPermission, PreflightConfirmation, PreflightAudit, EndCall, SetClock

LEMMA NextAllowOnce == PInv /\ [Next]_vars => [AllowOnceSpent]_vars
<1> SUFFICES ASSUME PInv, Next, NEW p \in Perms, spent'[p] # spent[p]
             PROVE  /\ perms[p].life = "active" /\ perms[p].mode = "allow_once"
                    /\ perms'[p].mode = "denied"
  BY DEF AllowOnceSpent
<1>1. PICK cl \in Clients : CommitPermission(cl)
  BY SpentByCommit
<1> DEFINE q == calls[cl].perm
           row == calls[cl].row
<1>2. /\ q \in Perms /\ row \in Perm
      /\ perms[q].life = "active"
      /\ calls[cl].op = "consume" => row.mode = "denied" /\ perms[q].mode = "allow_once"
      /\ perms' = [perms EXCEPT ![q] = [row EXCEPT !.rev = perms[q].rev + 1]]
      /\ spent' = [spent EXCEPT ![q] = IF calls[cl].op = "consume" THEN @ + 1 ELSE @]
  BY <1>1, CommitFinds
<1>3. p = q /\ calls[cl].op = "consume"
  BY <1>2 DEF PInv, PermTypeOK
<1>4. perms'[q] = [row EXCEPT !.rev = perms[q].rev + 1]
  BY <1>2 DEF PInv, PermTypeOK
<1>5. perms'[q].mode = row.mode
  BY <1>2, <1>4 DEF Perm
<1> QED BY <1>2, <1>3, <1>5

(* For any number of clients, permissions and identities: at every moment  *)
(* an identity has one active permission at most, and every use of an      *)
(* allow-once permission replaces an active, unused grant by a refusal,    *)
(* although PermissionService loads and decides before its transaction.    *)
THEOREM PermissionsSound == Spec => PermissionSound
<1>1. PInv => OneActivePermission
  BY DEF PInv
<1> QED BY <1>1, PInvAlways, NextAllowOnce, PTL DEF Spec, PermissionSound
-----------------------------------------------------------------------------
(* The ledger: each action at most once and the issue first; a use comes   *)
(* directly after an approval, at a time before it expires.                *)
LedgerOK ==
    \A c \in Confs :
        LET h == history[c]
        IN  /\ h \in Seq(Event)
            /\ \A n \in 1..Len(h) : h[n].action = "issue" <=> n = 1
            /\ \A m, n \in 1..Len(h) : h[m].action = h[n].action => m = n
            /\ \A n \in 1..Len(h) : h[n].action = "consume" =>
                  n = 2 /\ h[1].decision = "approved" /\ usedAt[c] < h[1].expires

(* What a preflight has established so far: a confirmation that was dead   *)
(* when it began still is.                                                 *)
VerdictOK(cl) ==
    LET call == calls[cl]
    IN  /\ call.pc = "issueTxn" => call.conf \in Confs
        /\ call.pc \in {"permission", "confirmation"} =>
              /\ call.request \notin Malformed /\ call.verdict = "denied"
              /\ call.deadConf => ConfDead(call.conf, call.request)
        /\ call.pc \in {"auditDecision", "auditConfirmation", "returned"} /\ call.verdict = "authorized" =>
              call.request \notin Malformed /\ (call.request \in HighRisk => ~call.deadConf)

CInv ==
    /\ usedAt \in [Confs -> Nat] /\ history \in [Confs -> Seq(Event)]
    /\ LedgerOK
    /\ \A cl \in Clients : VerdictOK(cl)

LEMMA InitCInv == Init => CInv
<1> SUFFICES ASSUME Init PROVE CInv
  OBVIOUS
<1>1. \A c \in Confs : history[c] = <<>> /\ Len(history[c]) = 0
  BY DEF Init
<1>2. LedgerOK
  <2>1. <<>> \in Seq(Event) /\ 1..0 = {}
    OBVIOUS
  <2> QED BY <1>1, <2>1 DEF LedgerOK
<1>3. \A cl \in Clients : VerdictOK(cl)
  BY DEF Init, Idle, VerdictOK
<1> QED BY <1>2, <1>3 DEF Init, CInv

(* A dead confirmation never comes back to life: the ledger only grows. *)
LEMMA DeadStaysDead ==
    ASSUME CInv, NEW c \in Confs, NEW e \in Event,
           history' = [history EXCEPT ![c] = Append(@, e)],
           NEW x \in Confs \union {NoConf}, NEW r \in Requests, ConfDead(x, r)
    PROVE  ConfDead(x, r)'
<1>1. CASE x = NoConf
  BY <1>1 DEF ConfDead
<1>2. CASE x # NoConf /\ x # c
  BY <1>2 DEF ConfDead, Has, CInv
<1>3. CASE x # NoConf /\ x = c
  <2> DEFINE h == history[c]
             g == history'[c]
  <2>1. h \in Seq(Event) /\ g = Append(h, e) /\ h # <<>>
    BY <1>3 DEF CInv, LedgerOK, ConfDead
  <2>2. /\ g # <<>> /\ Len(g) = Len(h) + 1 /\ Len(h) \in Nat \ {0}
        /\ \A n \in 1..Len(h) : g[n] = h[n]
    BY <2>1
  <2> QED BY <1>3, <2>1, <2>2 DEF ConfDead, Has
<1> QED BY <1>1, <1>2, <1>3

(* A dead confirmation is resolved as something else than approved. *)
LEMMA DeadNotApproved ==
    ASSUME NEW c, NEW r, ConfDead(c, r), c # NoConf
    PROVE  Resolution(c, r) # "approved"
BY DEF ConfDead, Resolution, Revoked, Consumed

(* A step that leaves the ledger alone and gives one client a new call. *)
LEMMA VerdictStep ==
    ASSUME PInv, CInv, NEW cl \in Clients, NEW call \in Call,
           calls' = [calls EXCEPT ![cl] = call], UNCHANGED <<history, usedAt>>,
           VerdictOK(cl)'
    PROVE  CInv'
<1>1. LedgerOK'
  BY DEF CInv, LedgerOK
<1>2. \A c, r : ConfDead(c, r)' <=> ConfDead(c, r)
  BY DEF ConfDead, Has
<1>3. ASSUME NEW x \in Clients PROVE VerdictOK(x)'
  <2>1. CASE x = cl
    BY <2>1
  <2>2. CASE x # cl
    BY <1>2, <2>2 DEF CInv, VerdictOK, PInv, PermTypeOK
  <2> QED BY <2>1, <2>2
<1> QED BY <1>1, <1>3 DEF CInv

(* A step that appends one event, which the history allows. *)
LEMMA LedgerStep ==
    ASSUME PInv, CInv, NEW c \in Confs, NEW e \in Event,
           history' = [history EXCEPT ![c] = Append(@, e)],
           usedAt' \in [Confs -> Nat], \A x \in Confs \ {c} : usedAt'[x] = usedAt[x],
           \A n \in 1..Len(history[c]) : history[c][n].action # e.action,
           e.action = "issue" <=> history[c] = <<>>,
           Has(c, "consume") => usedAt'[c] = usedAt[c],
           e.action = "consume" =>
              /\ ~Has(c, "revoke") /\ history[c][1].decision = "approved"
              /\ usedAt'[c] < history[c][1].expires
    PROVE  LedgerOK' /\ history' \in [Confs -> Seq(Event)]
<1> SUFFICES LedgerOK'
  BY DEF CInv
<1> SUFFICES ASSUME NEW x \in Confs
             PROVE  LET h == history'[x]
                    IN  /\ h \in Seq(Event)
                        /\ \A n \in 1..Len(h) : h[n].action = "issue" <=> n = 1
                        /\ \A m, n \in 1..Len(h) : h[m].action = h[n].action => m = n
                        /\ \A n \in 1..Len(h) : h[n].action = "consume" =>
                              n = 2 /\ h[1].decision = "approved" /\ usedAt'[x] < h[1].expires
  BY DEF LedgerOK
<1>1. CASE x # c
  BY <1>1 DEF CInv, LedgerOK
<1>2. CASE x = c
  <2> DEFINE h == history[c]
             g == history'[c]
             k == Len(h)
  <2>1. /\ h \in Seq(Event) /\ k \in Nat
        /\ \A n \in 1..k : h[n].action = "issue" <=> n = 1
        /\ \A m, n \in 1..k : h[m].action = h[n].action => m = n
        /\ \A n \in 1..k : h[n].action = "consume" =>
              n = 2 /\ h[1].decision = "approved" /\ usedAt[c] < h[1].expires
    BY DEF CInv, LedgerOK
  <2>2. /\ g = Append(h, e) /\ g \in Seq(Event) /\ Len(g) = k + 1
        /\ g[k + 1] = e /\ \A n \in 1..k : g[n] = h[n]
    BY <2>1 DEF CInv
  <2>3. h = <<>> <=> k = 0
    BY <2>1
  <2>4. /\ \A n \in 1..k : h[n].action # e.action
        /\ e.action = "issue" <=> k = 0
        /\ \A n \in 1..k : h[n].action = "consume" => usedAt'[c] = usedAt[c]
        /\ e.action = "consume" =>
              /\ \A n \in 1..k : h[n].action # "revoke"
              /\ h[1].decision = "approved" /\ usedAt'[c] < h[1].expires
    BY <2>3 DEF Has
  <2>5. \A n \in 1..k : h[n].action \in {"issue", "consume", "revoke"}
    <3>1. \A n \in 1..k : h[n] \in Event
      BY <2>1
    <3> QED BY <3>1 DEF Event
  <2> HIDE DEF h, g, k
  <2>6. e.action = "consume" => k = 1
    <3> SUFFICES ASSUME e.action = "consume", k # 1 PROVE FALSE
      OBVIOUS
    <3>1. k \in Nat \ {0, 1} /\ 2 \in 1..k
      BY <2>1, <2>4
    <3>2. h[2].action \notin {"issue", "consume", "revoke"}
      BY <2>1, <2>4, <3>1
    <3> QED BY <2>5, <3>1, <3>2
  <2>7. \A n \in 1..(k + 1) : n \in 1..k \/ n = k + 1
    BY <2>1
  <2>8. \A n \in 1..(k + 1) : g[n].action = "issue" <=> n = 1
    BY <2>1, <2>2, <2>4, <2>7
  <2>9. \A m, n \in 1..(k + 1) : g[m].action = g[n].action => m = n
    BY <2>1, <2>2, <2>4, <2>7
  <2>10. \A n \in 1..(k + 1) : g[n].action = "consume" =>
            n = 2 /\ g[1].decision = "approved" /\ usedAt'[c] < g[1].expires
    <3> SUFFICES ASSUME NEW n \in 1..(k + 1), g[n].action = "consume"
                 PROVE  n = 2 /\ g[1].decision = "approved" /\ usedAt'[c] < g[1].expires
      OBVIOUS
    <3>1. CASE n \in 1..k
      <4>1. h[n].action = "consume" /\ 1 \in 1..k
        BY <2>1, <2>2, <3>1
      <4> QED BY <2>1, <2>2, <2>4, <3>1, <4>1
    <3>2. CASE n = k + 1
      <4>1. e.action = "consume" /\ k = 1 /\ g[1] = h[1]
        BY <2>2, <2>6, <3>2
      <4> QED BY <2>4, <3>2, <4>1
    <3> QED BY <2>7, <3>1, <3>2
  <2> QED BY <1>2, <2>2, <2>8, <2>9, <2>10 DEF g
<1> QED BY <1>1, <1>2

(* An event of the ledger beside the calls of the other clients. *)
LEMMA AppendStep ==
    ASSUME PInv, CInv, NEW cl \in Clients, NEW call \in Call, NEW c \in Confs, NEW e \in Event,
           history' = [history EXCEPT ![c] = Append(@, e)],
           calls' = [calls EXCEPT ![cl] = call], call = calls[cl] \/ call = Idle,
           LedgerOK', history' \in [Confs -> Seq(Event)], usedAt' \in [Confs -> Nat]
    PROVE  CInv'
<1> SUFFICES ASSUME NEW x \in Clients PROVE VerdictOK(x)'
  BY DEF CInv
<1>1. CASE calls'[x] = Idle
  BY <1>1 DEF VerdictOK, Idle
<1>2. CASE calls'[x] = calls[x]
  <2>1. calls[x] \in Call /\ VerdictOK(x)
    BY DEF PInv, PermTypeOK, CInv
  <2>2. PICK y \in Confs \union {NoConf}, r \in Requests :
           y = calls[x].conf /\ r = calls[x].request
    BY <2>1 DEF Call
  <2>3. ConfDead(y, r) => ConfDead(y, r)'
    BY DeadStaysDead
  <2>4. ConfDead(calls[x].conf, calls[x].request) => ConfDead(calls[x].conf, calls[x].request)'
    BY <1>2, <2>2, <2>3 DEF ConfDead, Has
  <2> QED BY <1>2, <2>1, <2>4 DEF VerdictOK
<1> QED BY <1>1, <1>2 DEF PInv, PermTypeOK

LEMMA NextCInv == PInv /\ CInv /\ [Next]_vars => CInv'
<1> SUFFICES ASSUME PInv, CInv, [Next]_vars PROVE CInv'
  OBVIOUS
<1>1. PInv'
  BY NextPInv
<1>2. /\ calls \in [Clients -> Call] /\ calls' \in [Clients -> Call] /\ now \in Nat
      /\ \A cl \in Clients : VerdictOK(cl)
  BY <1>1 DEF PInv, PermTypeOK, CInv
<1>3. \A c, r : UNCHANGED history => (ConfDead(c, r)' <=> ConfDead(c, r))
  BY DEF ConfDead, Has
<1>4. ASSUME NEW cl \in Clients, NEW call \in Call, calls' = [calls EXCEPT ![cl] = call],
             UNCHANGED <<history, usedAt>>,
             \/ call.pc = "idle" \/ call.pc = "permTxn"
      PROVE  CInv'
  <2>1. calls'[cl] = call
    BY <1>2, <1>4
  <2>2. VerdictOK(cl)'
    BY <1>4, <2>1 DEF VerdictOK
  <2> QED BY <1>4, <2>2, VerdictStep
<1>5. Idle \in Call /\ Idle.pc = "idle"
  BY IdleType DEF Idle
<1>6. CASE UNCHANGED <<history, usedAt, calls>>
  BY <1>6 DEF CInv, LedgerOK, VerdictOK, ConfDead, Has
<1>7. ASSUME NEW cl \in Clients, NEW p \in Perms,
             \/ \E mode \in Mode, e \in {1, Never} : UpdatePermission(cl, p, mode, e)
             \/ ArchivePermission(cl, p)
             \/ ConsumeAllowOnce(cl, p)
      PROVE  CInv'
  <2>1. PICK op, row : PreparePermission(cl, p, op, row)
    BY <1>7 DEF UpdatePermission, ArchivePermission, ConsumeAllowOnce
  <2> DEFINE call == [Idle EXCEPT !.pc = "permTxn", !.op = op, !.perm = p, !.row = row]
  <2>2. calls' = [calls EXCEPT ![cl] = call] /\ UNCHANGED <<history, usedAt>>
    BY <2>1 DEF PreparePermission, Become
  <2>3. call.pc = "permTxn"
    BY DEF Idle
  <2> HIDE DEF call
  <2>4. call \in Call
    BY <1>2, <2>2
  <2> QED BY <1>4, <2>2, <2>3, <2>4
<1>8. ASSUME NEW cl \in Clients, CommitPermission(cl) \/ EndCall(cl) PROVE CInv'
  BY <1>4, <1>5, <1>8 DEF CommitPermission, EndCall, Become
<1>9. ASSUME NEW cl \in Clients, NEW c \in Confs, NEW r \in Requests,
             NEW d \in {"approved", "denied"}, IssueStart(cl, c, r, d)
      PROVE  CInv'
  <2> DEFINE call == [Idle EXCEPT !.pc = "issueTxn", !.conf = c, !.request = r,
                                  !.decision = d, !.clock = now]
  <2>1. calls' = [calls EXCEPT ![cl] = call] /\ UNCHANGED <<history, usedAt>>
    BY <1>9 DEF IssueStart, Become
  <2>2. call \in Call /\ call.pc = "issueTxn" /\ call.conf = c
    BY <1>2, <1>5 DEF Call, Idle
  <2> HIDE DEF call
  <2>3. VerdictOK(cl)'
    BY <1>2, <2>1, <2>2 DEF VerdictOK
  <2> QED BY <2>1, <2>2, <2>3, VerdictStep
<1>10. ASSUME NEW cl \in Clients, IssueCommit(cl) PROVE CInv'
  <2> DEFINE c == calls[cl].conf
             e == IssueEvent(cl)
  <2>1. /\ calls[cl].pc = "issueTxn" /\ history[c] = <<>> /\ usedAt' = usedAt
        /\ history' = [history EXCEPT ![c] = Append(@, e)] /\ calls' = [calls EXCEPT ![cl] = Idle]
    BY <1>10 DEF IssueCommit, Become, IdentifierUnused
  <2>2. c \in Confs
    BY <1>2, <2>1 DEF VerdictOK
  <2>3. e \in Event /\ e.action = "issue"
    <3>1. /\ calls[cl].request \in Requests /\ calls[cl].decision \in {"approved", "denied"}
          /\ calls[cl].clock + TTL \in Nat
      BY <1>2, AuthorizationAssumption DEF Call
    <3> QED BY <3>1 DEF IssueEvent, Event
  <2> HIDE DEF c, e
  <2>4. Len(history[c]) = 0
    BY <2>1
  <2>5. LedgerOK' /\ history' \in [Confs -> Seq(Event)]
    <3>1. /\ \A n \in 1..Len(history[c]) : history[c][n].action # e.action
          /\ e.action = "issue" <=> history[c] = <<>>
          /\ e.action # "consume" /\ ~Has(c, "consume")
          /\ usedAt' \in [Confs -> Nat] /\ \A x \in Confs \ {c} : usedAt'[x] = usedAt[x]
      BY <2>1, <2>3, <2>4 DEF CInv, Has
    <3> QED BY <2>1, <2>2, <2>3, <3>1, LedgerStep
  <2> QED BY <1>5, <2>1, <2>2, <2>3, <2>5, AppendStep DEF CInv
<1>11. ASSUME NEW cl \in Clients, NEW c \in Confs, NEW r \in Requests, Consume(cl, c, r)
       PROVE  CInv'
  <2> DEFINE h == history[c]
             e == [h[1] EXCEPT !.action = "consume"]
  <2>1. /\ history' = [history EXCEPT ![c] = Append(@, e)]
        /\ usedAt' = [usedAt EXCEPT ![c] = now] /\ calls' = calls
        /\ Resolution(c, r) = "approved"
    BY <1>11 DEF Consume
  <2>2. /\ h # <<>> /\ ~Has(c, "revoke") /\ ~Has(c, "consume")
        /\ h[1].decision # "denied" /\ ~(now >= h[1].expires)
    BY <2>1 DEF Resolution, Revoked, Consumed
  <2>3. h \in Seq(Event) /\ Len(h) \in Nat \ {0} /\ h[1] \in Event
    BY <2>2 DEF CInv, LedgerOK
  <2>4. e \in Event /\ e.action = "consume" /\ h[1].decision = "approved" /\ now < h[1].expires
    BY <1>2, <2>2, <2>3 DEF Event
  <2>5. usedAt' \in [Confs -> Nat] /\ usedAt'[c] = now /\ \A x \in Confs \ {c} : usedAt'[x] = usedAt[x]
    BY <1>2, <2>1 DEF CInv
  <2>6. \A n \in 1..Len(h) : h[n].action # "consume"
    BY <2>2 DEF Has
  <2> HIDE DEF e
  <2>7. LedgerOK' /\ history' \in [Confs -> Seq(Event)]
    <3>1. /\ \A n \in 1..Len(history[c]) : history[c][n].action # e.action
          /\ e.action = "issue" <=> history[c] = <<>>
          /\ ~Has(c, "consume") /\ ~Has(c, "revoke")
          /\ history[c][1].decision = "approved" /\ usedAt'[c] < history[c][1].expires
      BY <2>2, <2>4, <2>5, <2>6
    <3> QED BY <2>1, <2>4, <2>5, <3>1, LedgerStep
  <2>8. calls' = [calls EXCEPT ![cl] = calls[cl]] /\ calls[cl] \in Call
    BY <1>2, <2>1
  <2> QED BY <2>1, <2>4, <2>5, <2>7, <2>8, AppendStep
<1>12. ASSUME NEW cl \in Clients, NEW c \in Confs, Revoke(cl, c) PROVE CInv'
  <2> DEFINE h == history[c]
             e == [h[1] EXCEPT !.action = "revoke"]
  <2>1. /\ history' = [history EXCEPT ![c] = Append(@, e)] /\ UNCHANGED <<usedAt, calls>>
        /\ h # <<>> /\ ~Has(c, "revoke")
    BY <1>12 DEF Revoke
  <2>2. h \in Seq(Event) /\ Len(h) \in Nat \ {0} /\ h[1] \in Event
    BY <2>1 DEF CInv, LedgerOK
  <2>3. e \in Event /\ e.action = "revoke"
    BY <2>2 DEF Event
  <2>4. \A n \in 1..Len(h) : h[n].action # "revoke"
    BY <2>1 DEF Has
  <2> HIDE DEF e
  <2>5. LedgerOK' /\ history' \in [Confs -> Seq(Event)]
    <3>1. /\ \A n \in 1..Len(history[c]) : history[c][n].action # e.action
          /\ e.action = "issue" <=> history[c] = <<>>
          /\ e.action # "consume"
          /\ usedAt' \in [Confs -> Nat] /\ \A x \in Confs : usedAt'[x] = usedAt[x]
      BY <2>1, <2>3, <2>4 DEF CInv
    <3> QED BY <2>1, <2>3, <3>1, LedgerStep
  <2>6. calls' = [calls EXCEPT ![cl] = calls[cl]] /\ calls[cl] \in Call
    BY <1>2, <2>1
  <2> QED BY <2>1, <2>3, <2>5, <2>6, AppendStep DEF CInv
<1>13. ASSUME NEW cl \in Clients, NEW r \in Requests, NEW c \in Confs \union {NoConf},
              PreflightStart(cl, r, c)
       PROVE  CInv'
  <2> DEFINE call == [Idle EXCEPT
                         !.pc = IF MeetsContract(r) THEN "permission" ELSE "auditDecision",
                         !.request = r, !.conf = c, !.verdict = "denied",
                         !.deadConf = ConfDead(c, r)]
  <2>1. calls' = [calls EXCEPT ![cl] = call] /\ UNCHANGED <<history, usedAt>>
    BY <1>13 DEF PreflightStart, Become
  <2>2. /\ call.verdict = "denied" /\ call.request = r /\ call.conf = c
        /\ call.deadConf = ConfDead(c, r)
        /\ call.pc = IF r \notin Malformed THEN "permission" ELSE "auditDecision"
    BY DEF Idle, MeetsContract
  <2> HIDE DEF call
  <2>3. call \in Call /\ calls'[cl] = call
    BY <1>2, <2>1
  <2>4. VerdictOK(cl)'
    BY <1>3, <2>1, <2>2, <2>3 DEF VerdictOK
  <2> QED BY <2>1, <2>3, <2>4, VerdictStep
<1>14. ASSUME NEW cl \in Clients, PreflightPermission(cl) PROVE CInv'
  <2>1. PICK call \in Call :
           /\ calls' = [calls EXCEPT ![cl] = call] /\ UNCHANGED <<history, usedAt>>
           /\ \/ call = [calls[cl] EXCEPT !.pc = "auditDecision"]
              \/ calls[cl].request \in HighRisk /\ call = [calls[cl] EXCEPT !.pc = "confirmation"]
              \/ /\ calls[cl].request \notin HighRisk
                 /\ call = [calls[cl] EXCEPT !.pc = "auditDecision", !.verdict = "authorized"]
    <3>1. calls'[cl] \in Call
      BY <1>2
    <3> QED BY <1>2, <1>14, <3>1 DEF PreflightPermission, Become
  <2>2. calls[cl] \in Call /\ calls[cl].pc = "permission" /\ VerdictOK(cl)
    BY <1>2, <1>14 DEF PreflightPermission
  <2>3. calls'[cl] = call
    BY <1>2, <2>1
  <2>4. calls[cl].request \notin Malformed /\ calls[cl].verdict = "denied"
        /\ (calls[cl].deadConf => ConfDead(calls[cl].conf, calls[cl].request))
    BY <2>2 DEF VerdictOK
  <2>5. /\ call.request = calls[cl].request /\ call.conf = calls[cl].conf
        /\ call.deadConf = calls[cl].deadConf
        /\ call.pc = "confirmation" => call.verdict = "denied"
        /\ call.pc # "confirmation" =>
              call.pc = "auditDecision"
              /\ (call.verdict = "authorized" => call.request \notin HighRisk)
    BY <2>1, <2>2, <2>4 DEF Call
  <2>6. call.pc \in {"auditDecision", "confirmation"}
    BY <2>5
  <2>7. VerdictOK(cl)'
    BY <1>3, <2>1, <2>3, <2>4, <2>5, <2>6 DEF VerdictOK
  <2> QED BY <2>1, <2>7, VerdictStep
<1>15. ASSUME NEW cl \in Clients, PreflightConfirmation(cl) PROVE CInv'
  <2> DEFINE c == calls[cl].conf
             r == calls[cl].request
             approved == c # NoConf /\ Resolution(c, r) = "approved"
             call == [calls[cl] EXCEPT !.pc = "auditDecision", !.confAsked = TRUE,
                                       !.verdict = IF approved THEN "authorized" ELSE "denied"]
  <2>1. /\ calls' = [calls EXCEPT ![cl] = call] /\ UNCHANGED <<history, usedAt>>
        /\ calls[cl].pc = "confirmation"
    BY <1>15 DEF PreflightConfirmation, Become
  <2>2. calls[cl] \in Call /\ VerdictOK(cl)
    BY <1>2
  <2>3. /\ call.pc = "auditDecision" /\ call.request = r /\ call.deadConf = calls[cl].deadConf
        /\ call.verdict = "authorized" => approved
    BY <2>2 DEF Call
  <2>4. approved => ~ConfDead(c, r)
    BY DeadNotApproved
  <2>5. r \notin Malformed /\ (calls[cl].deadConf => ConfDead(c, r))
    BY <2>1, <2>2 DEF VerdictOK
  <2> HIDE DEF call, approved
  <2>6. call \in Call /\ calls'[cl] = call
    BY <1>2, <2>1
  <2>7. VerdictOK(cl)'
    BY <2>3, <2>4, <2>5, <2>6 DEF VerdictOK
  <2> QED BY <2>1, <2>6, <2>7, VerdictStep
<1>16. ASSUME NEW cl \in Clients, PreflightAudit(cl) PROVE CInv'
  <2>1. CASE calls' = [calls EXCEPT ![cl] = Idle]
    BY <1>4, <1>5, <1>16, <2>1 DEF PreflightAudit
  <2>2. ASSUME NEW step \in {"auditConfirmation", "returned"},
               calls' = [calls EXCEPT ![cl] = [calls[cl] EXCEPT !.pc = step]]
        PROVE  CInv'
    <3> DEFINE call == [calls[cl] EXCEPT !.pc = step]
    <3>1. /\ calls[cl] \in Call /\ VerdictOK(cl) /\ UNCHANGED <<history, usedAt>>
          /\ calls[cl].pc \in {"auditDecision", "auditConfirmation"}
      BY <1>2, <1>16 DEF PreflightAudit
    <3>2. call \in Call /\ calls'[cl] = call /\ calls' = [calls EXCEPT ![cl] = call]
      BY <1>2, <2>2, <3>1 DEF Call
    <3>3. /\ call.pc = step /\ call.verdict = calls[cl].verdict
          /\ call.request = calls[cl].request /\ call.deadConf = calls[cl].deadConf
      BY <3>1 DEF Call
    <3> HIDE DEF call
    <3>4. VerdictOK(cl)'
      BY <3>1, <3>2, <3>3 DEF VerdictOK
    <3> QED BY <3>1, <3>2, <3>4, VerdictStep
  <2> QED BY <1>16, <2>1, <2>2 DEF PreflightAudit, Become
<1>17. CASE Next
  <2>1. CASE \E cl \in Clients, p \in Perms, mode \in Mode, e \in {1, Never}, k \in Keys :
                CreatePermission(cl, p, k, mode, e)
    BY <1>6, <2>1 DEF CreatePermission
  <2>2. CASE \E t \in Time : SetClock(t)
    BY <1>6, <2>2 DEF SetClock
  <2> QED BY <1>7, <1>8, <1>9, <1>10, <1>11, <1>12, <1>13, <1>14, <1>15, <1>16, <1>17,
             <2>1, <2>2 DEF Next
<1>18. CASE UNCHANGED vars
  BY <1>6, <1>18 DEF vars
<1> QED BY <1>17, <1>18

(* What the ledger's form means for the events that are counted. *)
LEMMA LedgerSpentOnce == CInv => ConfirmationSpentOnce
<1> SUFFICES ASSUME CInv, NEW c \in Confs
             PROVE  /\ history[c] # <<>> => ~CorruptHistory(c)
                    /\ \A n \in 1..Len(history[c]) :
                          /\ history[c][n].action = "issue" <=> n = 1
                          /\ history[c][n].action = "consume" =>
                                /\ \A m \in 1..(n - 1) : history[c][m].action = "issue"
                                /\ history[c][1].decision = "approved"
                                /\ usedAt[c] < history[c][1].expires
  BY DEF ConfirmationSpentOnce
<1> DEFINE h == history[c]
           At(a) == {n \in 1..Len(h) : h[n].action = a}
<1>1. /\ h \in Seq(Event) /\ Len(h) \in Nat
      /\ \A n \in 1..Len(h) : h[n].action = "issue" <=> n = 1
      /\ \A m, n \in 1..Len(h) : h[m].action = h[n].action => m = n
      /\ \A n \in 1..Len(h) : h[n].action = "consume" =>
            n = 2 /\ h[1].decision = "approved" /\ usedAt[c] < h[1].expires
  BY DEF CInv, LedgerOK
<1>2. ASSUME NEW a PROVE Cardinality(At(a)) \in {0, 1}
  <2>1. CASE At(a) = {}
    BY <2>1, FS_EmptySet
  <2>2. CASE \E n \in At(a) : TRUE
    <3>1. PICK n \in At(a) : At(a) = {n}
      BY <1>1, <2>2
    <3> QED BY <3>1, FS_Singleton
  <2> QED BY <2>1, <2>2
<1>3. h # <<>> => At("issue") = {1}
  BY <1>1
<1>4. h # <<>> => Cardinality(At("issue")) = 1
  BY <1>3, FS_Singleton
<1>5. h # <<>> => ~CorruptHistory(c)
  <2>1. ~(Cardinality(At("consume")) > 1) /\ ~(Cardinality(At("revoke")) > 1)
    <3>1. Cardinality(At("consume")) \in {0, 1} /\ Cardinality(At("revoke")) \in {0, 1}
      BY <1>2
    <3> HIDE DEF At
    <3> QED BY <3>1
  <2> QED BY <1>4, <2>1 DEF CorruptHistory, Count
<1>6. ASSUME NEW n \in 1..Len(h), h[n].action = "consume", NEW m \in 1..(n - 1)
      PROVE  h[m].action = "issue"
  <2>1. n = 2 /\ m = 1 /\ 1 \in 1..Len(h)
    BY <1>1, <1>6
  <2> QED BY <1>1, <2>1
<1> QED BY <1>1, <1>5, <1>6

(* For any number of clients and confirmations, and a clock set forwards    *)
(* and backwards: a confirmation is used once at most, of an approval that  *)
(* had not expired and before any revocation, the history the service reads *)
(* back is never corrupt, and no preflight authorizes on a confirmation     *)
(* that was dead when it began (confirmation.py, confirmation_preflight.py).*)
THEOREM ConfirmationsSound == Spec => []ConfirmationSound
<1>1. PInv /\ CInv => ConfirmationSound
  <2> SUFFICES ASSUME PInv, CInv PROVE ConfirmationSound
    OBVIOUS
  <2>1. history \in [Confs -> Seq(Event)]
    BY DEF CInv, LedgerOK
  <2>2. TypeOK
    BY <2>1 DEF TypeOK, PInv, PermTypeOK, CInv
  <2>3. NoStaleAuthorization
    BY DEF NoStaleAuthorization, CInv, VerdictOK
  <2> QED BY <2>2, <2>3, LedgerSpentOnce DEF ConfirmationSound
<1> QED BY <1>1, InitCInv, NextCInv, PInvAlways, PTL DEF Spec
-----------------------------------------------------------------------------
(* Preferences and policies.  A caller may name any revision the record has *)
(* had; what was prepared matters only if that is still the record's, and   *)
(* then the record is the one it was prepared from.                        *)
ChangeAgrees(u) ==
    LET w == change[u]
    IN  /\ w.id \in Settings
        /\ w.expected # 0 /\ w.expected <= setting[w.id].rev
        /\ w.expected = setting[w.id].rev =>
              /\ setting[w.id].life = "active"
              /\ w.row.life \in {"active", "archived"}
              /\ w.row.name = setting[w.id].name
              /\ w.row.life = "archived" => w.row.value = setting[w.id].value

(* A record that was never created has no revision, and no other has none. *)
SettingsNumbered == \A s \in Settings : setting[s].life = "none" <=> setting[s].rev = 0

SInv ==
    /\ SettingsTypeOK /\ SettingsNumbered /\ OneActiveSetting
    /\ \A u \in Users : change[u] # NoChange => ChangeAgrees(u)

LEMMA InitSInv == SettingsInit => SInv
<1> SUFFICES ASSUME SettingsInit PROVE SInv
  OBVIOUS
<1>1. (CHOOSE n \in Names : TRUE) \in Names
  BY SettingsAssumption
<1>2. NoSetting \in SettingRow
  BY <1>1 DEF NoSetting, SettingRow, Values
<1>3. SettingsTypeOK
  BY <1>2 DEF SettingsInit, SettingsTypeOK, NoChange
<1>4. \A s \in Settings : setting[s].life = "none" /\ setting[s].rev = 0
  BY DEF SettingsInit, NoSetting
<1> QED BY <1>3, <1>4 DEF SInv, SettingsInit, SettingsNumbered, OneActiveSetting

(* A change of one record, to a revision above the one it had, leaves what *)
(* was prepared for any record as it should be.                            *)
LEMMA OthersAgree ==
    ASSUME SInv, NEW s \in Settings, NEW r \in SettingRow, r.rev > setting[s].rev,
           setting' = [setting EXCEPT ![s] = r],
           NEW u \in Users, change'[u] = change[u], change[u] # NoChange
    PROVE  ChangeAgrees(u)'
<1>1. change[u].id \in Settings /\ change[u].expected \in Nat /\ setting[s].rev \in Nat
  BY DEF SInv, SettingsTypeOK, SettingRow, ChangeAgrees
<1>2. setting'[s] = r /\ \A t \in Settings \ {s} : setting'[t] = setting[t]
  BY DEF SInv, SettingsTypeOK
<1>3. CASE change[u].id # s
  BY <1>1, <1>2, <1>3 DEF SInv, ChangeAgrees
<1>4. CASE change[u].id = s
  <2>1. change[u].expected < r.rev
    BY <1>1, <1>4 DEF SInv, ChangeAgrees, SettingRow
  <2> QED BY <2>1, <1>1, <1>2, <1>4 DEF SInv, ChangeAgrees, SettingRow
<1> QED BY <1>3, <1>4

LEMMA CreateSInv ==
    ASSUME SInv, NEW u \in Users, NEW s \in Settings, NEW n \in Names, CreateSetting(u, s, n)
    PROVE  SInv' /\ ArchivedStays
<1> DEFINE r == [rev |-> 1, life |-> "active", name |-> n, value |-> "before"]
<1>1. r \in SettingRow
  BY DEF SettingRow, Values
<1>2. setting[s].life = "none" /\ setting[s].rev = 0
  BY DEF CreateSetting, SInv, SettingsNumbered
<1>3. setting' = [setting EXCEPT ![s] = r] /\ change' = change
  BY DEF CreateSetting
<1>4. setting'[s] = r /\ \A t \in Settings \ {s} : setting'[t] = setting[t]
  BY <1>3 DEF SInv, SettingsTypeOK
<1>5. SettingsTypeOK'
  BY <1>1, <1>3 DEF SInv, SettingsTypeOK
<1>6. SettingsNumbered'
  BY <1>4 DEF SInv, SettingsNumbered
<1>7. \A t \in Settings : ~(setting[t].life = "active" /\ setting[t].name = n)
  BY DEF CreateSetting, ActiveNamed
<1>8. OneActiveSetting'
  BY <1>4, <1>7 DEF SInv, OneActiveSetting
<1>9. \A c \in Users : change'[c] # NoChange => ChangeAgrees(c)'
  <2> SUFFICES ASSUME NEW c \in Users, change'[c] # NoChange PROVE ChangeAgrees(c)'
    OBVIOUS
  <2>1. r.rev > setting[s].rev
    BY <1>2
  <2> HIDE DEF r
  <2> QED BY <2>1, <1>1, <1>3, OthersAgree
<1>10. ArchivedStays
  BY <1>2, <1>4 DEF ArchivedStays
<1>11. NoChange' = NoChange
  BY DEF NoChange, NoSetting
<1> QED BY <1>5, <1>6, <1>8, <1>9, <1>10, <1>11 DEF SInv

LEMMA PrepareSInv ==
    ASSUME SInv, NEW u \in Users, NEW s \in Settings, NEW e, NEW r \in SettingRow,
           Prepare(u, s, e, r), r.life \in {"active", "archived"}, r.name = setting[s].name,
           r.life = "archived" => r.value = setting[s].value
    PROVE  SInv' /\ ArchivedStays
<1> DEFINE w == [id |-> s, expected |-> e, row |-> r]
<1>1. setting' = setting /\ change' = [change EXCEPT ![u] = w]
  BY DEF Prepare
<1>2. setting[s].life = "active" /\ setting[s].rev \in Nat /\ e \in Nat /\ e # 0 /\ e <= setting[s].rev
  BY DEF Prepare, SInv, SettingsTypeOK, SettingRow
<1>3. change'[u] = w /\ \A c \in Users \ {u} : change'[c] = change[c]
  BY <1>1 DEF SInv, SettingsTypeOK
<1>4. SettingsTypeOK'
  <2>1. w \in [id : Settings \union {"none"}, expected : Nat, row : SettingRow]
    BY <1>2
  <2> QED BY <2>1, <1>1 DEF SInv, SettingsTypeOK
<1>5. SettingsNumbered' /\ OneActiveSetting' /\ ArchivedStays
  BY <1>1 DEF SInv, SettingsNumbered, OneActiveSetting, ArchivedStays
<1>6. ChangeAgrees(u)'
  BY <1>1, <1>2, <1>3 DEF ChangeAgrees
<1>7. \A c \in Users \ {u} : change'[c] # NoChange => ChangeAgrees(c)'
  BY <1>1, <1>3 DEF SInv, ChangeAgrees
<1> QED BY <1>4, <1>5, <1>6, <1>7 DEF SInv

(* The transaction compares the revision: if it is what the caller named,  *)
(* the record it replaces is active and has the name that is written.      *)
LEMMA CommitSInv ==
    ASSUME SInv, NEW u \in Users, CommitSetting(u)
    PROVE  SInv' /\ ArchivedStays
<1> DEFINE s == change[u].id
           r == [change[u].row EXCEPT !.rev = change[u].expected + 1]
<1>1. /\ change[u] # NoChange /\ ChangeAgrees(u) /\ setting[s].rev = change[u].expected
      /\ setting' = [setting EXCEPT ![s] = r] /\ change' = [change EXCEPT ![u] = NoChange]
  BY DEF CommitSetting, Expected, SInv
<1>2. /\ s \in Settings /\ change[u].expected \in Nat /\ change[u].row \in SettingRow
      /\ change[u] \in [id : Settings \union {"none"}, expected : Nat, row : SettingRow]
  BY <1>1 DEF ChangeAgrees, SInv, SettingsTypeOK
<1>3. r \in SettingRow /\ r.rev = setting[s].rev + 1 /\ r.life = change[u].row.life
      /\ r.name = change[u].row.name /\ r.value = change[u].row.value
  BY <1>1, <1>2 DEF SettingRow
<1>4. /\ setting[s].life = "active" /\ r.life \in {"active", "archived"}
      /\ r.name = setting[s].name /\ (r.life = "archived" => r.value = setting[s].value)
  BY <1>1, <1>3 DEF ChangeAgrees
<1> HIDE DEF r, s
<1>5. setting'[s] = r /\ \A t \in Settings \ {s} : setting'[t] = setting[t]
  BY <1>1, <1>2 DEF SInv, SettingsTypeOK
<1>6. NoChange \in [id : Settings \union {"none"}, expected : Nat, row : SettingRow]
  BY SettingsAssumption DEF NoChange, NoSetting, SettingRow, Values
<1>7. SettingsTypeOK'
  BY <1>1, <1>2, <1>3, <1>6 DEF SInv, SettingsTypeOK
<1>8. setting[s].rev \in Nat
  BY <1>2 DEF SInv, SettingsTypeOK, SettingRow
<1>9. SettingsNumbered'
  BY <1>2, <1>3, <1>4, <1>5, <1>8 DEF SInv, SettingsNumbered
<1>10. OneActiveSetting'
  BY <1>2, <1>4, <1>5 DEF SInv, OneActiveSetting
<1>11. ArchivedStays
  BY <1>2, <1>4, <1>5 DEF ArchivedStays
<1>12. \A c \in Users : change'[c] # NoChange => ChangeAgrees(c)'
  <2> SUFFICES ASSUME NEW c \in Users, change'[c] # NoChange PROVE ChangeAgrees(c)'
    OBVIOUS
  <2>1. change'[c] = change[c]
    BY <1>1 DEF SInv, SettingsTypeOK
  <2>2. r.rev > setting[s].rev
    BY <1>3, <1>8
  <2> QED BY <2>1, <2>2, <1>1, <1>2, <1>3, OthersAgree
<1> QED BY <1>7, <1>9, <1>10, <1>11, <1>12 DEF SInv

LEMMA AbandonSInv ==
    ASSUME SInv, NEW u \in Users, AbandonSetting(u)
    PROVE  SInv' /\ ArchivedStays
<1>1. setting' = setting /\ change' = [change EXCEPT ![u] = NoChange]
  BY DEF AbandonSetting
<1>2. NoChange \in [id : Settings \union {"none"}, expected : Nat, row : SettingRow]
  BY SettingsAssumption DEF NoChange, NoSetting, SettingRow, Values
<1>3. SettingsTypeOK' /\ SettingsNumbered' /\ OneActiveSetting' /\ ArchivedStays
  BY <1>1, <1>2 DEF SInv, SettingsTypeOK, SettingsNumbered, OneActiveSetting, ArchivedStays
<1>4. \A c \in Users : change'[c] # NoChange => change'[c] = change[c]
  BY <1>1 DEF SInv, SettingsTypeOK
<1>5. \A c \in Users : change'[c] # NoChange => ChangeAgrees(c)'
  BY <1>1, <1>4 DEF SInv, ChangeAgrees
<1> QED BY <1>3, <1>5 DEF SInv

LEMMA NextSInv == SInv /\ [SettingsNext]_settingVars => SInv' /\ [ArchivedStays]_settingVars
<1> SUFFICES ASSUME SInv, [SettingsNext]_settingVars
             PROVE  SInv' /\ [ArchivedStays]_settingVars
  OBVIOUS
<1>1. CASE UNCHANGED settingVars
  BY <1>1 DEF settingVars, SInv, SettingsTypeOK, SettingsNumbered, OneActiveSetting, ChangeAgrees
<1>2. ASSUME NEW u \in Users, NEW s \in Settings, NEW n \in Names, CreateSetting(u, s, n)
      PROVE  SInv' /\ ArchivedStays
  BY <1>2, CreateSInv
<1>3. ASSUME NEW u \in Users, NEW s \in Settings, NEW e \in 1 .. MaxChanges, ArchiveSetting(u, s, e)
      PROVE  SInv' /\ ArchivedStays
  <2> DEFINE r == [setting[s] EXCEPT !.life = "archived"]
  <2>1. setting[s] \in SettingRow
    BY DEF SInv, SettingsTypeOK
  <2>2. r \in SettingRow /\ r.life = "archived" /\ r.name = setting[s].name
        /\ r.value = setting[s].value
    BY <2>1 DEF SettingRow
  <2>3. Prepare(u, s, e, r)
    BY <1>3 DEF ArchiveSetting
  <2> HIDE DEF r
  <2> QED BY <2>2, <2>3, PrepareSInv
<1>4. ASSUME NEW u \in Users, NEW s \in Settings, NEW e \in 1 .. MaxChanges, NEW v \in Values,
             UpdateSetting(u, s, e, v)
      PROVE  SInv' /\ ArchivedStays
  <2> DEFINE r == [setting[s] EXCEPT !.value = v]
  <2>1. setting[s] \in SettingRow
    BY DEF SInv, SettingsTypeOK
  <2>2. Prepare(u, s, e, r)
    BY <1>4 DEF UpdateSetting
  <2>3. setting[s].life = "active"
    BY <2>2 DEF Prepare
  <2>4. r \in SettingRow /\ r.life = "active" /\ r.name = setting[s].name
    BY <2>1, <2>3 DEF SettingRow
  <2> HIDE DEF r
  <2> QED BY <2>2, <2>4, PrepareSInv
<1>5. CASE SettingsNext
  BY <1>2, <1>3, <1>4, <1>5, CommitSInv, AbandonSInv DEF SettingsNext
<1> QED BY <1>1, <1>5

(* Preferences and policies, for any number of callers, records and keys:  *)
(* one record of a key is active at most, and what was archived stays,     *)
(* with the value it had, whatever was prepared from older reads           *)
(* (PreferenceService, PolicyService, _update_typed_record).               *)
THEOREM SettingsAlwaysSound == SettingsSpec => SettingsSound
<1>1. SInv => SettingsTypeOK /\ OneActiveSetting
  BY DEF SInv
<1> QED BY <1>1, InitSInv, NextSInv, PTL DEF SettingsSpec, SettingsSound
-----------------------------------------------------------------------------
(* The credential broker.  What its properties say of the calls whose      *)
(* handler ran and of the calls that ended is not inductive: it rests on   *)
(* what is true of a call at every one of its steps, and on a grant being  *)
(* held by one call from the moment it is consumed.                        *)

(* The labels at which a call holds open material, and those at which it   *)
(* is a holder of its grant.                                               *)
OpenLabels == {"lookupPost", "lookupPostClock", "held", "heldClock", "start", "handler"}
ClosedLabels == {"postcheck", "postcheckClock", "prepare", "storeClock", "lookup",
                 "lookupClock", "adapter"}
ReturnLabels == {"override", "overrideClock"}

(* The call has consumed its grant and not failed since, or its handler    *)
(* has run.                                                                *)
Holds(c) ==
    \/ pc[c] \in ClosedLabels \union OpenLabels \union ReturnLabels
    \/ c \in ran

(* Where a call is on the audited and authorized path. *)
CallAuthorized(c) ==
    /\ c \in attempted => pc[c] # "idle"
    /\ pc[c] \in {"precheck", "precheckClock", "scopes", "consume"} => c \in attempted
    /\ Holds(c) => /\ c \in attempted
                   /\ grant[c] \in consumed /\ grant[c] \in issued
                   /\ GrantMatches(c)
    /\ c \in ran => pc[c] \in ReturnLabels \union {"handler", "terminal", "done"}
    /\ pc[c] \in ReturnLabels \union {"handler"} => c \in ran

(* The secret material a call holds, by the step it is at. *)
CallMaterial(c) ==
    /\ material[c] = "open" => pc[c] \in OpenLabels \union {"terminal"}
    /\ pc[c] \in OpenLabels => material[c] = "open"
    /\ c \in ran /\ pc[c] = "terminal" => material[c] # "open"

(* The result a call carries once its handler ended or it failed. *)
CallResult(c) ==
    /\ pc[c] \in ReturnLabels \union {"terminal", "done"} =>
          /\ completion[c] = "not_started" => c \notin ran
          /\ completion[c] = "completed" => outcome[c] \in {"succeeded", "completed"}
          /\ failure[c] = "none" => outcome[c] = "succeeded"
    /\ pc[c] = "done" /\ failure[c] = "none" => c \in recorded

CallOK(c) == CallAuthorized(c) /\ CallMaterial(c) /\ CallResult(c)

CallsOK == \A c \in Calls : CallOK(c)

(* A consumed grant is held by one call. *)
OneHolder ==
    \A c, d \in Calls : Holds(c) /\ Holds(d) /\ grant[c] = grant[d] => c = d

(* A consumed grant was presented by a call whose attempt is audited. *)
ConsumedAudited == \A g \in consumed : \E c \in attempted : grant[c] = g

BInv == BrokerTypeOK /\ CallsOK /\ OneHolder /\ ConsumedAudited
-----------------------------------------------------------------------------
LEMMA InitBInv == BrokerInit => BInv
<1> SUFFICES ASSUME BrokerInit PROVE BInv
  OBVIOUS
<1>1. (CHOOSE i \in Intents : TRUE) \in Intents /\ (CHOOSE g \in Grants : TRUE) \in Grants
  BY BrokerAssumption
<1>2. BrokerTypeOK
  BY <1>1 DEF BrokerInit, BrokerTypeOK, PC, Outcome, Failure, Completion
<1>3. CallsOK
  BY DEF BrokerInit, CallsOK, CallOK, CallAuthorized, CallMaterial, CallResult, Holds,
         OpenLabels, ClosedLabels, ReturnLabels
<1>4. OneHolder
  BY DEF BrokerInit, OneHolder, Holds, OpenLabels, ClosedLabels, ReturnLabels
<1>5. ConsumedAudited
  BY DEF BrokerInit, ConsumedAudited
<1> QED BY <1>2, <1>3, <1>4, <1>5 DEF BInv

(* What a step of another call leaves alone. *)
Same(d) ==
    /\ pc'[d] = pc[d] /\ grant'[d] = grant[d] /\ intent'[d] = intent[d]
    /\ deadline'[d] = deadline[d]
    /\ d \in lateAnswer' <=> d \in lateAnswer
    /\ d \in lateReturn' <=> d \in lateReturn
    /\ material'[d] = material[d] /\ outcome'[d] = outcome[d]
    /\ failure'[d] = failure[d] /\ completion'[d] = completion[d]
    /\ d \in ran' <=> d \in ran
    /\ d \in attempted' <=> d \in attempted
    /\ d \in recorded' <=> d \in recorded

(* A step of one call keeps what is true of the others. *)
LEMMA FrameStep ==
    ASSUME CallsOK, NEW c \in Calls, \A d \in Calls \ {c} : Same(d),
           issued \subseteq issued', consumed \subseteq consumed', grantIntent' = grantIntent,
           CallOK(c)'
    PROVE  CallsOK'
<1> SUFFICES ASSUME NEW d \in Calls, d # c PROVE CallOK(d)'
  BY DEF CallsOK
<1>1. Same(d) /\ CallOK(d)
  BY DEF CallsOK
<1>2. Holds(d)' <=> Holds(d)
  BY <1>1 DEF Same, Holds
<1>3. CallAuthorized(d)'
  BY <1>1, <1>2 DEF Same, CallOK, CallAuthorized, GrantMatches
<1>4. CallMaterial(d)'
  BY <1>1 DEF Same, CallOK, CallMaterial
<1>5. CallResult(d)'
  BY <1>1 DEF Same, CallOK, CallResult
<1> QED BY <1>3, <1>4, <1>5 DEF CallOK

(* A step of a call that consumes no grant: it cannot come to hold one. *)
LEMMA CallStep ==
    ASSUME BInv, BrokerTypeOK', NEW c \in Calls, \A d \in Calls \ {c} : Same(d),
           UNCHANGED authVars, grant' = grant, attempted \subseteq attempted',
           CallOK(c)', Holds(c)' => Holds(c)
    PROVE  BInv'
<1>1. CallsOK'
  BY FrameStep DEF BInv, authVars
<1>2. OneHolder'
  BY DEF BInv, OneHolder, Same, Holds
<1>3. ConsumedAudited'
  BY DEF BInv, ConsumedAudited, authVars
<1> QED BY <1>1, <1>2, <1>3 DEF BInv
-----------------------------------------------------------------------------
(* The actions, one lemma each.  Issue gives a new identifier its intent:  *)
(* no call holds a grant that was not issued.                              *)
LEMMA IssueStep ==
    ASSUME BInv, NEW g \in Grants, NEW i \in Intents, Issue(g, i)
    PROVE  BInv'
<1> USE DEF Issue, callVars, useVars, resultVars, auditVars, lateVars
<1>1. BrokerTypeOK'
  BY BrokerAssumption DEF BInv, BrokerTypeOK
<1>2. CallsOK'
  <2> SUFFICES ASSUME NEW c \in Calls PROVE CallOK(c)'
    BY DEF CallsOK
  <2>1. CallOK(c) /\ grant[c] \in Grants
    BY DEF BInv, CallsOK, BrokerTypeOK
  <2>2. CallAuthorized(c)'
    BY <2>1 DEF CallOK, CallAuthorized, GrantMatches, Holds, BInv, BrokerTypeOK
  <2> QED BY <2>1, <2>2 DEF CallOK, CallMaterial, CallResult
<1>3. OneHolder' /\ ConsumedAudited'
  BY DEF BInv, OneHolder, ConsumedAudited, Holds
<1> QED BY <1>1, <1>2, <1>3 DEF BInv

LEMMA ExecuteStep ==
    ASSUME BInv, NEW c \in Calls, NEW i \in Intents, NEW g \in Grants, Execute(c, i, g)
    PROVE  BInv'
<1> USE DEF Execute, Proceed, Goto, authVars, useVars, resultVars, auditVars, lateVars
<1>1. BrokerTypeOK'
  BY BrokerAssumption DEF BInv, BrokerTypeOK, PC
<1>2. \A d \in Calls \ {c} : Same(d)
  BY DEF Same, BInv, BrokerTypeOK
<1>3. pc[c] = "idle" /\ pc'[c] = "attempt" /\ CallOK(c) /\ c \notin attempted /\ c \notin ran
  BY DEF BInv, BrokerTypeOK, CallsOK, CallOK, CallAuthorized, OpenLabels, ClosedLabels, ReturnLabels
<1>4. CallOK(c)'
  BY <1>3 DEF CallOK, CallAuthorized, CallMaterial, CallResult, Holds,
              OpenLabels, ClosedLabels, ReturnLabels
<1>5. CallsOK'
  BY <1>2, <1>4, FrameStep DEF BInv
<1>6. OneHolder'
  BY <1>2, <1>3 DEF BInv, OneHolder, Same, Holds, OpenLabels, ClosedLabels, ReturnLabels
<1>7. ConsumedAudited'
  BY <1>2, <1>3 DEF BInv, ConsumedAudited, Same, BrokerTypeOK
<1> QED BY <1>1, <1>5, <1>6, <1>7 DEF BInv

LEMMA RecordAttemptStep ==
    ASSUME BInv, NEW c \in Calls, RecordAttempt(c)
    PROVE  BInv'
<1> USE DEF RecordAttempt, Proceed, Goto, AfterFailedAttempt, callVars, useVars, resultVars,
            lateVars
<1>1. BrokerTypeOK'
  BY DEF BInv, BrokerTypeOK, PC, Failure, Completion, authVars
<1>2. \A d \in Calls \ {c} : Same(d)
  BY DEF Same, BInv, BrokerTypeOK
<1>3. CallOK(c) /\ pc[c] = "attempt" /\ c \notin ran
  BY DEF BInv, CallsOK, CallOK, CallAuthorized, ReturnLabels
<1> USE DEF OpenLabels, ClosedLabels, ReturnLabels
<1>4. CallOK(c)' /\ ~Holds(c)'
  <2>1. CASE attempted' = attempted \union {c} /\ Proceed(c, "precheck")
    <3>1. pc'[c] = "precheck" /\ c \in attempted'
      BY <2>1 DEF BInv, BrokerTypeOK
    <3> QED BY <1>3, <3>1 DEF CallOK, CallAuthorized, CallMaterial, CallResult, Holds
  <2>2. CASE /\ failure' = [failure EXCEPT ![c] = "audit"]
             /\ completion' = [completion EXCEPT ![c] = "not_started"]
             /\ Goto(c, AfterFailedAttempt)
    <3>1. pc'[c] = "done" /\ failure'[c] = "audit" /\ completion'[c] = "not_started"
      BY <2>2 DEF BInv, BrokerTypeOK
    <3> QED BY <1>3, <3>1 DEF CallOK, CallAuthorized, CallMaterial, CallResult, Holds
  <2> QED BY <2>1, <2>2
<1>5. attempted \subseteq attempted'
  OBVIOUS
<1> QED BY <1>1, <1>2, <1>4, <1>5, CallStep

(* A result is on its way to the audit log: nothing but a code and a       *)
(* completion is added to the call.                                        *)
LEMMA FinishStep ==
    ASSUME BInv, NEW c \in Calls, NEW f \in Failure \ {"none"}, Finish(c, f, "not_started"),
           pc[c] # "idle", c \notin ran,
           instant' = instant, cancelled' = cancelled, ran' = ran, outcome' = outcome,
           UNCHANGED <<authVars, callVars, auditVars, lateVars>>,
           material' = material \/ CloseMaterial(c)
    PROVE  BInv'
<1> USE DEF Finish, Goto, authVars, callVars, auditVars, lateVars, CloseMaterial
<1>1. BrokerTypeOK'
  BY DEF BInv, BrokerTypeOK, PC, Completion
<1>2. \A d \in Calls \ {c} : Same(d)
  BY DEF Same, BInv, BrokerTypeOK
<1>3. /\ pc'[c] = "terminal" /\ completion'[c] = "not_started" /\ failure'[c] = f
      /\ CallOK(c)
  BY DEF BInv, BrokerTypeOK, CallsOK
<1>4. CallOK(c)' /\ ~Holds(c)'
  BY <1>3 DEF CallOK, CallAuthorized, CallMaterial, CallResult, Holds,
              OpenLabels, ClosedLabels, ReturnLabels
<1> QED BY <1>1, <1>2, <1>4, CallStep

LEMMA Codes == {"cancelled", "timeout", "denied", "store"} \subseteq Failure \ {"none"}
BY DEF Failure

(* A call whose attempt is audited goes on in _preflight, before it has    *)
(* consumed anything.                                                      *)
LEMMA PreflightStep ==
    ASSUME BInv, NEW c \in Calls, pc[c] \in {"precheck", "precheckClock", "scopes"},
           NEW l \in {"precheckClock", "scopes", "consume"}, Goto(c, l), UNCHANGED resultVars,
           instant' = instant, cancelled' = cancelled,
           UNCHANGED <<authVars, callVars, useVars, auditVars, lateVars>>
    PROVE  BInv'
<1> USE DEF Goto, resultVars, authVars, callVars, useVars, auditVars, lateVars
<1>1. BrokerTypeOK'
  BY DEF BInv, BrokerTypeOK, PC
<1>2. \A d \in Calls \ {c} : Same(d)
  BY DEF Same, BInv, BrokerTypeOK
<1>3. pc'[c] = l /\ CallOK(c)
  BY DEF BInv, BrokerTypeOK, CallsOK
<1>4. CallOK(c)' /\ ~Holds(c)'
  BY <1>3 DEF CallOK, CallAuthorized, CallMaterial, CallResult, Holds,
              OpenLabels, ClosedLabels, ReturnLabels
<1> QED BY <1>1, <1>2, <1>4, CallStep

LEMMA PrecheckStep ==
    ASSUME BInv, NEW c \in Calls, PrecheckClock(c) \/ CheckScopes(c)
    PROVE  BInv'
<1>1. pc[c] \in {"precheckClock", "scopes"} /\ c \notin ran
  BY DEF BInv, CallsOK, CallOK, CallAuthorized, PrecheckClock, CheckScopes, ReturnLabels
<1>2. ASSUME NEW f \in {"timeout", "denied"}, Finish(c, f, "not_started") PROVE BInv'
  BY <1>1, <1>2, Codes, FinishStep DEF PrecheckClock, CheckScopes, useVars
<1>3. ASSUME NEW l \in {"scopes", "consume"}, Goto(c, l), UNCHANGED resultVars PROVE BInv'
  BY <1>1, <1>3, PreflightStep DEF PrecheckClock, CheckScopes
<1> QED BY <1>2, <1>3 DEF PrecheckClock, CheckScopes, Proceed, ProceedWith

(* consume, under its lock, marks a grant that nobody holds: the call that *)
(* proceeds is its only holder.                                            *)
LEMMA ConsumeStep ==
    ASSUME BInv, NEW c \in Calls, ConsumeGrant(c)
    PROVE  BInv'
<1>1. /\ CallOK(c) /\ pc[c] = "consume" /\ c \notin ran /\ c \in attempted
      /\ grant[c] \in Grants /\ ~Holds(c)
  BY DEF BInv, CallsOK, CallOK, CallAuthorized, ConsumeGrant, BrokerTypeOK, Holds,
         OpenLabels, ClosedLabels, ReturnLabels
<1>2. "denied" \in Failure \ {"none"}
  BY DEF Failure
<1>3. CASE consumed' = consumed /\ Finish(c, "denied", "not_started")
  BY <1>1, <1>2, <1>3, FinishStep DEF ConsumeGrant, useVars, authVars
<1>4. CASE /\ GrantUsable(c)
           /\ consumed' = consumed \union {grant[c]}
           /\ Finish(c, "denied", "not_started") \/ (GrantMatches(c) /\ ProceedWith(c, "postcheck", 0))
  <2> USE DEF ConsumeGrant, Finish, ProceedWith, Goto, callVars, useVars, resultVars, auditVars,
             lateVars, OpenLabels, ClosedLabels, ReturnLabels
  <2>1. BrokerTypeOK'
    BY <1>1, <1>4 DEF BInv, BrokerTypeOK, PC, Failure, Completion
  <2>2. \A d \in Calls \ {c} : Same(d)
    BY <1>4 DEF Same, BInv, BrokerTypeOK
  <2>3. CallOK(c)'
    <3>1. CASE Finish(c, "denied", "not_started")
      <4>1. /\ pc'[c] = "terminal" /\ completion'[c] = "not_started" /\ failure'[c] = "denied"
        BY <3>1 DEF BInv, BrokerTypeOK
      <4> QED BY <1>1, <4>1 DEF CallOK, CallAuthorized, CallMaterial, CallResult, Holds
    <3>2. CASE GrantMatches(c) /\ ProceedWith(c, "postcheck", 0)
      <4>1. pc'[c] = "postcheck"
        BY <3>2 DEF BInv, BrokerTypeOK
      <4> QED BY <1>1, <1>4, <3>2, <4>1 DEF CallOK, CallAuthorized, CallMaterial, CallResult,
                                            Holds, GrantMatches, GrantUsable
    <3> QED BY <1>4, <3>1, <3>2
  <2>4. CallsOK'
    BY <1>4, <2>2, <2>3, FrameStep DEF BInv
  <2>5. OneHolder'
    <3> SUFFICES ASSUME NEW d \in Calls, NEW e \in Calls, d # e, grant[d] = grant[e],
                        Holds(d)', Holds(e)'
                 PROVE  FALSE
      BY DEF OneHolder
    <3>1. \A b \in Calls \ {c} : Holds(b)' => Holds(b) /\ grant[b] # grant[c]
      BY <1>4, <2>2 DEF Same, Holds, BInv, CallsOK, CallOK, CallAuthorized, GrantUsable
    <3> QED BY <3>1 DEF BInv, OneHolder
  <2>6. ConsumedAudited'
    BY <1>1, <1>4 DEF BInv, ConsumedAudited
  <2> QED BY <2>1, <2>4, <2>5, <2>6 DEF BInv
<1> QED BY <1>3, <1>4 DEF ConsumeGrant

(* A holder goes on to the next step of the lookup with its result         *)
(* untouched.                                                              *)
LEMMA HolderStep ==
    ASSUME BInv, NEW c \in Calls, Goto(c, pc'[c]), UNCHANGED resultVars, Holds(c), c \notin ran,
           pc'[c] \in (ClosedLabels \union OpenLabels) \ {"handler"},
           instant' = instant, cancelled' = cancelled, ran' = ran, outcome' = outcome,
           UNCHANGED <<authVars, callVars, auditVars, lateReturn>>,
           lateAnswer' \in {lateAnswer, lateAnswer \union {c}},
           material' \in [Calls -> {"none", "open", "closed"}],
           \A d \in Calls \ {c} : material'[d] = material[d],
           material'[c] = "open" <=> pc'[c] \in OpenLabels
    PROVE  BInv'
<1> USE DEF Goto, authVars, callVars, auditVars, resultVars
<1> DEFINE l == pc'[c]
<1>1. BrokerTypeOK'
  <2>1. l \in PC /\ pc' = [pc EXCEPT ![c] = l]
    BY DEF PC, OpenLabels, ClosedLabels
  <2>2. pc' \in [Calls -> PC]
    <3> HIDE DEF l
    <3> QED BY <2>1 DEF BInv, BrokerTypeOK
  <2> QED BY <2>2 DEF BInv, BrokerTypeOK
<1>2. \A d \in Calls \ {c} : Same(d)
  BY DEF Same, BInv, BrokerTypeOK
<1>3. CallOK(c)
  BY DEF BInv, CallsOK
<1>4. CallOK(c)'
  BY <1>3 DEF CallOK, CallAuthorized, CallMaterial, CallResult, Holds, GrantMatches,
              OpenLabels, ClosedLabels, ReturnLabels
<1> QED BY <1>1, <1>2, <1>4, CallStep

(* What a holder before its handler is known by. *)
LEMMA HolderFacts ==
    ASSUME BInv, NEW c \in Calls, pc[c] \in (ClosedLabels \union OpenLabels) \ {"handler"}
    PROVE  /\ c \notin ran /\ Holds(c) /\ pc[c] # "idle"
           /\ material[c] = "open" <=> pc[c] \in OpenLabels
           /\ material \in [Calls -> {"none", "open", "closed"}] /\ pc \in [Calls -> PC]
BY DEF BInv, CallsOK, CallOK, CallAuthorized, CallMaterial, BrokerTypeOK, Holds,
       OpenLabels, ClosedLabels, ReturnLabels

(* A test that stops the call or lets it go on, the material as it was.    *)
LEMMA TestStep ==
    ASSUME BInv, NEW c \in Calls, pc[c] \in (ClosedLabels \union OpenLabels) \ {"handler"},
           NEW f \in {"cancelled", "timeout", "store"},
           NEW l \in (ClosedLabels \union OpenLabels) \ {"handler"},
           l \in OpenLabels <=> pc[c] \in OpenLabels,
           \/ Finish(c, f, "not_started") /\ (UNCHANGED material \/ CloseMaterial(c))
           \/ Goto(c, l) /\ UNCHANGED resultVars /\ UNCHANGED material,
           instant' = instant, cancelled' = cancelled,
           UNCHANGED <<authVars, callVars, ran, outcome, auditVars, lateVars>>
    PROVE  BInv'
<1>1. CASE Finish(c, f, "not_started") /\ (UNCHANGED material \/ CloseMaterial(c))
  BY <1>1, HolderFacts, Codes, FinishStep
<1>2. CASE Goto(c, l) /\ UNCHANGED resultVars /\ UNCHANGED material
  <2>1. pc'[c] = l
    BY <1>2, HolderFacts DEF Goto
  <2> QED BY <1>2, <2>1, HolderFacts, HolderStep DEF lateVars
<1> QED BY <1>1, <1>2

LEMMA TestTokenStep ==
    ASSUME BInv, NEW c \in Calls,
           NEW here \in {"precheck", "postcheck", "prepare", "lookup", "lookupPost", "held"},
           NEW next \in {"precheckClock", "postcheckClock", "storeClock", "lookupClock",
                         "lookupPostClock", "heldClock"},
           here = "precheck" <=> next = "precheckClock",
           here \in {"lookupPost", "held"} <=> next \in {"lookupPostClock", "heldClock"},
           TestToken(c, here, next)
    PROVE  BInv'
<1>1. CASE here = "precheck"
  <2>1. c \notin ran /\ pc[c] = "precheck" /\ material' = material
    BY <1>1 DEF BInv, CallsOK, CallOK, CallAuthorized, TestToken, ReturnLabels
  <2>2. CASE Finish(c, "cancelled", "not_started")
    BY <2>1, <2>2, Codes, FinishStep DEF TestToken
  <2>3. CASE Proceed(c, "precheckClock")
    BY <2>1, <2>3, PreflightStep DEF TestToken, Proceed, useVars
  <2> QED BY <1>1, <2>2, <2>3 DEF TestToken
<1>2. CASE here # "precheck"
  <2>1. /\ pc[c] = here /\ pc[c] \in (ClosedLabels \union OpenLabels) \ {"handler"}
        /\ next \in (ClosedLabels \union OpenLabels) \ {"handler"}
        /\ next \in OpenLabels <=> pc[c] \in OpenLabels
    BY <1>2 DEF TestToken, OpenLabels, ClosedLabels
  <2>2. \/ Finish(c, "cancelled", "not_started") /\ (UNCHANGED material \/ CloseMaterial(c))
        \/ Goto(c, next) /\ UNCHANGED resultVars /\ UNCHANGED material
    BY DEF TestToken, Proceed, CloseMaterial
  <2> QED BY <2>1, <2>2, TestStep DEF TestToken
<1> QED BY <1>1, <1>2

(* The clock tests and the store's preparation. *)
LEMMA ClockStep ==
    ASSUME BInv, NEW c \in Calls,
           \/ PostcheckClock(c) \/ StorePrepare(c) \/ HeldClock(c)
           \/ StoreClock(c, "lookupClock", "adapter")
           \/ StoreClock(c, "lookupPostClock", "held")
    PROVE  BInv'
<1> USE DEF OpenLabels, ClosedLabels
<1>1. CASE PostcheckClock(c)
  BY <1>1, TestStep DEF PostcheckClock, ProceedWith, useVars
<1>2. CASE StorePrepare(c)
  BY <1>2, TestStep DEF StorePrepare, ProceedWith, useVars
<1>3. CASE HeldClock(c)
  BY <1>3, TestStep DEF HeldClock, ProceedWith, useVars
<1>4. CASE StoreClock(c, "lookupClock", "adapter")
  BY <1>4, TestStep DEF StoreClock, Proceed
<1>5. CASE StoreClock(c, "lookupPostClock", "held")
  BY <1>5, TestStep DEF StoreClock, Proceed
<1> QED BY <1>1, <1>2, <1>3, <1>4, <1>5

LEMMA AdapterLookupStep ==
    ASSUME BInv, NEW c \in Calls, AdapterLookup(c)
    PROVE  BInv'
<1>1. pc[c] = "adapter" /\ pc[c] \in (ClosedLabels \union OpenLabels) \ {"handler"}
  BY DEF AdapterLookup, ClosedLabels
<1>2. CASE /\ \E f \in {"store", "cancelled", "timeout"} : Finish(c, f, "not_started")
           /\ UNCHANGED <<material, lateAnswer>>
  BY <1>1, <1>2, HolderFacts, Codes, FinishStep DEF AdapterLookup, lateVars
<1>3. CASE /\ Proceed(c, "lookupPost")
           /\ material' = [material EXCEPT ![c] = "open"]
           /\ lateAnswer' = IF Interrupted(c) THEN lateAnswer \union {c} ELSE lateAnswer
  <2>1. /\ material' \in [Calls -> {"none", "open", "closed"}] /\ material'[c] = "open"
        /\ \A d \in Calls \ {c} : material'[d] = material[d]
        /\ pc'[c] = "lookupPost" /\ pc'[c] \in OpenLabels /\ Goto(c, pc'[c])
        /\ pc'[c] \in (ClosedLabels \union OpenLabels) \ {"handler"}
    BY <1>1, <1>3, HolderFacts DEF Proceed, Goto, OpenLabels
  <2>2. lateAnswer' \in {lateAnswer, lateAnswer \union {c}}
    BY <1>3
  <2> QED BY <1>1, <1>3, <2>1, <2>2, HolderFacts, HolderStep DEF AdapterLookup, Proceed
<1> QED BY <1>2, <1>3 DEF AdapterLookup

LEMMA BeginHandlerStep ==
    ASSUME BInv, NEW c \in Calls, BeginHandler(c)
    PROVE  BInv'
<1> USE DEF BeginHandler, Proceed, Goto, callVars, resultVars, auditVars, lateVars
<1>1. pc[c] = "start" /\ CallOK(c) /\ c \notin ran /\ Holds(c) /\ material[c] = "open"
  BY HolderFacts DEF BInv, CallsOK, OpenLabels
<1>2. BrokerTypeOK'
  BY DEF BInv, BrokerTypeOK, PC, Outcome, authVars
<1>3. \A d \in Calls \ {c} : Same(d)
  BY DEF Same, BInv, BrokerTypeOK
<1>4. pc'[c] = "handler" /\ c \in ran'
  BY DEF BInv, BrokerTypeOK
<1>5. CallOK(c)'
  BY <1>1, <1>4 DEF CallOK, CallAuthorized, CallMaterial, CallResult, Holds,
                    GrantMatches, authVars, OpenLabels, ClosedLabels, ReturnLabels
<1> QED BY <1>1, <1>2, <1>3, <1>5, CallStep

LEMMA EndHandlerStep ==
    ASSUME BInv, NEW c \in Calls, EndHandler(c)
    PROVE  BInv'
<1> USE DEF EndHandler, CloseMaterial, Goto, callVars, auditVars
<1>1. CallOK(c) /\ pc[c] = "handler" /\ c \in ran /\ Holds(c)
  BY DEF BInv, CallsOK, CallOK, CallAuthorized, Holds, OpenLabels
<1>2. PICK o \in {"succeeded", "completed", "unclear"} :
          /\ outcome' = [outcome EXCEPT ![c] = o]
          /\ failure' = [failure EXCEPT ![c] = IF o = "succeeded" THEN "none" ELSE "handler"]
          /\ completion' = [completion EXCEPT ![c] =
                IF o = "succeeded" THEN "completed" ELSE HandlerCompletion(o)]
  OBVIOUS
<1>3. BrokerTypeOK'
  BY <1>2 DEF BInv, BrokerTypeOK, PC, Outcome, Failure, Completion, HandlerCompletion, authVars
<1>4. \A d \in Calls \ {c} : Same(d)
  BY <1>2 DEF Same, BInv, BrokerTypeOK
<1>5. /\ pc'[c] = "override" /\ material'[c] = "closed" /\ outcome'[c] = o
      /\ failure'[c] = (IF o = "succeeded" THEN "none" ELSE "handler")
      /\ completion'[c] = (IF o = "succeeded" THEN "completed" ELSE HandlerCompletion(o))
  BY <1>2 DEF BInv, BrokerTypeOK
<1>6. CallOK(c)'
  BY <1>1, <1>2, <1>5 DEF CallOK, CallAuthorized, CallMaterial, CallResult, Holds,
                          GrantMatches, HandlerCompletion, authVars,
                          OpenLabels, ClosedLabels, ReturnLabels
<1> QED BY <1>1, <1>3, <1>4, <1>6, CallStep

LEMMA OverrideStep ==
    ASSUME BInv, NEW c \in Calls, OverrideToken(c) \/ OverrideClock(c)
    PROVE  BInv'
<1> USE DEF OverrideToken, OverrideClock, Finish, Proceed, Goto, callVars, useVars, resultVars,
            auditVars, lateVars
<1>1. /\ CallOK(c) /\ pc[c] \in ReturnLabels /\ c \in ran /\ Holds(c)
      /\ material[c] # "open"
  BY DEF BInv, CallsOK, CallOK, CallAuthorized, CallMaterial, Holds, OpenLabels, ReturnLabels
<1>2. BrokerTypeOK'
  BY Codes DEF BInv, BrokerTypeOK, PC, Completion, authVars
<1>3. \A d \in Calls \ {c} : Same(d)
  BY DEF Same, BInv, BrokerTypeOK
<1>4. /\ pc'[c] \in {"overrideClock", "terminal"}
      /\ \/ completion'[c] = "unknown" /\ failure'[c] \in {"cancelled", "timeout"}
         \/ completion'[c] = completion[c] /\ failure'[c] = failure[c]
  BY DEF BInv, BrokerTypeOK
<1>5. CallOK(c)'
  BY <1>1, <1>4 DEF CallOK, CallAuthorized, CallMaterial, CallResult, Holds,
                    GrantMatches, authVars, OpenLabels, ClosedLabels, ReturnLabels
<1> QED BY <1>1, <1>2, <1>3, <1>5, CallStep

LEMMA RecordTerminalStep ==
    ASSUME BInv, NEW c \in Calls, RecordTerminal(c)
    PROVE  BInv'
<1> USE DEF RecordTerminal, CloseMaterial, Goto, AfterResult, CompletionAfterAuditFailure,
            callVars, resultVars, lateVars
<1>1. CallOK(c) /\ pc[c] = "terminal"
  BY DEF BInv, CallsOK
<1>2. BrokerTypeOK'
  BY DEF BInv, BrokerTypeOK, PC, Failure, authVars
<1>3. \A d \in Calls \ {c} : Same(d)
  BY DEF Same, BInv, BrokerTypeOK
<1>4. /\ pc'[c] = "done" /\ material'[c] # "open" /\ completion'[c] = completion[c]
      /\ \/ failure'[c] = failure[c] /\ c \in recorded'
         \/ failure'[c] = "audit"
  BY DEF BInv, BrokerTypeOK
<1>5. CallOK(c)' /\ (Holds(c)' => Holds(c))
  BY <1>1, <1>4 DEF CallOK, CallAuthorized, CallMaterial, CallResult, Holds, GrantMatches,
                    authVars, OpenLabels, ClosedLabels, ReturnLabels
<1> QED BY <1>2, <1>3, <1>5, CallStep

LEMMA NextBInv == BInv /\ [BrokerNext]_brokerVars => BInv'
<1> SUFFICES ASSUME BInv, [BrokerNext]_brokerVars PROVE BInv'
  OBVIOUS
<1>1. ASSUME NEW c \in Calls, Step(c) PROVE BInv'
  <2>1. ASSUME \/ TestToken(c, "precheck", "precheckClock")
               \/ TestToken(c, "postcheck", "postcheckClock")
               \/ TestToken(c, "prepare", "storeClock") \/ TestToken(c, "lookup", "lookupClock")
               \/ TestToken(c, "lookupPost", "lookupPostClock")
               \/ TestToken(c, "held", "heldClock")
        PROVE  BInv'
    BY <2>1, TestTokenStep
  <2> QED BY <1>1, <2>1, RecordAttemptStep, PrecheckStep, ConsumeStep, ClockStep,
             AdapterLookupStep, BeginHandlerStep, EndHandlerStep, OverrideStep,
             RecordTerminalStep DEF Step
<1>2. ASSUME UNCHANGED <<authVars, pc, callVars, useVars, resultVars, auditVars, lateVars>>,
             instant' \in Nat, cancelled' \subseteq Intents
      PROVE  BInv'
  BY <1>2 DEF authVars, callVars, useVars, resultVars, auditVars, lateVars, BInv, BrokerTypeOK,
              CallsOK, CallOK, CallAuthorized, CallMaterial, CallResult, Holds, GrantMatches, OneHolder,
              ConsumedAudited
<1>3. ASSUME NEW i \in Intents, Cancel(i) PROVE BInv'
  BY <1>2, <1>3 DEF Cancel, BInv, BrokerTypeOK
<1>4. CASE Tick
  BY <1>2, <1>4 DEF Tick, BInv, BrokerTypeOK
<1>5. CASE UNCHANGED brokerVars
  BY <1>2, <1>5 DEF brokerVars, BInv, BrokerTypeOK
<1> QED BY <1>1, <1>3, <1>4, <1>5, IssueStep, ExecuteStep DEF BrokerNext

LEMMA BInvAlways == BrokerSpec => []BInv
BY InitBInv, NextBInv, PTL DEF BrokerSpec
-----------------------------------------------------------------------------
(* What is known of a call that was late when the adapter answered or when *)
(* its handler returned.  Neither a cancellation nor a passed deadline is  *)
(* ever taken back: if the token test that follows finds nothing, it was   *)
(* the deadline, and the clock test finds it.                              *)
CallLate(c) ==
    /\ c \in lateAnswer =>
          /\ Interrupted(c) /\ c \notin ran
          /\ pc[c] \in {"lookupPost", "lookupPostClock", "held", "heldClock", "terminal", "done"}
          /\ pc[c] \in {"lookupPostClock", "held", "heldClock"} => Expired(c)
    /\ c \in lateReturn =>
          /\ Interrupted(c) /\ c \in ran
          /\ pc[c] \in {"override", "overrideClock", "terminal", "done"}
          /\ pc[c] = "overrideClock" => Expired(c)
          /\ pc[c] \in {"terminal", "done"} => completion[c] = "unknown" /\ failure[c] # "none"

LateKnown == \A c \in Calls : CallLate(c)

LInv == BInv /\ LateKnown

(* Late calls stay late. *)
LEMMA StaysLate ==
    ASSUME BrokerTypeOK, BrokerTypeOK', cancelled \subseteq cancelled', instant' >= instant,
           NEW c \in Calls, intent'[c] = intent[c], deadline'[c] = deadline[c]
    PROVE  /\ Expired(c) => Expired(c)'
           /\ Interrupted(c) => Interrupted(c)'
<1>1. instant \in Nat /\ instant' \in Nat /\ deadline[c] \in Nat /\ deadline'[c] \in Nat
  BY DEF BrokerTypeOK
<1>2. Expired(c) => Expired(c)'
  BY <1>1 DEF Expired
<1> QED BY <1>2 DEF Interrupted, IsCancelled

(* A step that leaves a call where it is: time passes, tokens are set and  *)
(* other calls run.                                                        *)
LEMMA LateFrame ==
    ASSUME BrokerTypeOK, BrokerTypeOK', cancelled \subseteq cancelled', instant' >= instant,
           NEW c \in Calls, Same(c), CallLate(c)
    PROVE  CallLate(c)'
<1>1. (Expired(c) => Expired(c)') /\ (Interrupted(c) => Interrupted(c)')
  BY StaysLate DEF Same
<1> QED BY <1>1 DEF Same, CallLate

(* The steps of a call, each from the label it leaves. *)
LEMMA StepSame ==
    ASSUME BInv, NEW c \in Calls, Step(c)
    PROVE  /\ \A d \in Calls \ {c} : Same(d)
           /\ instant' = instant /\ cancelled' = cancelled /\ UNCHANGED callVars
<1> USE DEF Goto, Finish, Proceed, ProceedWith, CloseMaterial, callVars, useVars, resultVars,
            auditVars, lateVars, Same, BInv, BrokerTypeOK
<1>1. CASE RecordAttempt(c) \/ PrecheckClock(c) \/ CheckScopes(c) \/ PostcheckClock(c)
           \/ StorePrepare(c) \/ HeldClock(c)
  BY <1>1 DEF RecordAttempt, PrecheckClock, CheckScopes, PostcheckClock, StorePrepare, HeldClock
<1>2. CASE ConsumeGrant(c)
  BY <1>2 DEF ConsumeGrant
<1>3. CASE \E h, l \in PC : TestToken(c, h, l) \/ StoreClock(c, h, l)
  BY <1>3 DEF TestToken, StoreClock
<1>4. CASE AdapterLookup(c) \/ BeginHandler(c)
  BY <1>4 DEF AdapterLookup, BeginHandler
<1>5. CASE EndHandler(c)
  BY <1>5 DEF EndHandler
<1>6. CASE OverrideToken(c) \/ OverrideClock(c)
  BY <1>6 DEF OverrideToken, OverrideClock
<1>7. CASE RecordTerminal(c)
  <2>1. /\ \A d \in Calls \ {c} : /\ recorded' = recorded \/ recorded' = recorded \union {c}
                                 /\ material'[d] = material[d]
        /\ pc' = [pc EXCEPT ![c] = "done"]
        /\ \A d \in Calls \ {c} : failure'[d] = failure[d] /\ completion'[d] = completion[d]
    BY <1>7 DEF RecordTerminal, CompletionAfterAuditFailure, AfterResult
  <2> QED BY <1>7, <2>1 DEF RecordTerminal
<1> QED BY <1>1, <1>2, <1>3, <1>4, <1>5, <1>6, <1>7 DEF Step, PC

LEMMA StepLate ==
    ASSUME LInv, BInv', NEW c \in Calls, Step(c)
    PROVE  CallLate(c)'
<1>1. /\ CallLate(c) /\ c \in DOMAIN pc /\ c \in DOMAIN completion /\ c \in DOMAIN failure
      /\ pc \in [Calls -> PC] /\ completion \in [Calls -> Completion]
      /\ failure \in [Calls -> Failure]
  BY DEF LInv, LateKnown, BInv, BrokerTypeOK
<1>2. (Expired(c)' <=> Expired(c)) /\ (Interrupted(c)' <=> Interrupted(c))
  BY StepSame DEF LInv, callVars, Expired, Interrupted, IsCancelled
<1> USE <1>1, <1>2 DEF Goto, Finish, Proceed, ProceedWith, lateVars, CallLate
<1>3. CASE RecordAttempt(c) \/ PrecheckClock(c) \/ CheckScopes(c) \/ ConsumeGrant(c)
           \/ PostcheckClock(c) \/ StorePrepare(c)
  <2>1. c \notin lateAnswer' /\ c \notin lateReturn'
    BY <1>3 DEF RecordAttempt, PrecheckClock, CheckScopes, ConsumeGrant, PostcheckClock,
                StorePrepare
  <2> QED BY <2>1
<1>4. ASSUME NEW h \in {"precheck", "postcheck", "prepare", "lookup"}, NEW l, TestToken(c, h, l)
      PROVE  CallLate(c)'
  <2>1. c \notin lateAnswer' /\ c \notin lateReturn'
    BY <1>4 DEF TestToken
  <2> QED BY <2>1
<1>5. CASE TestToken(c, "lookupPost", "lookupPostClock") \/ TestToken(c, "held", "heldClock")
  BY <1>5 DEF TestToken, Interrupted, useVars
<1>6. CASE StoreClock(c, "lookupClock", "adapter") \/ StoreClock(c, "lookupPostClock", "held")
  BY <1>6 DEF StoreClock
<1>7. CASE HeldClock(c)
  BY <1>7 DEF HeldClock, DeadlineGone, useVars
<1>8. CASE AdapterLookup(c)
  <2>1. c \notin ran
    BY <1>8, HolderFacts DEF AdapterLookup, ClosedLabels, LInv
  <2> QED BY <1>8, <2>1 DEF AdapterLookup
<1>9. CASE BeginHandler(c)
  <2>1. c \notin lateAnswer' /\ c \notin lateReturn'
    BY <1>9 DEF BeginHandler
  <2> QED BY <2>1
<1>10. CASE EndHandler(c)
  <2>1. c \in ran /\ c \notin lateAnswer
    BY <1>10 DEF EndHandler, LInv, BInv, CallsOK, CallOK, CallAuthorized
  <2> QED BY <1>10, <2>1 DEF EndHandler
<1>11. CASE OverrideToken(c) \/ OverrideClock(c)
  BY <1>11 DEF OverrideToken, OverrideClock, Interrupted, useVars
<1>12. CASE RecordTerminal(c)
  BY <1>12 DEF RecordTerminal, AfterResult, CompletionAfterAuditFailure, resultVars
<1> QED BY <1>3, <1>4, <1>5, <1>6, <1>7, <1>8, <1>9, <1>10, <1>11, <1>12 DEF Step

LEMMA NextLInv == LInv /\ [BrokerNext]_brokerVars => LInv'
<1> SUFFICES ASSUME LInv, [BrokerNext]_brokerVars PROVE LInv'
  OBVIOUS
<1>1. BInv' /\ BrokerTypeOK /\ BrokerTypeOK'
  BY NextBInv DEF LInv, BInv
<1> SUFFICES ASSUME NEW d \in Calls PROVE CallLate(d)'
  BY <1>1 DEF LInv, LateKnown
<1>2. CallLate(d) /\ instant \in Nat
  BY <1>1 DEF LInv, LateKnown, BrokerTypeOK
<1>3. ASSUME NEW c \in Calls, Step(c) PROVE CallLate(d)'
  <2>1. CASE d = c
    BY <1>1, <1>3, <2>1, StepLate
  <2>2. CASE d # c
    BY <1>1, <1>2, <1>3, <2>2, StepSame, LateFrame DEF LInv
  <2> QED BY <2>1, <2>2
<1>4. ASSUME NEW c \in Calls, NEW i \in Intents, NEW g \in Grants, Execute(c, i, g)
      PROVE  CallLate(d)'
  <2>1. CASE d = c
    BY <1>2, <1>4, <2>1 DEF Execute, CallLate, lateVars
  <2>2. CASE d # c
    <3>1. Same(d) /\ instant' = instant /\ cancelled' = cancelled
      BY <1>1, <1>4, <2>2 DEF Execute, Same, Proceed, Goto, resultVars, useVars, auditVars,
                              lateVars, BrokerTypeOK
    <3> QED BY <1>1, <1>2, <3>1, LateFrame
  <2> QED BY <2>1, <2>2
<1>5. ASSUME UNCHANGED <<pc, callVars, useVars, resultVars, auditVars, lateVars>>,
             instant' >= instant, cancelled \subseteq cancelled'
      PROVE  CallLate(d)'
  <2>1. Same(d)
    BY <1>5 DEF Same, callVars, useVars, resultVars, auditVars, lateVars
  <2> QED BY <1>1, <1>2, <1>5, <2>1, LateFrame
<1>6. ASSUME NEW g \in Grants, NEW i \in Intents, Issue(g, i) PROVE CallLate(d)'
  BY <1>2, <1>5, <1>6 DEF Issue
<1>7. ASSUME NEW i \in Intents, Cancel(i) PROVE CallLate(d)'
  BY <1>2, <1>5, <1>7 DEF Cancel
<1>8. CASE Tick
  BY <1>2, <1>5, <1>8 DEF Tick
<1>9. CASE UNCHANGED brokerVars
  BY <1>2, <1>5, <1>9 DEF brokerVars
<1> QED BY <1>3, <1>4, <1>6, <1>7, <1>8, <1>9 DEF BrokerNext

LEMMA InitLInv == BrokerInit => LInv
BY InitBInv DEF BrokerInit, LInv, LateKnown, CallLate

(* For any number of calls that race for any grants, with time passing,    *)
(* intents cancelled and the audit sink, the store and the handler failing *)
(* at any step: a grant authorizes one handler invocation at most and one  *)
(* of its own intent, after the attempt is audited; a call that was        *)
(* cancelled or out of time when the store's adapter answered never runs   *)
(* its handler; and one that is when its handler returns is never reported *)
(* as completed.                                                           *)
THEOREM HandlersAuthorized == BrokerSpec => []HandlerAuthorized
<1>1. LInv => HandlerAuthorized
  <2> SUFFICES ASSUME LInv PROVE HandlerAuthorized
    OBVIOUS
  <2>1. \A c \in ran : c \in Calls /\ Holds(c) /\ CallOK(c)
    BY DEF LInv, BInv, BrokerTypeOK, CallsOK, Holds
  <2>2. GrantSingleUse
    BY <2>1 DEF GrantSingleUse, LInv, BInv, OneHolder, CallOK, CallAuthorized, GrantMatches
  <2>3. AttemptAuditedFirst
    BY <2>1 DEF AttemptAuditedFirst, LInv, BInv, ConsumedAudited, CallOK, CallAuthorized
  <2>4. LateAnswerUnused /\ LateReturnUnknown
    BY DEF LateAnswerUnused, LateReturnUnknown, LInv, LateKnown, CallLate, BInv, BrokerTypeOK
  <2> QED BY <2>2, <2>3, <2>4 DEF HandlerAuthorized
<1> QED BY <1>1, InitLInv, NextLInv, PTL DEF BrokerSpec

(* Whatever fails, and however many calls there are: a call that ended     *)
(* reports "not_started" only if its handler never began and "completed"   *)
(* only if the handler said so, reports success only with its result       *)
(* event written, and holds no secret material that was not wiped.         *)
THEOREM CallsEndCleanAlways == BrokerSpec => []CallsEndClean
<1>1. BInv => CallsEndClean
  BY DEF BInv, CallsEndClean, CallsOK, CallOK, CallMaterial, CallResult, CompletionTruthful,
         MaterialWiped, OpenLabels, ReturnLabels
<1> QED BY <1>1, BInvAlways, PTL
=============================================================================
