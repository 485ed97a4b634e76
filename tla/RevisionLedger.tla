--------------------------- MODULE RevisionLedger ---------------------------
(***************************************************************************)
(* What the state repository promises its callers, without processes,      *)
(* files or migrations: a set of records that only ever gain revisions one *)
(* at a time, an audit log that only grows, a state revision that counts   *)
(* the commits, and a published copy of that revision (workspace.json)     *)
(* that is always one the ledger has reached.                              *)
(***************************************************************************)
EXTENDS Naturals

CONSTANT Records

VARIABLES
    revisionOf,   \* revision of every record, 0 when it does not exist
    auditCount,   \* number of audit events
    revision,     \* number of commits
    published     \* the revision readers outside the database see

ledgerVars == <<revisionOf, auditCount, revision, published>>

LedgerInit ==
    /\ revisionOf = [r \in Records |-> 0]
    /\ auditCount = 0
    /\ revision = 0
    /\ published = 0

(* One record gains one revision: creation when it had none. *)
CommitRecord(r) ==
    /\ revisionOf' = [revisionOf EXCEPT ![r] = @ + 1]
    /\ revision' = revision + 1
    /\ UNCHANGED <<auditCount, published>>

CommitAudit ==
    /\ auditCount' = auditCount + 1
    /\ revision' = revision + 1
    /\ UNCHANGED <<revisionOf, published>>

(* The published revision may lag, and may even fall back, but it is never *)
(* one the ledger has not reached.                                         *)
Publish ==
    /\ published' \in 0..revision
    /\ UNCHANGED <<revisionOf, auditCount, revision>>

LedgerNext ==
    \/ \E r \in Records : CommitRecord(r)
    \/ CommitAudit
    \/ Publish

LedgerSpec == LedgerInit /\ [][LedgerNext]_ledgerVars
=============================================================================
