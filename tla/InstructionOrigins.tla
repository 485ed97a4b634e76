------------------------- MODULE InstructionOrigins -------------------------
(***************************************************************************)
(* InstructionOriginService and PromptDefenseService: what a piece of text *)
(* that enters a prompt may claim.  An origin is stored once and never     *)
(* rewritten; what it is worth is decided anew every time it is used.      *)
(*                                                                         *)
(* A caller creates an origin in two steps (the references are checked     *)
(* before the transaction) and assembles a context in two steps per item   *)
(* (the origin, then the policy it refers to), while the user changes,     *)
(* disables and archives policies and archives origins.                    *)
(***************************************************************************)
EXTENDS Naturals, FiniteSets

CONSTANTS
    Origins,     \* ids of origins, natural numbers taken in order
    Policies, Rules, Callers,
    Classes,     \* origin classes; a subset of DOMAIN Authority
    MaxItems,    \* max_items of a package
    MaxRevision, \* bound: revisions of a policy
    Null

(* A stored origin. *)
OriginRows == [class : Classes, content : Rules, policy : Policies \union {Null}, rev : Nat,
               parent : Origins \union {Null}, active : BOOLEAN]

ASSUME OriginsAssumption ==
    /\ Origins \subseteq Nat /\ Null \notin Origins \union OriginRows
    /\ MaxItems \in Nat /\ MaxRevision \in Nat \ {0}

VARIABLES
    policy,      \* [Policies -> rule, enabled, active, revision]
    origin,      \* [Origins -> the stored origin, or Null]
    doing,       \* [Callers -> what a caller is in the middle of, or Null]
    inForce      \* history: [Callers -> rules in force since it began]

originVars == <<policy, origin, doing, inForce>>

(* _ORIGIN_AUTHORITY *)
Authority ==
    [system_policy |-> "system_policy", current_user_instruction |-> "current_user_instruction",
     durable_user_policy |-> "durable_user_policy",
     user_management_action |-> "user_management_action",
     external_content |-> "untrusted_data", imported_data |-> "untrusted_data",
     tool_result |-> "untrusted_data", runtime_output |-> "untrusted_data",
     model_proposal |-> "model_proposal", unknown |-> "unknown_data"]
DataOnly == {"external_content", "imported_data", "tool_result", "runtime_output",
             "model_proposal", "unknown"}
DataClasses == {Authority[c] : c \in DataOnly}

ASSUME ClassesAssumption == Classes \subseteq DOMAIN Authority

(* _AUTHORITY_RANK *)
Rank(a) ==
    CASE a \in DataClasses -> 0
      [] a = "durable_user_policy" -> 2
      [] a \in {"current_user_instruction", "user_management_action"} -> 3
      [] a = "system_policy" -> 4

(* _AUTHORITY_PURPOSES *)
Purposes(a) ==
    CASE a = "system_policy" -> {"task_instruction", "durable_user_policy", "user_management_action",
                                 "permission_state", "confirmation_state"}
      [] a = "current_user_instruction" -> {"task_instruction"}
      [] a = "durable_user_policy" -> {"task_instruction", "durable_user_policy"}
      [] a = "user_management_action" -> {"task_instruction", "user_management_action",
                                          "permission_state", "confirmation_state"}
      [] OTHER -> {}
-----------------------------------------------------------------------------
Live(p) == policy[p].active /\ policy[p].enabled
RulesInForce == {<<p, policy[p].rule>> : p \in {q \in Policies : Live(q)}}

OriginsInit ==
    /\ policy \in [Policies -> [rule : Rules, enabled : {TRUE}, active : {TRUE}, rev : {1}]]
    /\ origin = [o \in Origins |-> Null]
    /\ doing = [c \in Callers |-> Null]
    /\ inForce = [c \in Callers |-> {}]

Packaging(c) == doing[c] # Null /\ doing[c].kind = "package"

(* History: the rules in force while a package is assembled. *)
Witness == inForce' = [c \in Callers |->
    IF Packaging(c)
    THEN inForce[c] \union {<<p, policy'[p].rule>> : p \in {q \in Policies :
                                                       policy'[q].active /\ policy'[q].enabled}}
    ELSE {}]

(* PolicyService.update and archive, by the user. *)
ChangePolicy(p, rule, enabled, active) ==
    /\ policy[p].active /\ policy[p].rev < MaxRevision
    /\ policy' = [policy EXCEPT ![p] = [rule |-> rule, enabled |-> enabled, active |-> active,
                                        rev |-> @.rev + 1]]
    /\ Witness
    /\ UNCHANGED <<origin, doing>>

(* archive: a user's, guarded by the revision and the status. *)
ArchiveOrigin(o) ==
    /\ origin[o] # Null /\ origin[o].active
    /\ origin' = [origin EXCEPT ![o].active = FALSE]
    /\ UNCHANGED <<policy, doing, inForce>>

(* The rank rule of _validate_source_references; the parent is taken for   *)
(* what it declares, archived or not.                                      *)
MayDerive(class, parent) == Rank(Authority[class]) <= Rank(Authority[origin[parent].class])

(* The other rules: a policy it refers to is active, enabled, at that      *)
(* revision, and says the content.                                         *)
PolicyMatches(p, rev, content) ==
    Live(p) /\ policy[p].rev = rev /\ policy[p].rule = content

(* create, up to the transaction: the class fixes the actor, the method    *)
(* and the references the source must or must not have.                    *)
BeginCreate(c, class, content, p, parent) ==
    /\ doing[c] = Null
    /\ parent # Null => origin[parent] # Null /\ MayDerive(class, parent)
    /\ IF class = "durable_user_policy" THEN p # Null /\ PolicyMatches(p, policy[p].rev, content)
       ELSE p = Null
    /\ doing' = [doing EXCEPT ![c] =
          [kind |-> "create", row |-> [class |-> class, content |-> content, policy |-> p,
             rev |-> IF p = Null THEN 0 ELSE policy[p].rev, parent |-> parent, active |-> TRUE]]]
    /\ UNCHANGED <<policy, origin, inForce>>

(* _create_instruction_record: the transaction checks nothing again. *)
CommitCreate(c) ==
    /\ doing[c] # Null /\ doing[c].kind = "create"
    /\ \E o \in Origins :
          /\ origin[o] = Null /\ \A q \in Origins : q < o => origin[q] # Null
          /\ origin' = [origin EXCEPT ![o] = doing[c].row]
    /\ doing' = [doing EXCEPT ![c] = Null]
    /\ UNCHANGED <<policy, inForce>>
-----------------------------------------------------------------------------
(* package_context, for the ids in todo; require_authority asks the same   *)
(* of one id.                                                              *)
BeginPackage(c, todo) ==
    /\ doing[c] = Null
    /\ Cardinality(todo) <= MaxItems
    /\ \A o \in todo : origin[o] # Null
    /\ doing' = [doing EXCEPT ![c] =
          [kind |-> "package", todo |-> todo, row |-> Null, items |-> [o \in {} |-> Null]]]
    /\ inForce' = [inForce EXCEPT ![c] = RulesInForce]
    /\ UNCHANGED <<policy, origin>>

(* get: the origin of the next item.  Its own status and class decide, but *)
(* for a durable policy.                                                   *)
ReadOrigin(c, o) ==
    /\ Packaging(c) /\ doing[c].row = Null
    /\ o \in doing[c].todo
    /\ doing' = [doing EXCEPT ![c].row = [id |-> o, origin |-> origin[o]]]
    /\ UNCHANGED <<policy, origin, inForce>>

(* Mutant: a policy that was disabled still counts. *)
ReferenceCurrentArchivedOnly(row) ==
    policy[row.policy].active /\ policy[row.policy].rule = row.content

(* _durable_policy_reference_is_current *)
ReferenceCurrent(row) == PolicyMatches(row.policy, row.rev, row.content)

(* _context_item: the effective authority, from the origin that was read   *)
(* and the policy as it is now.                                            *)
Effective(row) ==
    IF ~row.active THEN "unknown_data"
    ELSE IF row.class = "durable_user_policy" /\ ~ReferenceCurrent(row) THEN "untrusted_data"
    ELSE Authority[row.class]

(* The item goes to the channel of its effective authority. *)
Placed(items, o, a) ==
    [x \in DOMAIN items \union {o} |-> IF x = o THEN a ELSE items[x]]
PlaceItem(c) ==
    /\ Packaging(c) /\ doing[c].row # Null
    /\ LET row == doing[c].row
       IN  doing' = [doing EXCEPT ![c].row = Null, ![c].todo = @ \ {row.id},
                                  ![c].items = Placed(@, row.id, Effective(row.origin))]
    /\ UNCHANGED <<policy, origin, inForce>>

(* The package is returned, or the redaction, the scan or a limit refuses. *)
EndPackage(c) ==
    /\ Packaging(c) /\ doing[c].todo = {}
    /\ doing' = [doing EXCEPT ![c] = Null]
    /\ inForce' = [inForce EXCEPT ![c] = {}]
    /\ UNCHANGED <<policy, origin>>

(* What an origin without a policy says does not matter. *)
Plain == CHOOSE r \in Rules : TRUE

OriginsNext ==
    \/ \E p \in Policies, r \in Rules, e, a \in BOOLEAN : ChangePolicy(p, r, e, a)
    \/ \E o \in Origins : ArchiveOrigin(o)
    \/ \E c \in Callers :
          \/ \E class \in Classes, r \in Rules, p \in Policies \union {Null},
                parent \in Origins \union {Null} :
                   (p = Null => r = Plain) /\ BeginCreate(c, class, r, p, parent)
          \/ CommitCreate(c) \/ PlaceItem(c) \/ EndPackage(c)
          \/ \E todo \in SUBSET Origins : BeginPackage(c, todo)
          \/ \E o \in Origins : ReadOrigin(c, o)

OriginsSpec == OriginsInit /\ [][OriginsNext]_originVars
-----------------------------------------------------------------------------
OriginsTypeOK ==
    /\ \A o \in Origins : origin[o] # Null => origin[o].class \in Classes
    /\ \A p \in Policies : policy[p].rev \in 1 .. MaxRevision

(* The origins o derives from, in one or more steps: the least set that    *)
(* holds its parent and the parents of its members.                        *)
ParentIn(o, S) == origin[o].parent # Null => origin[o].parent \in S
Ancestors(o) ==
    {q \in Origins : \A S \in SUBSET Origins :
                        ParentIn(o, S) /\ (\A r \in S : ParentIn(r, S)) => q \in S}

(* Authority is grounded whenever it is granted: an item that a package    *)
(* treats as a durable policy says what a policy in force at some moment   *)
(* of the assembly says; an item with any authority has no data among the  *)
(* origins it derives from, and derivation is well founded                 *)
(* (_validate_source_references, _durable_policy_reference_is_current).    *)
AuthorityGrounded ==
    /\ OriginsTypeOK
    /\ \A o \in Origins : (origin[o] # Null /\ origin[o].parent # Null) =>
          origin[o].parent < o /\ origin[origin[o].parent] # Null
    /\ \A c \in Callers : (Packaging(c)) =>
          \A o \in DOMAIN doing[c].items :
             LET a == doing[c].items[o]
             IN  /\ a = "durable_user_policy" => <<origin[o].policy, origin[o].content>> \in inForce[c]
                 /\ Purposes(a) # {} => \A q \in Ancestors(o) : origin[q].class \notin DataOnly
=============================================================================
