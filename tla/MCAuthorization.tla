---------------------------- MODULE MCAuthorization ----------------------------
(* Model-checking instance of Authorization and Settings: two permission    *)
(* records of one identity, or a confirmation, or two settings of one key.  *)
EXTENDS Authorization, Settings, TLC

CONSTANT low        \* the request that needs no confirmation

VARIABLE part

(* Every request needs the same permission identity. *)
OneKey == [r \in Requests |-> AnyKey]

Parts == {"permissions", "confirmations", "settings"}

(* Bounds of each half, on top of MaxTime and MaxRev. *)
PermissionsOnly ==
    /\ now' <= 1
    /\ \A cl \in Clients :
          calls'[cl].pc \in {"permission", "auditDecision", "returned"} => calls'[cl].request = low
    /\ history' = history
    /\ \A cl \in Clients : calls'[cl].pc # "issueTxn"

ConfirmationsOnly ==
    /\ \A p \in Perms : 
          perms'[p].mode \in {"denied", "scoped"} /\ perms'[p].expires \in {0, Never}
    /\ Cardinality({p \in Perms : perms'[p] # NoPerm}) <= 1
    /\ \A cl \in Clients : calls'[cl].pc # "permTxn"
    /\ \A cl \in Clients : calls'[cl].pc = "permission" => calls'[cl].request # low

MCInit == Init /\ SettingsInit /\ part \in Parts
MCNext ==
    \/ /\ part \in {"permissions", "confirmations"}
       /\ Next
       /\ part = "permissions" => PermissionsOnly
       /\ part = "confirmations" => ConfirmationsOnly
       /\ UNCHANGED <<settingVars, part>>
    \/ part = "settings" /\ SettingsNext /\ UNCHANGED <<vars, part>>
MCSpec == MCInit /\ [][MCNext]_<<vars, settingVars, part>>

Symmetry == Permutations(Clients) \union Permutations(Perms)
================================================================================
