--------------------------- MODULE ModelBindings ---------------------------
(***************************************************************************)
(* Runtime and model manifests, the bindings of one scope to them          *)
(* (model_manifest.py) and the explicit switch from one binding to another *)
(* (model_switch.py).  Every operation reads and validates outside its     *)
(* transaction and compares one record's revision inside it.               *)
(*                                                                         *)
(* Revisions only grow, so a comparison of revisions asks whether a record *)
(* has changed since it was read: fresh[c] is the set of records unchanged *)
(* since client c read them, and pinned[b] the manifests unchanged since   *)
(* binding b recorded their revisions.                                     *)
(***************************************************************************)
EXTENDS Integers, FiniteSets

CONSTANTS Clients,    \* processes with a connection of their own
          Runtimes,   \* runtime manifests
          Models,     \* model manifests
          Bindings,   \* bindings of the scope
          RuntimeOf,  \* the runtime manifest a model manifest names
          ModelOf     \* the model manifest a binding names

None == "none"

\* None stands for the absence of a record: no identifier is it.
ASSUME BindingsAssumption ==
    /\ RuntimeOf \in [Models -> Runtimes]
    /\ ModelOf \in [Bindings -> Models]
    /\ Runtimes \cap Models = {}
    /\ Bindings \cap (Runtimes \cup Models) = {}
    /\ None \notin Runtimes \cup Models \cup Bindings

VARIABLES manifest,  \* the state of each manifest
          binding,   \* state, smoke test and previous binding of each binding
          pinned,    \* manifests still at the revision the binding recorded
          fresh,     \* records unchanged since the client read them
          pend,      \* the validated operation a client is about to commit
          switch,    \* the switch a client is carrying out
          overlapped \* history: two clients were at work at once

vars == <<manifest, binding, pinned, fresh, pend, switch, overlapped>>

Manifests == Runtimes \cup Models

\* "reviewed" is a candidate whose license has been accepted; quarantined,
\* deprecated and unavailable manifests are all "inactive".
ManifestStates == {"absent", "candidate", "reviewed", "verified", "inactive"}
BindingStates == {"absent", "candidate", "active", "previous", "fallback",
                   "disabled", "rolled_back"}

TargetStates == {"candidate", "previous", "fallback", "disabled"}
Smoke == {"not_run", "passed", "failed"}
Phases == {"none", "target", "probe", "smoke", "activate", "verify",
                   "rollback", "unsmoke", "confirm", "done"}
Outcomes == {"none", "switched", "preflight_failed", "rolled_back",
                   "refused", "error", "rollbackError"}

NoSwitch == [phase |-> "none", active |-> None, target |-> None, outcome |-> "none"]
NoPend == [do |-> None, on |-> None, arg |-> None]

Init ==
    /\ manifest = [m \in Manifests |-> "absent"]
    /\ binding = [b \in Bindings |-> [state |-> "absent", smoke |-> "not_run", prev |-> None]]
    /\ pinned = [b \in Bindings |-> {}]
    /\ fresh = [c \in Clients |-> {}]
    /\ pend = [c \in Clients |-> NoPend]
    /\ switch = [c \in Clients |-> NoSwitch]
    /\ overlapped = FALSE

Needs(b) == {ModelOf[b], RuntimeOf[ModelOf[b]]}

\* _activation_manifests: verified, and at the recorded revisions.
Usable(b) == \A m \in Needs(b) : manifest[m] = "verified" /\ m \in pinned[b]

Active == {b \in Bindings : binding[b].state = "active"}

\* A client between operations; the switch it last finished may still be shown.
Idle(c) == pend[c] = NoPend /\ switch[c].phase \in {"none", "done"}

\* The client has validated an operation on a record it has just read.
Ready(c, do, on, arg, read) ==
    /\ pend' = [pend EXCEPT ![c] = [do |-> do, on |-> on, arg |-> arg]]
    /\ fresh' = [fresh EXCEPT ![c] = read]

\* A change that client c commits is a new revision of each record it changed.
Touch(c, changed) ==
    /\ fresh' = [x \in Clients |-> IF x = c THEN {} ELSE fresh[x] \ changed]
    /\ pinned' = [b \in Bindings |-> pinned[b] \ changed]

----------------------------------------------------------------------------
\* Manifests.

CreateManifest(m) ==
    /\ manifest[m] = "absent"
    /\ m \in Models => manifest[RuntimeOf[m]] # "absent"
    /\ manifest' = [manifest EXCEPT ![m] = "candidate"]
    /\ UNCHANGED <<binding, pinned, fresh, pend, switch>>

\* Mutant: only active bindings keep a manifest.
UnselectedByActive(m) == \A b \in Active : m \notin Needs(b)

\* _require_no_selectable_bindings.
Unselected(m) == \A b \in Bindings :
    m \in Needs(b) => binding[b].state \notin {"active", "fallback"}

MayBecome(m, state) ==
    CASE state \in {"candidate", "reviewed"} ->
             m \in Models /\ manifest[m] \in {"candidate", "reviewed"}
      [] state = "verified" ->
             IF m \in Models
             THEN manifest[m] = "reviewed" /\ manifest[RuntimeOf[m]] = "verified"
             ELSE manifest[m] = "candidate"
      [] state = "inactive" -> manifest[m] # "absent" /\ Unselected(m)

PrepareManifest(c, m) ==
    /\ Idle(c)
    /\ \E state \in ManifestStates \ {"absent"} :
          MayBecome(m, state) /\ Ready(c, "manifest", m, state, {m})
    /\ switch' = [switch EXCEPT ![c] = NoSwitch]
    /\ UNCHANGED <<manifest, binding, pinned>>

----------------------------------------------------------------------------
\* Operations on bindings: what each requires before its transaction.

PrepareCreate(c, b) ==
    /\ Idle(c)
    /\ binding[b].state = "absent"
    /\ \A m \in Needs(b) : manifest[m] # "absent"
    /\ \E smoke \in Smoke : Ready(c, "create", b, smoke, Needs(b) \cup {b})
    /\ switch' = [switch EXCEPT ![c] = NoSwitch]
    /\ UNCHANGED <<manifest, binding, pinned>>

PrepareSmoke(c, b) ==
    /\ Idle(c)
    /\ binding[b].state # "absent"
    /\ \E smoke \in Smoke : Ready(c, "smoke", b, smoke, {b})
    /\ switch' = [switch EXCEPT ![c] = NoSwitch]
    /\ UNCHANGED <<manifest, binding, pinned>>

PrepareFallback(c, b) ==
    /\ Idle(c)
    /\ binding[b].state \in TargetStates
    /\ binding[b].smoke = "passed"
    /\ Usable(b)
    /\ Ready(c, "fallback", b, None, {b})
    /\ switch' = [switch EXCEPT ![c] = NoSwitch]
    /\ UNCHANGED <<manifest, binding, pinned>>

PrepareDisable(c, b) ==
    /\ Idle(c)
    /\ binding[b].state \notin {"absent", "rolled_back"}
    /\ Ready(c, "disable", b, None, {b})
    /\ switch' = [switch EXCEPT ![c] = NoSwitch]
    /\ UNCHANGED <<manifest, binding, pinned>>

\* activate_binding reads the active binding before its transaction begins.
MayActivate(b) ==
    /\ binding[b].state \in TargetStates
    /\ binding[b].smoke = "passed"
    /\ Usable(b)

CurrentActive == IF Active = {} THEN None ELSE CHOOSE b \in Active : TRUE

PrepareActivate(c, b) ==
    /\ Idle(c)
    /\ MayActivate(b)
    /\ Ready(c, "activate", b, CurrentActive, {b})
    /\ switch' = [switch EXCEPT ![c] = NoSwitch]
    /\ UNCHANGED <<manifest, binding, pinned>>

MayRollBack(b) ==
    LET prev == binding[b].prev
    IN  /\ binding[b].state = "active"
        /\ prev # None
        /\ binding[prev].state = "previous"
        /\ Usable(prev)

PrepareRollback(c, b) ==
    /\ Idle(c)
    /\ MayRollBack(b)
    /\ Ready(c, "rollback", b, binding[b].prev, {b})
    /\ switch' = [switch EXCEPT ![c] = NoSwitch]
    /\ UNCHANGED <<manifest, binding, pinned>>

----------------------------------------------------------------------------
\* The transactions.

\* The record still has the revision the caller expects.
RevisionExpected(c) == pend[c].on \in fresh[c]

\* model_binding_one_active_scope_idx: no third binding is active.
IndexHolds(b, prev) == Active \subseteq {b, prev}

\* The two rows activate_binding writes; the previous one as it is now.
Activated(b, prev) ==
    [x \in Bindings |->
        IF x = b THEN [binding[b] EXCEPT !.state = "active", !.prev = prev]
        ELSE IF x = prev THEN [binding[x] EXCEPT !.state = "previous"]
        ELSE binding[x]]

\* The two rows rollback_binding writes.
RolledBack(b, prev) ==
    [x \in Bindings |->
        IF x = b THEN [binding[b] EXCEPT !.state = "rolled_back"]
        ELSE IF x = prev THEN [binding[x] EXCEPT !.state = "active", !.prev = None]
        ELSE binding[x]]

\* Where a switch goes on after one of its transactions.
AfterCommit(c) ==
    LET s == switch[c]
    IN  CASE s.phase = "smoke" /\ pend[c].arg = "passed" -> [s EXCEPT !.phase = "activate"]
          [] s.phase = "smoke" /\ pend[c].arg # "passed" ->
                 [s EXCEPT !.phase = "done", !.outcome = "preflight_failed"]
          [] s.phase = "activate" -> [s EXCEPT !.phase = "verify"]
          [] s.phase = "rollback" -> [s EXCEPT !.phase = "unsmoke"]
          [] s.phase = "unsmoke"  -> [s EXCEPT !.phase = "confirm"]
          [] OTHER                -> s

CommitManifest(c) ==
    /\ pend[c].do = "manifest"
    /\ RevisionExpected(c)
    /\ manifest' = [manifest EXCEPT ![pend[c].on] = pend[c].arg]
    /\ Touch(c, {pend[c].on})
    /\ pend' = [pend EXCEPT ![c] = NoPend]
    /\ UNCHANGED <<binding, switch>>

\* A new record; nothing else can have its identifier.
CommitCreate(c) ==
    LET b == pend[c].on
    IN  /\ pend[c].do = "create"
        /\ RevisionExpected(c)
        /\ binding' = [binding EXCEPT ![b] = [state |-> "candidate",
                                              smoke |-> pend[c].arg, prev |-> None]]
        /\ pinned' = [pinned EXCEPT ![b] = Needs(b) \cap fresh[c]]
        /\ fresh' = [x \in Clients |-> IF x = c THEN {} ELSE fresh[x] \ {b}]
        /\ pend' = [pend EXCEPT ![c] = NoPend]
        /\ UNCHANGED <<manifest, switch>>

CommitBinding(c) ==
    LET b == pend[c].on
        prev == pend[c].arg
    IN  /\ RevisionExpected(c)
        /\ \/ /\ pend[c].do = "smoke"
              /\ binding' = [binding EXCEPT ![b].smoke = pend[c].arg]
              /\ Touch(c, {b})
           \/ /\ pend[c].do = "fallback"
              /\ binding' = [binding EXCEPT ![b].state = "fallback"]
              /\ Touch(c, {b})
           \/ /\ pend[c].do = "disable"
              /\ binding' = [binding EXCEPT ![b].state = "disabled"]
              /\ Touch(c, {b})
           \/ /\ pend[c].do = "activate"
              /\ IndexHolds(b, prev)
              /\ binding' = Activated(b, prev)
              /\ Touch(c, {b, prev})
           \/ /\ pend[c].do = "rollback"
              /\ binding' = RolledBack(b, prev)
              /\ Touch(c, {b, prev})
        /\ pend' = [pend EXCEPT ![c] = NoPend]
        /\ switch' = [switch EXCEPT ![c] = AfterCommit(c)]
        /\ UNCHANGED manifest

\* A switch that raises: after the activation it is a rollback error.
Raised(c) ==
    LET s == switch[c]
    IN  IF s.phase \in {"none", "done"} THEN s
        ELSE [s EXCEPT !.phase = "done",
                       !.outcome = IF s.phase \in {"rollback", "unsmoke", "confirm"}
                                   THEN "rollbackError" ELSE "error"]

\* StaleRevisionError, or the unique index refuses a second active binding.
CommitFails(c) ==
    /\ pend[c] # NoPend
    /\ ~RevisionExpected(c) \/ (pend[c].do = "activate" /\ ~IndexHolds(pend[c].on, pend[c].arg))
    /\ pend' = [pend EXCEPT ![c] = NoPend]
    /\ switch' = [switch EXCEPT ![c] = Raised(c)]
    /\ fresh' = [fresh EXCEPT ![c] = {}]
    /\ UNCHANGED <<manifest, binding, pinned>>

----------------------------------------------------------------------------
\* ModelSwitchService._switch, between its transactions.

SwitchBegin(c) ==
    /\ Idle(c)
    /\ \E b \in Active :
          /\ Usable(b)
          /\ switch' = [switch EXCEPT ![c] = [NoSwitch EXCEPT !.phase = "target", !.active = b]]
    /\ UNCHANGED <<manifest, binding, pinned, fresh, pend>>

SwitchTarget(c) ==
    /\ switch[c].phase = "target"
    /\ \E b \in Bindings \ {switch[c].active} :
          /\ binding[b].state \in TargetStates
          /\ Usable(b)
          /\ switch' = [switch EXCEPT ![c].phase = "probe", ![c].target = b]
          /\ fresh' = [fresh EXCEPT ![c] = {b}]
    /\ UNCHANGED <<manifest, binding, pinned, pend>>

SwitchRefused(c) ==
    /\ switch[c].phase = "target"
    /\ switch' = [switch EXCEPT ![c].phase = "done", ![c].outcome = "refused"]
    /\ UNCHANGED <<manifest, binding, pinned, fresh, pend>>

\* The first probe, and set_smoke_test with the revision read before it.
SwitchProbe(c) ==
    /\ switch[c].phase = "probe"
    /\ \E verdict \in {"passed", "failed"} :
          Ready(c, "smoke", switch[c].target, verdict, fresh[c])
    /\ switch' = [switch EXCEPT ![c].phase = "smoke"]
    /\ UNCHANGED <<manifest, binding, pinned>>

SwitchActivate(c) ==
    LET b == switch[c].target
    IN  /\ switch[c].phase = "activate"
        /\ pend[c] = NoPend
        /\ \/ /\ MayActivate(b)
              /\ Ready(c, "activate", b, CurrentActive, {b})
              /\ UNCHANGED switch
           \/ /\ ~MayActivate(b)
              /\ switch' = [switch EXCEPT ![c] = Raised(c)]
              /\ UNCHANGED <<pend, fresh>>
        /\ UNCHANGED <<manifest, binding, pinned>>

\* Mutant: a failed probe leaves the target active.
SwitchVerifyNoRollback(c) ==
    LET b == switch[c].target
    IN  /\ switch[c].phase = "verify"
        /\ \E outcome \in {"switched", "rolled_back"} :
              switch' = [switch EXCEPT ![c].phase = "done", ![c].outcome = outcome]
        /\ UNCHANGED <<manifest, binding, pinned, fresh, pend>>

\* The second probe follows only when the target is the active binding.
SwitchVerify(c) ==
    LET b == switch[c].target
    IN  /\ switch[c].phase = "verify"
        /\ \/ /\ Active = {b}
              /\ Usable(b)
              /\ switch' = [switch EXCEPT ![c].phase = "done", ![c].outcome = "switched"]
              /\ UNCHANGED fresh
           \/ /\ switch' = [switch EXCEPT ![c].phase = "rollback"]
              /\ fresh' = [fresh EXCEPT ![c] = {b}]
        /\ UNCHANGED <<manifest, binding, pinned, pend>>

SwitchRollback(c) ==
    LET b == switch[c].target
    IN  /\ switch[c].phase = "rollback"
        /\ pend[c] = NoPend
        /\ \/ /\ MayRollBack(b)
              /\ Ready(c, "rollback", b, binding[b].prev, fresh[c])
              /\ UNCHANGED switch
           \/ /\ ~MayRollBack(b)
              /\ switch' = [switch EXCEPT ![c] = Raised(c)]
              /\ UNCHANGED <<pend, fresh>>
        /\ UNCHANGED <<manifest, binding, pinned>>

SwitchUnsmoke(c) ==
    /\ switch[c].phase = "unsmoke"
    /\ pend[c] = NoPend
    /\ Ready(c, "smoke", switch[c].target, "failed", {switch[c].target})
    /\ UNCHANGED <<manifest, binding, pinned, switch>>

SwitchConfirm(c) ==
    LET s == switch[c]
    IN  /\ s.phase = "confirm"
        /\ switch' = [switch EXCEPT ![c].phase = "done",
                         ![c].outcome = IF Active = {s.active} /\ Usable(s.active)
                                        THEN "rolled_back" ELSE "rollbackError"]
        /\ UNCHANGED <<manifest, binding, pinned, fresh, pend>>

----------------------------------------------------------------------------
\* The process dies and starts again.
Crash(c) ==
    /\ pend[c] # NoPend \/ switch[c].phase \notin {"none", "done"}
    /\ pend' = [pend EXCEPT ![c] = NoPend]
    /\ switch' = [switch EXCEPT ![c] = NoSwitch]
    /\ fresh' = [fresh EXCEPT ![c] = {}]
    /\ UNCHANGED <<manifest, binding, pinned>>

Operation ==
    \/ \E m \in Manifests : CreateManifest(m)
    \/ \E c \in Clients, m \in Manifests : PrepareManifest(c, m)
    \/ \E c \in Clients, b \in Bindings :
          \/ PrepareCreate(c, b) \/ PrepareSmoke(c, b) \/ PrepareFallback(c, b)
          \/ PrepareDisable(c, b) \/ PrepareActivate(c, b) \/ PrepareRollback(c, b)
    \/ \E c \in Clients :
          \/ CommitManifest(c) \/ CommitCreate(c) \/ CommitBinding(c) \/ CommitFails(c)
          \/ SwitchBegin(c) \/ SwitchTarget(c) \/ SwitchRefused(c) \/ SwitchProbe(c)
          \/ SwitchActivate(c) \/ SwitchVerify(c) \/ SwitchRollback(c)
          \/ SwitchUnsmoke(c) \/ SwitchConfirm(c) \/ Crash(c)

Next ==
    /\ Operation
    /\ overlapped' = (overlapped \/ \E c, d \in Clients : c # d /\ ~Idle(c)' /\ ~Idle(d)')

Spec == Init /\ [][Next]_vars

----------------------------------------------------------------------------
\* Every variable has its type (the record shapes of model_manifest.py).
TypeOK ==
    /\ manifest \in [Manifests -> ManifestStates]
    /\ binding \in [Bindings -> [state : BindingStates, smoke : Smoke,
                                 prev : Bindings \cup {None}]]
    /\ pinned \in [Bindings -> SUBSET Manifests]
    /\ fresh \in [Clients -> SUBSET (Manifests \cup Bindings)]
    /\ pend \in [Clients -> [do : {None, "manifest", "create", "smoke", "fallback",
                                   "disable", "activate", "rollback"},
                             on : Manifests \cup Bindings \cup {None},
                             arg : ManifestStates \cup Smoke \cup Bindings \cup {None}]]
    /\ switch \in [Clients -> [phase : Phases, active : Bindings \cup {None},
                               target : Bindings \cup {None}, outcome : Outcomes]]

\* The scope has one active binding at most, whatever activations, rollbacks
\* and switches race (the unique index of schema 3 and what relies on it).
OneActiveBinding == Cardinality(Active) <= 1

\* A binding becomes active by an activation only when the smoke test recorded
\* in that very revision has passed, although it was read before the
\* transaction (activate_binding).
ActivationTested ==
    \A b \in Bindings :
        /\ b \notin Active /\ b \in Active'
        /\ ~\E a \in Active : binding'[a].state = "rolled_back"
        => binding[b].smoke = "passed" /\ binding[b].state \in TargetStates

\* Every binding that is active or offered as a fallback names verified
\* manifests at the recorded revisions (_activation_manifests on one side,
\* _require_no_selectable_bindings on the other).
SelectableUsable ==
    \A b \in Bindings : binding[b].state \in {"active", "fallback"} => Usable(b)

\* The same as long as no two clients were ever at work at once: no sequence of
\* complete operations, failures and crashes breaks it, only a race.
SelectableUsableSerially == ~overlapped => SelectableUsable

\* As long as no two clients were ever at work at once, a switch that did not
\* succeed leaves the binding it started from active and the target marked as
\* failed, and its rollback never fails (_switch).
Restored(c) ==
    /\ switch[c].outcome # "rollbackError"
    /\ switch[c].outcome \in {"preflight_failed", "rolled_back"} =>
          Active = {switch[c].active} /\ binding[switch[c].target].smoke = "failed"

FailedSwitchRestores ==
    \A c \in Clients :
        switch[c].phase # "done" /\ switch'[c].phase = "done" /\ ~overlapped'
        => Restored(c)'

\* A binding that was rolled back stays so, and is never selected or offered in
\* one step.  With three bindings a race can bring it back: an activation that was
\* prepared while it was the active one writes "previous" over whatever it is
\* when the transaction reads it again (activate_binding).
RolledBackStays ==
    \A b \in Bindings : binding[b].state = "rolled_back" =>
        \/ binding'[b].state = "rolled_back"
        \/ /\ overlapped
           /\ binding'[b].state = "previous"

\* What is selected, whatever administration and switches race: one active
\* binding at most, and usable ones only as long as nothing overlapped.
SelectionSound == TypeOK /\ OneActiveBinding /\ SelectableUsableSerially

\* How the selection changes: by a tested activation, not back to a binding that
\* was rolled back, and by a failed switch not at all.
SelectionStepsSound == [][ActivationTested /\ FailedSwitchRestores /\ RolledBackStays]_vars
============================================================================
