------------------------- MODULE ModelBindingsProofs -------------------------
(***************************************************************************)
(* Model bindings and the switch, for any number of clients, manifests and *)
(* bindings.  A client's transaction compares one revision: what it has    *)
(* prepared holds of that record while it is unchanged, and nothing is     *)
(* compared of the others.  The properties that races break hold while one *)
(* client is at work at a time, and rest on what that client knows at each *)
(* phase of its switch.                                                    *)
(***************************************************************************)
EXTENDS ModelBindings, FiniteSetTheorems, TLAPS

BindingOps == {"create", "smoke", "fallback", "disable", "activate", "rollback"}

(* The arguments of an operation, and what its transaction finds if the    *)
(* record it compares is unchanged.                                        *)
PendOK(c) ==
    LET p == pend[c]
        b == p.on
    IN  /\ p.do = None => p = NoPend
        /\ p.do = "manifest" => b \in Manifests /\ p.arg \in ManifestStates
        /\ p.do \in BindingOps => b \in Bindings
        /\ p.do \in {"create", "smoke"} => p.arg \in Smoke
        /\ p.do = "activate" => p.arg \in (Bindings \cup {None}) \ {b}
        /\ p.do = "rollback" => p.arg \in Bindings \ {b}
        /\ b \in fresh[c] =>
              /\ p.do = "create" => binding[b].state = "absent"
              /\ p.do = "fallback" => binding[b].state \in TargetStates
              /\ p.do = "disable" => binding[b].state # "rolled_back"
              /\ p.do = "activate" =>
                    binding[b].state \in TargetStates /\ binding[b].smoke = "passed"
              /\ p.do = "rollback" => binding[b].state = "active" /\ binding[b].prev = p.arg

(* The operation under way in each phase of a switch. *)
SwitchOK(c) ==
    LET p == pend[c]
        s == switch[c]
    IN  /\ s.phase = "target" => s.active \in Bindings
        /\ s.phase \notin {"none", "done", "target"} =>
              s.active \in Bindings /\ s.target \in Bindings
        /\ s.phase \in {"target", "probe", "verify", "confirm", "done"} => p = NoPend
        /\ s.phase = "smoke" => p.do = "smoke" /\ p.on = s.target /\ p.arg \in {"passed", "failed"}
        /\ s.phase = "activate" => p = NoPend \/ (p.do = "activate" /\ p.on = s.target)
        /\ s.phase = "rollback" => p = NoPend \/ (p.do = "rollback" /\ p.on = s.target)
        /\ s.phase = "unsmoke" =>
              p = NoPend \/ (p.do = "smoke" /\ p.on = s.target /\ p.arg = "failed")

ClientsOK == \A c \in Clients : PendOK(c) /\ SwitchOK(c)

OneActive == \A a, b \in Active : a = b

(* What the active binding would be rolled back to was not rolled back. *)
PreviousKept ==
    \A b \in Active : binding[b].prev # None => binding[binding[b].prev].state # "rolled_back"

(* What the one client at work has read is still so. *)
PendCurrent(c) ==
    LET p == pend[c]
    IN  p # NoPend =>
        /\ p.on \in fresh[c]
        /\ p.do = "manifest" =>
              IF p.arg = "inactive" THEN Unselected(p.on) ELSE manifest[p.on] # "verified"
        /\ p.do = "fallback" => Usable(p.on)
        /\ p.do = "activate" => Usable(p.on) /\ Active = {p.arg} \ {None}
        /\ p.do = "rollback" => Usable(p.arg)

SwitchCurrent(c) ==
    LET s == switch[c]
        a == s.active
        t == s.target
    IN  /\ s.phase \in {"target", "probe", "smoke", "activate", "unsmoke", "confirm"} => Active = {a}
        /\ s.phase \notin {"none", "done", "target"} => t # a
        /\ s.phase \in {"probe", "smoke"} => binding[t].state \in TargetStates
        /\ s.phase = "probe" => fresh[c] = {t}
        /\ s.phase \in {"verify", "rollback"} =>
              /\ Active = {t} /\ binding[t].prev = a
              /\ binding[a].state = "previous" /\ Usable(a)
        /\ s.phase = "rollback" /\ pend[c] = NoPend => fresh[c] = {t}
        /\ s.phase = "confirm" => binding[t].smoke = "failed"

AloneOK(c) == PendCurrent(c) /\ SwitchCurrent(c)

AtMostOneBusy == \A c, d \in Clients : ~Idle(c) /\ ~Idle(d) => c = d

Serially ==
    ~overlapped =>
        /\ AtMostOneBusy
        /\ SelectableUsable
        /\ \A c \in Clients : ~Idle(c) => AloneOK(c)

MInv == TypeOK /\ ClientsOK /\ OneActive /\ PreviousKept /\ Serially
-----------------------------------------------------------------------------
PendRec == [do : {None, "manifest", "create", "smoke", "fallback",
                  "disable", "activate", "rollback"},
            on : Manifests \cup Bindings \cup {None},
            arg : ManifestStates \cup Smoke \cup Bindings \cup {None}]
SwitchRec == [phase : Phases, active : Bindings \cup {None},
              target : Bindings \cup {None}, outcome : Outcomes]
BindingRec == [state : BindingStates, smoke : Smoke, prev : Bindings \cup {None}]

LEMMA NoPendType == NoPend \in PendRec /\ NoPend.do = None /\ NoPend.on = None
BY DEF NoPend, PendRec

LEMMA NoSwitchType == NoSwitch \in SwitchRec /\ NoSwitch.phase = "none"
BY DEF NoSwitch, SwitchRec, Phases, Outcomes

LEMMA NeedsType == ASSUME NEW b \in Bindings PROVE Needs(b) \subseteq Manifests
BY BindingsAssumption DEF Needs, Manifests

LEMMA InitMInv == Init => MInv
<1> SUFFICES ASSUME Init PROVE MInv
  OBVIOUS
<1>1. TypeOK
  <2>1. pend \in [Clients -> PendRec] /\ switch \in [Clients -> SwitchRec]
    BY NoPendType, NoSwitchType DEF Init
  <2>2. binding \in [Bindings -> BindingRec]
    BY DEF Init, BindingRec, BindingStates, Smoke
  <2>3. manifest \in [Manifests -> ManifestStates]
    BY DEF Init, ManifestStates
  <2> QED BY <2>1, <2>2, <2>3 DEF Init, TypeOK, PendRec, SwitchRec, BindingRec
<1>2. ClientsOK
  BY NoPendType, NoSwitchType DEF Init, ClientsOK, PendOK, SwitchOK, BindingOps, None
<1>3. Active = {}
  BY DEF Init, Active
<1>4. OneActive /\ PreviousKept
  BY <1>3 DEF OneActive, PreviousKept
<1>5. SelectableUsable
  BY DEF Init, SelectableUsable
<1>6. \A c \in Clients : Idle(c)
  BY NoSwitchType DEF Init, Idle
<1> QED BY <1>1, <1>2, <1>4, <1>5, <1>6 DEF MInv, Serially, AtMostOneBusy
-----------------------------------------------------------------------------
(* A step of client d leaves the others' operations alone, and no record   *)
(* that another still holds for unchanged has changed.                     *)
Others(d) ==
    \A c \in Clients \ {d} :
        /\ pend'[c] = pend[c] /\ switch'[c] = switch[c]
        /\ \A b \in Bindings : b \in fresh'[c] => b \in fresh[c] /\ binding'[b] = binding[b]

Overlap == overlapped' = (overlapped \/ \E c, d \in Clients : c # d /\ ~Idle(c)' /\ ~Idle(d)')

LEMMA OthersOK ==
    ASSUME ClientsOK, NEW d \in Clients, Others(d), PendOK(d)', SwitchOK(d)'
    PROVE  ClientsOK'
<1> SUFFICES ASSUME NEW c \in Clients, c # d PROVE PendOK(c)' /\ SwitchOK(c)'
  BY DEF ClientsOK
<1>1. PendOK(c) /\ SwitchOK(c) /\ pend'[c] = pend[c] /\ switch'[c] = switch[c]
  BY DEF ClientsOK, Others
<1>2. \A b \in Bindings : b \in fresh'[c] => b \in fresh[c] /\ binding'[b] = binding[b]
  BY DEF Others
<1>3. PendOK(c)'
  BY <1>1, <1>2 DEF PendOK, BindingOps
<1>4. SwitchOK(c)'
  BY <1>1 DEF SwitchOK
<1> QED BY <1>3, <1>4

(* While nothing overlaps, the client that takes the step is the only one  *)
(* at work.                                                                *)
LEMMA SeriallyStep ==
    ASSUME Serially, NEW d \in Clients, Others(d), Overlap, ~Idle(d) \/ ~Idle(d)',
           ~overlapped /\ ~overlapped' => SelectableUsable' /\ (~Idle(d)' => AloneOK(d)')
    PROVE  Serially'
<1> SUFFICES ASSUME ~overlapped' PROVE /\ AtMostOneBusy'
                                       /\ SelectableUsable'
                                       /\ \A c \in Clients : ~Idle(c)' => AloneOK(c)'
  BY DEF Serially
<1>1. ~overlapped /\ \A c, e \in Clients : ~Idle(c)' /\ ~Idle(e)' => c = e
  BY DEF Overlap
<1>2. \A c \in Clients \ {d} : Idle(c)' <=> Idle(c)
  BY DEF Others, Idle
<1>3. \A c \in Clients : ~Idle(c)' => c = d
  BY <1>1, <1>2 DEF Serially, AtMostOneBusy
<1> QED BY <1>1, <1>3 DEF AtMostOneBusy

(* A step of a client that stores nothing. *)
LEMMA ClientStep ==
    ASSUME MInv, NEW d \in Clients, NEW p \in PendRec, NEW s \in SwitchRec,
           NEW f \in SUBSET (Manifests \cup Bindings),
           pend' = [pend EXCEPT ![d] = p], switch' = [switch EXCEPT ![d] = s],
           fresh' = [fresh EXCEPT ![d] = f], UNCHANGED <<manifest, binding, pinned>>,
           Overlap, ~Idle(d) \/ ~Idle(d)', PendOK(d)', SwitchOK(d)',
           ~overlapped /\ ~overlapped' => (~Idle(d)' => AloneOK(d)')
    PROVE  MInv'
<1>1. TypeOK'
  <2>1. pend' \in [Clients -> PendRec]
    BY DEF MInv, TypeOK, PendRec
  <2>2. switch' \in [Clients -> SwitchRec]
    BY DEF MInv, TypeOK, SwitchRec
  <2>3. fresh' \in [Clients -> SUBSET (Manifests \cup Bindings)]
    BY DEF MInv, TypeOK
  <2> QED BY <2>1, <2>2, <2>3 DEF MInv, TypeOK, PendRec, SwitchRec
<1>2. Others(d)
  BY DEF MInv, TypeOK, Others
<1>3. ClientsOK'
  BY <1>2, OthersOK DEF MInv
<1>4. OneActive' /\ PreviousKept'
  BY DEF MInv, OneActive, PreviousKept, Active
<1>5. ~overlapped => SelectableUsable'
  BY DEF MInv, Serially, SelectableUsable, Usable
<1>6. Serially'
  BY <1>2, <1>5, SeriallyStep DEF MInv
<1> QED BY <1>1, <1>3, <1>4, <1>6 DEF MInv
-----------------------------------------------------------------------------
(* The operations until their transactions. *)
LEMMA PrepareStep ==
    ASSUME MInv, NEW d \in Clients, Idle(d), Overlap,
           NEW do, NEW on, NEW arg, NEW read \in SUBSET (Manifests \cup Bindings),
           [do |-> do, on |-> on, arg |-> arg] \in PendRec, do # None,
           Ready(d, do, on, arg, read), switch' = [switch EXCEPT ![d] = NoSwitch],
           UNCHANGED <<manifest, binding, pinned>>,
           PendOK(d)', PendCurrent(d)'
    PROVE  MInv'
<1> DEFINE p == [do |-> do, on |-> on, arg |-> arg]
<1>1. pend' = [pend EXCEPT ![d] = p] /\ fresh' = [fresh EXCEPT ![d] = read] /\ p \in PendRec
  BY DEF Ready
<1>2. p.do # None
  OBVIOUS
<1> HIDE DEF p
<1>3. pend'[d] = p /\ switch'[d] = NoSwitch
  BY <1>1 DEF MInv, TypeOK
<1>4. ~Idle(d)'
  BY <1>2, <1>3, NoPendType DEF Idle
<1>5. SwitchOK(d)' /\ SwitchCurrent(d)'
  BY <1>3, NoSwitchType DEF SwitchOK, SwitchCurrent
<1> QED BY <1>1, <1>4, <1>5, NoSwitchType, ClientStep DEF AloneOK

LEMMA PrepareManifestStep ==
    ASSUME MInv, NEW d \in Clients, NEW m \in Manifests, PrepareManifest(d, m), Overlap
    PROVE  MInv'
<1>1. PICK state \in ManifestStates \ {"absent"} :
         MayBecome(m, state) /\ Ready(d, "manifest", m, state, {m})
  BY DEF PrepareManifest
<1>2. /\ Idle(d) /\ switch' = [switch EXCEPT ![d] = NoSwitch]
      /\ UNCHANGED <<manifest, binding, pinned>>
  BY DEF PrepareManifest
<1>3. /\ [do |-> "manifest", on |-> m, arg |-> state] \in PendRec
      /\ {m} \in SUBSET (Manifests \cup Bindings)
  BY DEF PendRec
<1>4. pend'[d] = [do |-> "manifest", on |-> m, arg |-> state] /\ fresh'[d] = {m}
  BY <1>1 DEF Ready, MInv, TypeOK
<1>5. PendOK(d)'
  BY <1>4 DEF PendOK, BindingOps, None
<1>6. IF state = "inactive" THEN Unselected(m) ELSE manifest[m] # "verified"
  BY <1>1 DEF MayBecome, ManifestStates
<1>7. PendCurrent(d)'
  BY <1>2, <1>4, <1>6 DEF PendCurrent, Unselected
<1>8. "manifest" # None
  BY DEF None
<1> QED BY <1>1, <1>2, <1>3, <1>5, <1>7, <1>8, PrepareStep

(* The operations on a binding that the user starts. *)
LEMMA PrepareBindingStep ==
    ASSUME MInv, NEW d \in Clients, NEW b \in Bindings, Overlap,
           \/ PrepareCreate(d, b) \/ PrepareSmoke(d, b) \/ PrepareFallback(d, b)
           \/ PrepareDisable(d, b) \/ PrepareActivate(d, b) \/ PrepareRollback(d, b)
    PROVE  MInv'
<1>1. /\ Idle(d) /\ switch' = [switch EXCEPT ![d] = NoSwitch]
      /\ UNCHANGED <<manifest, binding, pinned>>
  BY DEF PrepareCreate, PrepareSmoke, PrepareFallback, PrepareDisable, PrepareActivate,
         PrepareRollback
<1>2. /\ b \notin Manifests /\ b # None /\ Needs(b) \subseteq Manifests
      /\ binding[b] \in BindingRec
  BY BindingsAssumption, NeedsType DEF Manifests, MInv, TypeOK, BindingRec
<1>3. ASSUME NEW do \in BindingOps, NEW arg \in Smoke \cup Bindings \cup {None},
             NEW read \in SUBSET (Manifests \cup Bindings), b \in read, Ready(d, do, b, arg, read),
             do \in {"create", "smoke"} => arg \in Smoke,
             do = "create" => binding[b].state = "absent",
             do = "fallback" => binding[b].state \in TargetStates /\ Usable(b),
             do = "disable" => binding[b].state # "rolled_back",
             do = "activate" =>
                 /\ arg \in (Bindings \cup {None}) \ {b} /\ Usable(b) /\ Active = {arg} \ {None}
                 /\ binding[b].state \in TargetStates /\ binding[b].smoke = "passed",
             do = "rollback" =>
                 /\ arg \in Bindings \ {b} /\ Usable(arg)
                 /\ binding[b].state = "active" /\ binding[b].prev = arg
      PROVE  MInv'
  <2>1. [do |-> do, on |-> b, arg |-> arg] \in PendRec /\ do # None /\ do # "manifest"
    BY <1>3 DEF PendRec, BindingOps, None
  <2>2. pend'[d] = [do |-> do, on |-> b, arg |-> arg] /\ fresh'[d] = read
    BY <1>3 DEF Ready, MInv, TypeOK
  <2>3. PendOK(d)'
    BY <1>1, <1>3, <2>1, <2>2 DEF PendOK
  <2>4. PendCurrent(d)'
    BY <1>1, <1>3, <2>1, <2>2 DEF PendCurrent, Usable, Active
  <2> QED BY <1>1, <1>3, <2>1, <2>3, <2>4, PrepareStep
<1>4. CASE PrepareCreate(d, b)
  <2>1. PICK smoke \in Smoke : Ready(d, "create", b, smoke, Needs(b) \cup {b})
    BY <1>4 DEF PrepareCreate
  <2>2. binding[b].state = "absent" /\ Needs(b) \cup {b} \in SUBSET (Manifests \cup Bindings)
    BY <1>2, <1>4 DEF PrepareCreate
  <2> QED BY <1>3, <2>1, <2>2 DEF BindingOps
<1>5. CASE PrepareSmoke(d, b)
  <2>1. PICK smoke \in Smoke : Ready(d, "smoke", b, smoke, {b})
    BY <1>5 DEF PrepareSmoke
  <2> QED BY <1>3, <2>1 DEF BindingOps
<1>6. CASE PrepareFallback(d, b)
  BY <1>3, <1>6 DEF PrepareFallback, BindingOps
<1>7. CASE PrepareDisable(d, b)
  BY <1>3, <1>7 DEF PrepareDisable, BindingOps
<1>8. CASE PrepareActivate(d, b)
  <2>1. MayActivate(b) /\ Ready(d, "activate", b, CurrentActive, {b})
    BY <1>8 DEF PrepareActivate
  <2>2. CurrentActive \in (Bindings \cup {None}) \ {b} /\ Active = {CurrentActive} \ {None}
    BY <1>2, <2>1, BindingsAssumption DEF CurrentActive, Active, MayActivate, TargetStates,
                                          MInv, OneActive
  <2> QED BY <1>3, <2>1, <2>2 DEF BindingOps, MayActivate
<1>9. CASE PrepareRollback(d, b)
  <2>1. MayRollBack(b) /\ Ready(d, "rollback", b, binding[b].prev, {b})
    BY <1>9 DEF PrepareRollback
  <2>2. binding[b].prev \in Bindings \ {b}
    BY <1>2, <2>1 DEF MayRollBack, BindingRec
  <2> QED BY <1>3, <2>1, <2>2 DEF BindingOps, MayRollBack
<1> QED BY <1>4, <1>5, <1>6, <1>7, <1>8, <1>9

(* A new manifest is one that nothing needed, and not yet verified. *)
LEMMA CreateManifestStep ==
    ASSUME MInv, NEW m \in Manifests, CreateManifest(m), Overlap
    PROVE  MInv'
<1>1. /\ manifest[m] = "absent" /\ manifest' = [manifest EXCEPT ![m] = "candidate"]
      /\ UNCHANGED <<binding, pinned, fresh, pend, switch>>
  BY DEF CreateManifest
<1>2. TypeOK'
  BY <1>1 DEF MInv, TypeOK, ManifestStates, Overlap
<1>3. ClientsOK' /\ OneActive' /\ PreviousKept'
  BY <1>1 DEF MInv, ClientsOK, PendOK, SwitchOK, OneActive, PreviousKept, Active
<1>4. \A b \in Bindings : Usable(b) => Usable(b)'
  BY <1>1, NeedsType DEF Usable, MInv, TypeOK
<1>5. Serially'
  <2> SUFFICES ASSUME ~overlapped'
               PROVE  /\ AtMostOneBusy'
                      /\ SelectableUsable'
                      /\ \A c \in Clients : ~Idle(c)' => AloneOK(c)'
    BY DEF Serially
  <2>1. ~overlapped /\ \A c \in Clients : Idle(c)' <=> Idle(c)
    BY <1>1 DEF Overlap, Idle
  <2>2. AtMostOneBusy' /\ SelectableUsable'
    BY <1>1, <1>4, <2>1 DEF MInv, Serially, AtMostOneBusy, SelectableUsable
  <2>3. ASSUME NEW c \in Clients, ~Idle(c)' PROVE AloneOK(c)'
    <3>1. AloneOK(c) /\ PendOK(c) /\ SwitchOK(c)
      BY <2>1, <2>3 DEF MInv, Serially, ClientsOK
    <3>2. PendCurrent(c)'
      BY <1>1, <1>4, <3>1 DEF AloneOK, PendCurrent, PendOK, BindingOps, Unselected, Active,
                              MInv, TypeOK
    <3>3. SwitchCurrent(c)'
      BY <1>1, <1>4, <3>1 DEF AloneOK, SwitchCurrent, SwitchOK, Active
    <3> QED BY <3>2, <3>3 DEF AloneOK
  <2> QED BY <2>2, <2>3
<1> QED BY <1>2, <1>3, <1>5 DEF MInv
-----------------------------------------------------------------------------
(* The switch between its transactions. *)
LEMMA SamePlace ==
    ASSUME NEW S, NEW T, NEW f \in [S -> T], NEW x \in S
    PROVE  f = [f EXCEPT ![x] = f[x]]
OBVIOUS

(* A phase of the switch that prepares nothing. *)
LEMMA SwitchMoves ==
    ASSUME MInv, NEW d \in Clients, NEW s \in SwitchRec,
           NEW f \in SUBSET (Manifests \cup Bindings), pend[d] = NoPend, pend' = pend,
           switch' = [switch EXCEPT ![d] = s], fresh' = [fresh EXCEPT ![d] = f],
           UNCHANGED <<manifest, binding, pinned>>, Overlap,
           ~Idle(d) \/ s.phase \notin {"none", "done"},
           s.phase \in {"target", "probe", "verify", "rollback", "done"},
           s.phase # "done" => s.active \in Bindings,
           s.phase \notin {"done", "target"} => s.target \in Bindings,
           ~overlapped /\ ~overlapped' => (s.phase # "done" => SwitchCurrent(d)')
    PROVE  MInv'
<1>1. switch'[d] = s /\ pend'[d] = NoPend /\ pend' = [pend EXCEPT ![d] = NoPend]
  BY SamePlace DEF MInv, TypeOK
<1>2. PendOK(d)' /\ PendCurrent(d)'
  BY <1>1, NoPendType DEF PendOK, PendCurrent, BindingOps, None
<1>3. SwitchOK(d)'
  BY <1>1 DEF SwitchOK
<1>4. Idle(d)' <=> s.phase \in {"none", "done"}
  BY <1>1 DEF Idle
<1> QED BY <1>1, <1>2, <1>3, <1>4, NoPendType, ClientStep DEF AloneOK

(* What the client knows when it is at work alone. *)
LEMMA AloneKnows ==
    ASSUME MInv, NEW d \in Clients, ~Idle(d), ~overlapped
    PROVE  AloneOK(d) /\ SelectableUsable
BY DEF MInv, Serially

LEMMA SwitchBeginStep ==
    ASSUME MInv, NEW d \in Clients, SwitchBegin(d), Overlap
    PROVE  MInv'
<1>1. PICK b \in Active :
         switch' = [switch EXCEPT ![d] = [NoSwitch EXCEPT !.phase = "target", !.active = b]]
  BY DEF SwitchBegin
<1> DEFINE s == [NoSwitch EXCEPT !.phase = "target", !.active = b]
<1>2. /\ b \in Bindings /\ Active = {b} /\ pend[d] = NoPend
      /\ UNCHANGED <<manifest, binding, pinned, fresh, pend>>
  BY DEF SwitchBegin, Idle, MInv, OneActive, Active
<1>3. s \in SwitchRec /\ s.phase = "target" /\ s.active = b
  BY <1>2 DEF NoSwitch, SwitchRec, Phases, Outcomes
<1> HIDE DEF s
<1>4. fresh' = [fresh EXCEPT ![d] = fresh[d]] /\ fresh[d] \in SUBSET (Manifests \cup Bindings)
  BY <1>2, SamePlace DEF MInv, TypeOK
<1>5. switch' = [switch EXCEPT ![d] = s] /\ switch'[d] = s
  BY <1>1 DEF s, MInv, TypeOK
<1>6. SwitchCurrent(d)'
  BY <1>2, <1>3, <1>5 DEF SwitchCurrent, Active
<1> QED BY <1>2, <1>3, <1>4, <1>5, <1>6, SwitchMoves

LEMMA SwitchTargetStep ==
    ASSUME MInv, NEW d \in Clients, SwitchTarget(d), Overlap
    PROVE  MInv'
<1>1. PICK b \in Bindings \ {switch[d].active} :
          /\ binding[b].state \in TargetStates
          /\ switch' = [switch EXCEPT ![d].phase = "probe", ![d].target = b]
          /\ fresh' = [fresh EXCEPT ![d] = {b}]
  BY DEF SwitchTarget
<1> DEFINE s == [switch[d] EXCEPT !.phase = "probe", !.target = b]
<1>2. /\ switch[d] \in SwitchRec /\ switch[d].phase = "target" /\ ~Idle(d)
      /\ UNCHANGED <<manifest, binding, pinned, pend>>
  BY DEF SwitchTarget, MInv, TypeOK, SwitchRec, Idle
<1>3. pend[d] = NoPend /\ switch[d].active \in Bindings
  BY <1>2 DEF MInv, ClientsOK, SwitchOK
<1>4. s \in SwitchRec /\ s.phase = "probe" /\ s.target = b /\ s.active = switch[d].active
  BY <1>2 DEF SwitchRec, Phases
<1>5. switch' = [switch EXCEPT ![d] = s]
  BY <1>1 DEF MInv, TypeOK
<1> HIDE DEF s
<1>6. switch'[d] = s /\ fresh'[d] = {b}
  BY <1>1, <1>5 DEF MInv, TypeOK
<1>7. ~overlapped => SwitchCurrent(d)'
  BY <1>1, <1>2, <1>4, <1>6, AloneKnows DEF AloneOK, SwitchCurrent, Active
<1> QED BY <1>1, <1>2, <1>3, <1>4, <1>5, <1>7, SwitchMoves

(* A switch that ends, whatever its outcome. *)
LEMMA SwitchEnds ==
    ASSUME MInv, NEW d \in Clients, NEW s \in SwitchRec, s.phase = "done",
           switch[d].phase \notin {"none", "done"}, pend[d] = NoPend,
           switch' = [switch EXCEPT ![d] = s],
           UNCHANGED <<manifest, binding, pinned, fresh, pend>>, Overlap
    PROVE  MInv'
<1>1. fresh' = [fresh EXCEPT ![d] = fresh[d]] /\ fresh[d] \in SUBSET (Manifests \cup Bindings)
  BY SamePlace DEF MInv, TypeOK
<1>2. ~Idle(d)
  BY DEF Idle
<1> QED BY <1>1, <1>2, SwitchMoves

LEMMA RaisedType ==
    ASSUME MInv, NEW d \in Clients
    PROVE  /\ Raised(d) \in SwitchRec
           /\ switch[d].phase \notin {"none", "done"} => Raised(d).phase = "done"
<1>1. switch[d] \in SwitchRec
  BY DEF MInv, TypeOK, SwitchRec
<1>2. CASE switch[d].phase \in {"none", "done"}
  BY <1>1, <1>2 DEF Raised
<1>3. CASE switch[d].phase \notin {"none", "done"}
  <2>1. PICK o \in {"rollbackError", "error"} :
           Raised(d) = [switch[d] EXCEPT !.phase = "done", !.outcome = o]
    BY <1>3 DEF Raised
  <2> QED BY <1>1, <2>1 DEF SwitchRec, Phases, Outcomes
<1> QED BY <1>2, <1>3

LEMMA SwitchRefusedStep ==
    ASSUME MInv, NEW d \in Clients, SwitchRefused(d), Overlap
    PROVE  MInv'
<1> DEFINE s == [switch[d] EXCEPT !.phase = "done", !.outcome = "refused"]
<1>1. s \in SwitchRec /\ s.phase = "done"
  BY DEF MInv, TypeOK, SwitchRec, Phases, Outcomes
<1>2. switch' = [switch EXCEPT ![d] = s] /\ switch[d].phase = "target"
  BY DEF SwitchRefused, MInv, TypeOK
<1>3. pend[d] = NoPend
  BY <1>2 DEF MInv, ClientsOK, SwitchOK
<1> QED BY <1>1, <1>2, <1>3, SwitchEnds DEF SwitchRefused

LEMMA SwitchConfirmStep ==
    ASSUME MInv, NEW d \in Clients, SwitchConfirm(d), Overlap
    PROVE  MInv'
<1>1. PICK o \in {"rolled_back", "rollbackError"} :
         switch' = [switch EXCEPT ![d].phase = "done", ![d].outcome = o]
  BY DEF SwitchConfirm
<1> DEFINE s == [switch[d] EXCEPT !.phase = "done", !.outcome = o]
<1>2. s \in SwitchRec /\ s.phase = "done"
  BY DEF MInv, TypeOK, SwitchRec, Phases, Outcomes
<1>3. switch' = [switch EXCEPT ![d] = s] /\ switch[d].phase = "confirm"
  BY <1>1 DEF SwitchConfirm, MInv, TypeOK
<1>4. pend[d] = NoPend
  BY <1>3 DEF MInv, ClientsOK, SwitchOK
<1> QED BY <1>2, <1>3, <1>4, SwitchEnds DEF SwitchConfirm

LEMMA SwitchVerifyStep ==
    ASSUME MInv, NEW d \in Clients, SwitchVerify(d), Overlap
    PROVE  MInv'
<1>1. /\ switch[d].phase = "verify" /\ switch[d] \in SwitchRec /\ ~Idle(d)
      /\ UNCHANGED <<manifest, binding, pinned, pend>>
  BY DEF SwitchVerify, MInv, TypeOK, SwitchRec, Idle
<1>2. /\ pend[d] = NoPend
      /\ switch[d].active \in Bindings /\ switch[d].target \in Bindings
  BY <1>1 DEF MInv, ClientsOK, SwitchOK
<1>3. CASE /\ switch' = [switch EXCEPT ![d].phase = "done", ![d].outcome = "switched"]
           /\ fresh' = fresh
  <2> DEFINE s == [switch[d] EXCEPT !.phase = "done", !.outcome = "switched"]
  <2>1. s \in SwitchRec /\ s.phase = "done"
    BY <1>1 DEF SwitchRec, Phases, Outcomes
  <2>2. switch' = [switch EXCEPT ![d] = s]
    BY <1>3 DEF MInv, TypeOK
  <2> QED BY <1>1, <1>2, <1>3, <2>1, <2>2, SwitchEnds
<1>4. CASE /\ switch' = [switch EXCEPT ![d].phase = "rollback"]
           /\ fresh' = [fresh EXCEPT ![d] = {switch[d].target}]
  <2> DEFINE s == [switch[d] EXCEPT !.phase = "rollback"]
             t == switch[d].target
  <2>1. s \in SwitchRec /\ s.phase = "rollback" /\ s.target = t /\ s.active = switch[d].active
    BY <1>1 DEF SwitchRec, Phases
  <2>2. switch' = [switch EXCEPT ![d] = s]
    BY <1>4 DEF MInv, TypeOK
  <2> HIDE DEF s
  <2>3. switch'[d] = s /\ fresh'[d] = {t}
    BY <1>4, <2>2 DEF MInv, TypeOK
  <2>4. ~overlapped => SwitchCurrent(d)'
    BY <1>1, <1>4, <2>1, <2>3, AloneKnows DEF AloneOK, SwitchCurrent, Active, Usable
  <2> QED BY <1>1, <1>2, <1>4, <2>1, <2>2, <2>4, SwitchMoves
<1> QED BY <1>3, <1>4 DEF SwitchVerify

(* A phase of the switch that prepares a transaction on its target. *)
LEMMA SwitchPrepares ==
    ASSUME MInv, NEW d \in Clients, NEW do \in {"smoke", "activate", "rollback"}, NEW arg,
           NEW f \in SUBSET (Manifests \cup Bindings), NEW s \in SwitchRec,
           s.target \in Bindings, s.active \in Bindings,
           s.target = switch[d].target, ~Idle(d),
           [do |-> do, on |-> s.target, arg |-> arg] \in PendRec,
           Ready(d, do, s.target, arg, f),
           switch' = [switch EXCEPT ![d] = s],
           UNCHANGED <<manifest, binding, pinned>>, Overlap,
           \/ s.phase = "smoke" /\ do = "smoke" /\ arg \in {"passed", "failed"}
           \/ s.phase = "unsmoke" /\ do = "smoke" /\ arg = "failed"
           \/ s.phase = "activate" /\ do = "activate"
           \/ s.phase = "rollback" /\ do = "rollback",
           PendOK(d)',
           ~overlapped /\ ~overlapped' => PendCurrent(d)' /\ SwitchCurrent(d)'
    PROVE  MInv'
<1> DEFINE p == [do |-> do, on |-> s.target, arg |-> arg]
<1>1. /\ pend' = [pend EXCEPT ![d] = p] /\ fresh' = [fresh EXCEPT ![d] = f] /\ p \in PendRec
      /\ p.do = do /\ p.on = s.target /\ p.arg = arg
  BY DEF Ready
<1> HIDE DEF p
<1>2. pend'[d] = p /\ switch'[d] = s
  BY <1>1 DEF MInv, TypeOK
<1>3. SwitchOK(d)'
  BY <1>1, <1>2 DEF SwitchOK
<1> QED BY <1>1, <1>3, ClientStep DEF AloneOK

LEMMA SwitchProbeStep ==
    ASSUME MInv, NEW d \in Clients, SwitchProbe(d), Overlap
    PROVE  MInv'
<1> DEFINE t == switch[d].target
           s == [switch[d] EXCEPT !.phase = "smoke"]
<1>1. PICK verdict \in {"passed", "failed"} : Ready(d, "smoke", t, verdict, fresh[d])
  BY DEF SwitchProbe
<1>2. /\ switch[d].phase = "probe" /\ switch[d] \in SwitchRec /\ ~Idle(d)
      /\ fresh[d] \in SUBSET (Manifests \cup Bindings)
      /\ UNCHANGED <<manifest, binding, pinned>>
  BY DEF SwitchProbe, MInv, TypeOK, SwitchRec, Idle
<1>3. switch[d].active \in Bindings /\ t \in Bindings
  BY <1>2 DEF MInv, ClientsOK, SwitchOK
<1>4. s \in SwitchRec /\ s.phase = "smoke" /\ s.target = t /\ s.active = switch[d].active
  BY <1>2 DEF SwitchRec, Phases
<1>5. switch' = [switch EXCEPT ![d] = s] /\ switch'[d] = s
  BY DEF SwitchProbe, MInv, TypeOK
<1>6. [do |-> "smoke", on |-> t, arg |-> verdict] \in PendRec /\ verdict \in Smoke
  BY <1>3 DEF PendRec, Smoke
<1>7. pend'[d] = [do |-> "smoke", on |-> t, arg |-> verdict] /\ fresh'[d] = fresh[d]
  BY <1>1 DEF Ready, MInv, TypeOK
<1> HIDE DEF s
<1>8. PendOK(d)'
  BY <1>3, <1>6, <1>7 DEF PendOK, BindingOps, None
<1>9. ~overlapped => PendCurrent(d)' /\ SwitchCurrent(d)'
  BY <1>2, <1>4, <1>5, <1>7, AloneKnows DEF AloneOK, SwitchCurrent, PendCurrent, Active
<1> QED BY <1>1, <1>2, <1>3, <1>4, <1>5, <1>6, <1>8, <1>9, SwitchPrepares

LEMMA SwitchActivateStep ==
    ASSUME MInv, NEW d \in Clients, SwitchActivate(d), Overlap
    PROVE  MInv'
<1> DEFINE t == switch[d].target
<1>1. /\ switch[d].phase = "activate" /\ switch[d] \in SwitchRec /\ ~Idle(d)
      /\ pend[d] = NoPend /\ UNCHANGED <<manifest, binding, pinned>>
  BY DEF SwitchActivate, MInv, TypeOK, SwitchRec, Idle
<1>2. switch[d].active \in Bindings /\ t \in Bindings
  BY <1>1 DEF MInv, ClientsOK, SwitchOK
<1>3. CASE /\ MayActivate(t) /\ Ready(d, "activate", t, CurrentActive, {t}) /\ switch' = switch
  <2>1. CurrentActive \in (Bindings \cup {None}) \ {t} /\ Active = {CurrentActive} \ {None}
    BY <1>2, <1>3, BindingsAssumption DEF CurrentActive, Active, MayActivate, TargetStates,
                                          MInv, OneActive
  <2>2. [do |-> "activate", on |-> t, arg |-> CurrentActive] \in PendRec
    BY <1>2, <2>1 DEF PendRec
  <2>3. /\ pend'[d] = [do |-> "activate", on |-> t, arg |-> CurrentActive] /\ fresh'[d] = {t}
        /\ switch' = [switch EXCEPT ![d] = switch[d]] /\ switch'[d] = switch[d]
    BY <1>3, SamePlace DEF Ready, MInv, TypeOK
  <2>4. PendOK(d)'
    BY <1>1, <1>2, <1>3, <2>1, <2>3 DEF PendOK, BindingOps, None, MayActivate
  <2>5. ~overlapped => PendCurrent(d)' /\ SwitchCurrent(d)'
    BY <1>1, <1>3, <2>1, <2>3, AloneKnows DEF AloneOK, SwitchCurrent, PendCurrent, Active,
                                              MayActivate, Usable
  <2> QED BY <1>1, <1>2, <1>3, <2>2, <2>3, <2>4, <2>5, SwitchPrepares
<1>4. CASE switch' = [switch EXCEPT ![d] = Raised(d)] /\ UNCHANGED <<pend, fresh>>
  BY <1>1, <1>4, RaisedType, SwitchEnds
<1> QED BY <1>3, <1>4 DEF SwitchActivate

LEMMA SwitchRollbackStep ==
    ASSUME MInv, NEW d \in Clients, SwitchRollback(d), Overlap
    PROVE  MInv'
<1> DEFINE t == switch[d].target
           prev == binding[t].prev
<1>1. /\ switch[d].phase = "rollback" /\ switch[d] \in SwitchRec /\ ~Idle(d)
      /\ fresh[d] \in SUBSET (Manifests \cup Bindings)
      /\ pend[d] = NoPend /\ UNCHANGED <<manifest, binding, pinned>>
  BY DEF SwitchRollback, MInv, TypeOK, SwitchRec, Idle
<1>2. switch[d].active \in Bindings /\ t \in Bindings
  BY <1>1 DEF MInv, ClientsOK, SwitchOK
<1>3. CASE /\ MayRollBack(t) /\ Ready(d, "rollback", t, prev, fresh[d]) /\ switch' = switch
  <2>1. prev \in Bindings \ {t} /\ binding[t].state = "active" /\ Usable(prev)
    BY <1>2, <1>3 DEF MayRollBack, MInv, TypeOK
  <2>2. [do |-> "rollback", on |-> t, arg |-> prev] \in PendRec
    BY <1>2, <2>1 DEF PendRec
  <2>3. /\ pend'[d] = [do |-> "rollback", on |-> t, arg |-> prev] /\ fresh'[d] = fresh[d]
        /\ switch' = [switch EXCEPT ![d] = switch[d]] /\ switch'[d] = switch[d]
    BY <1>3, SamePlace DEF Ready, MInv, TypeOK
  <2>4. PendOK(d)'
    BY <1>1, <1>2, <2>1, <2>3 DEF PendOK, BindingOps, None
  <2>5. ~overlapped => PendCurrent(d)'
    BY <1>1, <2>1, <2>3, AloneKnows DEF AloneOK, SwitchCurrent, PendCurrent, Usable
  <2>6. ~overlapped => SwitchCurrent(d)'
    BY <1>1, <2>3, AloneKnows, NoPendType DEF AloneOK, SwitchCurrent, Active, Usable, None
  <2> QED BY <1>1, <1>2, <1>3, <2>2, <2>3, <2>4, <2>5, <2>6, SwitchPrepares
<1>4. CASE switch' = [switch EXCEPT ![d] = Raised(d)] /\ UNCHANGED <<pend, fresh>>
  BY <1>1, <1>4, RaisedType, SwitchEnds
<1> QED BY <1>3, <1>4 DEF SwitchRollback

LEMMA SwitchUnsmokeStep ==
    ASSUME MInv, NEW d \in Clients, SwitchUnsmoke(d), Overlap
    PROVE  MInv'
<1> DEFINE t == switch[d].target
<1>1. /\ switch[d].phase = "unsmoke" /\ switch[d] \in SwitchRec /\ ~Idle(d)
      /\ Ready(d, "smoke", t, "failed", {t}) /\ UNCHANGED <<manifest, binding, pinned, switch>>
  BY DEF SwitchUnsmoke, MInv, TypeOK, SwitchRec, Idle
<1>2. switch[d].active \in Bindings /\ t \in Bindings
  BY <1>1 DEF MInv, ClientsOK, SwitchOK
<1>3. [do |-> "smoke", on |-> t, arg |-> "failed"] \in PendRec /\ "failed" \in Smoke
  BY <1>2 DEF PendRec, Smoke
<1>4. /\ pend'[d] = [do |-> "smoke", on |-> t, arg |-> "failed"] /\ fresh'[d] = {t}
      /\ switch' = [switch EXCEPT ![d] = switch[d]] /\ switch'[d] = switch[d]
  BY <1>1, SamePlace DEF Ready, MInv, TypeOK
<1>5. PendOK(d)'
  BY <1>2, <1>3, <1>4 DEF PendOK, BindingOps, None
<1>6. ~overlapped => PendCurrent(d)' /\ SwitchCurrent(d)'
  BY <1>1, <1>4, AloneKnows DEF AloneOK, SwitchCurrent, PendCurrent, Active
<1> QED BY <1>1, <1>2, <1>3, <1>4, <1>5, <1>6, SwitchPrepares

(* A client that gives up, or dies: it has nothing under way. *)
LEMMA QuitStep ==
    ASSUME MInv, NEW d \in Clients, CommitFails(d) \/ Crash(d), Overlap
    PROVE  MInv'
<1> DEFINE s == IF CommitFails(d) THEN Raised(d) ELSE NoSwitch
<1>1. /\ pend' = [pend EXCEPT ![d] = NoPend] /\ fresh' = [fresh EXCEPT ![d] = {}]
      /\ UNCHANGED <<manifest, binding, pinned>> /\ ~Idle(d)
  BY DEF CommitFails, Crash, Idle
<1>2. switch' = [switch EXCEPT ![d] = s]
  BY DEF CommitFails, Crash
<1>3. s \in SwitchRec /\ s.phase \in {"none", "done"}
  BY NoSwitchType, RaisedType DEF Raised
<1> HIDE DEF s
<1>4. pend'[d] = NoPend /\ switch'[d] = s
  BY <1>1, <1>2 DEF MInv, TypeOK
<1>5. PendOK(d)' /\ SwitchOK(d)' /\ Idle(d)'
  BY <1>3, <1>4, NoPendType DEF PendOK, SwitchOK, Idle, BindingOps, None
<1> QED BY <1>1, <1>2, <1>3, <1>5, NoPendType, ClientStep
-----------------------------------------------------------------------------
(* The transactions. *)

(* Where a switch is once its transaction has committed. *)
LEMMA AfterCommitMoves ==
    ASSUME MInv, NEW d \in Clients, pend[d].do \in BindingOps \ {"create"}
    PROVE  /\ AfterCommit(d) \in SwitchRec
           /\ AfterCommit(d).active = switch[d].active
           /\ AfterCommit(d).target = switch[d].target
           /\ \/ AfterCommit(d).phase = "none"
              \/ AfterCommit(d).phase = "done"
              \/ /\ switch[d].phase = "smoke" /\ pend[d].arg = "passed"
                 /\ AfterCommit(d).phase = "activate"
              \/ switch[d].phase = "activate" /\ AfterCommit(d).phase = "verify"
              \/ switch[d].phase = "rollback" /\ AfterCommit(d).phase = "unsmoke"
              \/ switch[d].phase = "unsmoke" /\ AfterCommit(d).phase = "confirm"
<1> DEFINE s == switch[d]
<1>1. s \in SwitchRec
  BY DEF MInv, TypeOK, SwitchRec
<1>2. pend[d] # NoPend /\ pend[d].do # None
  BY NoPendType DEF BindingOps, None
<1>3. s.phase \in {"none", "smoke", "activate", "rollback", "unsmoke"}
  <2>1. SwitchOK(d) /\ s.phase \in Phases
    BY <1>1 DEF MInv, ClientsOK, SwitchRec
  <2> QED BY <1>2, <2>1 DEF SwitchOK, Phases
<1>4. CASE s.phase = "none"
  BY <1>1, <1>4 DEF AfterCommit
<1>5. CASE s.phase = "smoke" /\ pend[d].arg = "passed"
  BY <1>1, <1>5 DEF AfterCommit, SwitchRec, Phases
<1>6. CASE s.phase = "smoke" /\ pend[d].arg # "passed"
  BY <1>1, <1>6 DEF AfterCommit, SwitchRec, Phases, Outcomes
<1>7. CASE s.phase = "activate"
  BY <1>1, <1>7 DEF AfterCommit, SwitchRec, Phases
<1>8. CASE s.phase = "rollback"
  BY <1>1, <1>8 DEF AfterCommit, SwitchRec, Phases
<1>9. CASE s.phase = "unsmoke"
  BY <1>1, <1>9 DEF AfterCommit, SwitchRec, Phases
<1> QED BY <1>3, <1>4, <1>5, <1>6, <1>7, <1>8, <1>9

(* A transaction on bindings: what it changes is no longer fresh to anyone. *)
LEMMA BindingsChange ==
    ASSUME MInv, NEW d \in Clients, pend[d].do \in BindingOps \ {"create"},
           NEW changed \in SUBSET (Bindings \cup {None}), Touch(d, changed),
           binding' \in [Bindings -> BindingRec],
           \A x \in Bindings \ changed : binding'[x] = binding[x],
           pend' = [pend EXCEPT ![d] = NoPend],
           switch' = [switch EXCEPT ![d] = AfterCommit(d)], UNCHANGED manifest, Overlap,
           OneActive', PreviousKept',
           ~overlapped => SelectableUsable' /\ SwitchCurrent(d)'
    PROVE  MInv'
<1>1. pend'[d] = NoPend /\ switch'[d] = AfterCommit(d) /\ AfterCommit(d) \in SwitchRec
  BY AfterCommitMoves DEF MInv, TypeOK
<1>2. ~Idle(d)
  BY NoPendType DEF Idle, BindingOps, None
<1>3. TypeOK'
  <2>1. pend' \in [Clients -> PendRec] /\ switch' \in [Clients -> SwitchRec]
    BY <1>1, NoPendType DEF MInv, TypeOK, PendRec, SwitchRec
  <2>2. pinned' \in [Bindings -> SUBSET Manifests]
    BY DEF Touch, MInv, TypeOK
  <2>3. fresh' \in [Clients -> SUBSET (Manifests \cup Bindings)]
    BY DEF Touch, MInv, TypeOK
  <2> QED BY <2>1, <2>2, <2>3 DEF MInv, TypeOK, PendRec, SwitchRec, BindingRec
<1>4. Others(d)
  BY DEF MInv, TypeOK, Others, Touch
<1>5. PendOK(d)' /\ PendCurrent(d)'
  BY <1>1, NoPendType DEF PendOK, PendCurrent, BindingOps, None
<1>6. SwitchOK(d)'
  BY <1>1, AfterCommitMoves DEF SwitchOK, MInv, ClientsOK
<1>7. ClientsOK'
  BY <1>4, <1>5, <1>6, OthersOK DEF MInv
<1>8. Serially'
  BY <1>2, <1>4, <1>5, SeriallyStep DEF MInv, AloneOK
<1> QED BY <1>3, <1>7, <1>8 DEF MInv

(* Bindings pin manifests only. *)
LEMMA PinsStay ==
    ASSUME MInv, NEW d \in Clients, NEW changed \in SUBSET (Bindings \cup {None}),
           Touch(d, changed), UNCHANGED manifest
    PROVE  \A b \in Bindings : Usable(b)' <=> Usable(b)
<1>1. changed \cap Manifests = {}
  BY BindingsAssumption DEF Manifests
<1>2. \A b \in Bindings : pinned'[b] = pinned[b]
  BY <1>1 DEF Touch, MInv, TypeOK
<1> QED BY <1>2 DEF Usable

(* One row of a transaction that leaves the active binding as it is. *)
LEMMA CommitRow ==
    ASSUME MInv, NEW d \in Clients, Overlap, RevisionExpected(d), Touch(d, {pend[d].on}),
           NEW r \in BindingRec, binding' = [binding EXCEPT ![pend[d].on] = r],
           pend' = [pend EXCEPT ![d] = NoPend],
           switch' = [switch EXCEPT ![d] = AfterCommit(d)], UNCHANGED manifest,
           LET old == binding[pend[d].on]
           IN  \/ /\ pend[d].do = "smoke" /\ r.smoke = pend[d].arg
                  /\ r.state = old.state /\ r.prev = old.prev
               \/ pend[d].do = "fallback" /\ r.state = "fallback"
               \/ pend[d].do = "disable" /\ r.state = "disabled"
    PROVE  MInv'
<1> DEFINE b == pend[d].on
           old == binding[b]
<1>1. /\ b \in Bindings /\ b \in fresh[d] /\ old \in BindingRec
      /\ pend[d].do \in BindingOps \ {"create"} /\ pend[d] # NoPend
  BY NoPendType DEF MInv, ClientsOK, PendOK, BindingOps, RevisionExpected, TypeOK,
                    BindingRec, None
<1>2. /\ binding' \in [Bindings -> BindingRec] /\ binding'[b] = r
      /\ \A x \in Bindings \ {b} : binding'[x] = binding[x]
  BY <1>1 DEF MInv, TypeOK, BindingRec
<1>3. (r.state = old.state /\ r.prev = old.prev) \/ r.state \in {"fallback", "disabled"}
  OBVIOUS
<1> HIDE DEF b, old
<1>4. Active' \subseteq Active /\ \A x \in Active' : binding'[x].prev = binding[x].prev
  BY <1>1, <1>2, <1>3 DEF Active, old
<1>5. \A x \in Bindings : binding[x].state # "rolled_back" => binding'[x].state # "rolled_back"
  BY <1>2, <1>3 DEF old
<1>6. OneActive' /\ PreviousKept'
  <2>1. \A x \in Active : binding[x].prev \in Bindings \cup {None}
    BY DEF MInv, TypeOK, Active
  <2> QED BY <1>4, <1>5, <2>1 DEF MInv, OneActive, PreviousKept
<1>7. \A x \in Bindings : Usable(x)' <=> Usable(x)
  BY <1>1, PinsStay DEF b
<1>8. ASSUME ~overlapped PROVE SelectableUsable' /\ SwitchCurrent(d)'
  <2>1. ~Idle(d) /\ AloneOK(d) /\ SelectableUsable
    BY <1>1, <1>8, AloneKnows DEF Idle
  <2>2. pend[d].do = "fallback" => Usable(b)
    BY <1>1, <2>1 DEF AloneOK, PendCurrent, b
  <2>3. SelectableUsable'
    BY <1>1, <1>2, <1>7, <2>1, <2>2 DEF SelectableUsable, old, b
  <2>4. switch'[d] = AfterCommit(d) /\ SwitchOK(d) /\ SwitchCurrent(d)
    BY <2>1, AfterCommitMoves DEF MInv, TypeOK, ClientsOK, AloneOK
  <2>5. CASE AfterCommit(d).phase \in {"none", "done"}
    BY <2>3, <2>4, <2>5 DEF SwitchCurrent
  <2>6. CASE AfterCommit(d).phase \notin {"none", "done"}
    <3>1. pend[d].do = "smoke" => Active' = Active
      BY <1>1, <1>2 DEF Active, old, b
    <3>2. pend[d].do = "smoke" => binding'[b].smoke = pend[d].arg
      BY <1>2 DEF b
    <3>3. pend[d].do = "smoke"
      BY <1>1, <2>4, <2>6, AfterCommitMoves DEF SwitchOK
    <3>4. \/ AfterCommit(d).phase = "activate" /\ switch[d].phase = "smoke"
          \/ AfterCommit(d).phase = "confirm" /\ switch[d].phase = "unsmoke"
      BY <1>1, <2>4, <2>6, <3>3, AfterCommitMoves DEF SwitchOK
    <3>5. switch[d].target = b /\ (switch[d].phase = "unsmoke" => pend[d].arg = "failed")
      BY <1>1, <2>4, <3>4 DEF SwitchOK, b
    <3>6. SwitchCurrent(d)'
      BY <1>1, <2>4, <3>1, <3>2, <3>3, <3>4, <3>5, AfterCommitMoves DEF SwitchCurrent
    <3> QED BY <2>3, <3>6
  <2> QED BY <2>3, <2>5, <2>6
<1> QED BY <1>1, <1>2, <1>6, <1>8, BindingsChange DEF b

(* Activation: what was active becomes the previous binding. *)
LEMMA CommitActivate ==
    ASSUME MInv, NEW d \in Clients, Overlap, RevisionExpected(d), pend[d].do = "activate",
           IndexHolds(pend[d].on, pend[d].arg),
           binding' = Activated(pend[d].on, pend[d].arg),
           Touch(d, {pend[d].on, pend[d].arg}), pend' = [pend EXCEPT ![d] = NoPend],
           switch' = [switch EXCEPT ![d] = AfterCommit(d)], UNCHANGED manifest
    PROVE  MInv'
<1> DEFINE b == pend[d].on
           p == pend[d].arg
<1>1. /\ b \in Bindings /\ b \in fresh[d] /\ p \in (Bindings \cup {None}) \ {b}
      /\ pend[d].do \in BindingOps \ {"create"} /\ pend[d] # NoPend
      /\ binding[b].state \in TargetStates /\ Active \subseteq {b, p}
  BY NoPendType DEF MInv, ClientsOK, PendOK, BindingOps, RevisionExpected, IndexHolds, None
<1>2. b # None /\ binding \in [Bindings -> BindingRec]
  BY <1>1, BindingsAssumption DEF MInv, TypeOK, BindingRec
<1>3. binding' = Activated(b, p)
  OBVIOUS
<1> HIDE DEF b, p
<1>4. /\ binding' \in [Bindings -> BindingRec]
      /\ binding'[b] = [binding[b] EXCEPT !.state = "active", !.prev = p]
      /\ p # None => binding'[p] = [binding[p] EXCEPT !.state = "previous"]
      /\ \A x \in Bindings \ {b, p} : binding'[x] = binding[x]
  <2>1. [binding[b] EXCEPT !.state = "active", !.prev = p] \in BindingRec
    BY <1>1, <1>2 DEF BindingRec, BindingStates
  <2>2. \A x \in Bindings : [binding[x] EXCEPT !.state = "previous"] \in BindingRec
    BY <1>2 DEF BindingRec, BindingStates
  <2> QED BY <1>1, <1>2, <1>3, <2>1, <2>2 DEF Activated
<1>5. /\ binding'[b].state = "active" /\ binding'[b].prev = p
      /\ p # None => binding'[p].state = "previous"
  BY <1>1, <1>2, <1>4 DEF BindingRec
<1>6. Active' = {b}
  <2>1. \A x \in Bindings \ {b, p} : binding[x].state # "active"
    BY <1>1 DEF Active
  <2>2. ASSUME NEW x \in Bindings PROVE binding'[x].state = "active" <=> x = b
    <3>1. CASE x = b
      BY <1>5, <3>1
    <3>2. CASE x = p
      BY <1>1, <1>5, <3>2, BindingsAssumption
    <3>3. CASE x \in Bindings \ {b, p}
      <4>1. binding'[x] = binding[x]
        BY <1>4, <3>3
      <4> QED BY <2>1, <3>3, <4>1
    <3> QED BY <3>1, <3>2, <3>3
  <2> QED BY <1>1, <2>2 DEF Active
<1>7. OneActive' /\ PreviousKept'
  BY <1>1, <1>5, <1>6 DEF OneActive, PreviousKept
<1>8. \A x \in Bindings : Usable(x)' <=> Usable(x)
  BY <1>1, PinsStay DEF b, p
<1>9. ASSUME ~overlapped PROVE SelectableUsable' /\ SwitchCurrent(d)'
  <2>1. ~Idle(d) /\ AloneOK(d) /\ SelectableUsable
    BY <1>1, <1>9, AloneKnows DEF Idle
  <2>2. Usable(b) /\ Active = {p} \ {None}
    BY <1>1, <2>1 DEF AloneOK, PendCurrent, b, p
  <2>3. SelectableUsable'
    <3> SUFFICES ASSUME NEW x \in Bindings, binding'[x].state \in {"active", "fallback"}
                 PROVE  Usable(x)'
      BY DEF SelectableUsable
    <3>1. CASE x = b
      BY <1>8, <2>2, <3>1
    <3>2. CASE x # b
      BY <1>1, <1>4, <1>5, <1>8, <2>1, <3>2, BindingsAssumption DEF SelectableUsable
    <3> QED BY <3>1, <3>2
  <2>4. switch'[d] = AfterCommit(d) /\ SwitchOK(d) /\ SwitchCurrent(d)
    BY <2>1, AfterCommitMoves DEF MInv, TypeOK, ClientsOK, AloneOK
  <2>5. CASE AfterCommit(d).phase \in {"none", "done"}
    BY <2>3, <2>4, <2>5 DEF SwitchCurrent
  <2>6. CASE AfterCommit(d).phase \notin {"none", "done"}
    <3>1. switch[d].phase = "activate" /\ AfterCommit(d).phase = "verify" /\ switch[d].target = b
      BY <1>1, <2>4, <2>6, AfterCommitMoves DEF SwitchOK, b
    <3>2. switch[d].active = p /\ p # None /\ p \in Bindings
      BY <1>1, <2>2, <2>4, <3>1 DEF SwitchCurrent, SwitchOK
    <3>3. Usable(p)
      BY <2>1, <2>2, <3>2 DEF SelectableUsable, Active
    <3> QED BY <1>1, <1>5, <1>6, <1>8, <2>3, <2>4, <3>1, <3>2, <3>3, AfterCommitMoves
            DEF SwitchCurrent
  <2> QED BY <2>3, <2>5, <2>6
<1> QED BY <1>1, <1>4, <1>7, <1>9, BindingsChange DEF b, p

(* Rollback: the previous binding becomes the active one. *)
LEMMA CommitRollback ==
    ASSUME MInv, NEW d \in Clients, Overlap, RevisionExpected(d), pend[d].do = "rollback",
           binding' = RolledBack(pend[d].on, pend[d].arg),
           Touch(d, {pend[d].on, pend[d].arg}), pend' = [pend EXCEPT ![d] = NoPend],
           switch' = [switch EXCEPT ![d] = AfterCommit(d)], UNCHANGED manifest
    PROVE  MInv'
<1> DEFINE b == pend[d].on
           p == pend[d].arg
<1>1. /\ b \in Bindings /\ b \in fresh[d] /\ p \in Bindings \ {b}
      /\ pend[d].do \in BindingOps \ {"create"} /\ pend[d] # NoPend
      /\ binding[b].state = "active" /\ binding[b].prev = p
  BY NoPendType DEF MInv, ClientsOK, PendOK, BindingOps, RevisionExpected, None
<1>2. p # None /\ binding \in [Bindings -> BindingRec] /\ Active = {b}
  BY <1>1, BindingsAssumption DEF MInv, TypeOK, BindingRec, OneActive, Active
<1>3. binding' = RolledBack(b, p)
  OBVIOUS
<1> HIDE DEF b, p
<1>4. /\ binding' \in [Bindings -> BindingRec]
      /\ binding'[b] = [binding[b] EXCEPT !.state = "rolled_back"]
      /\ binding'[p] = [binding[p] EXCEPT !.state = "active", !.prev = None]
      /\ \A x \in Bindings \ {b, p} : binding'[x] = binding[x]
  <2>1. \A x \in Bindings : [binding[x] EXCEPT !.state = "active", !.prev = None] \in BindingRec
    BY <1>1, <1>2 DEF BindingRec, BindingStates
  <2>2. [binding[b] EXCEPT !.state = "rolled_back"] \in BindingRec
    BY <1>1, <1>2 DEF BindingRec, BindingStates
  <2>3. \A x \in Bindings : binding[x] \in BindingRec
    BY <1>2
  <2>4. binding' \in [Bindings -> BindingRec]
    <3> DEFINE row(x) == IF x = b THEN [binding[b] EXCEPT !.state = "rolled_back"]
                         ELSE IF x = p THEN [binding[x] EXCEPT !.state = "active", !.prev = None]
                         ELSE binding[x]
    <3>1. \A x \in Bindings : row(x) \in BindingRec
      BY <1>1, <2>1, <2>2, <2>3
    <3>2. binding' = [x \in Bindings |-> row(x)]
      BY <1>3 DEF RolledBack
    <3> HIDE DEF row
    <3> QED BY <3>1, <3>2
  <2> QED BY <1>1, <1>3, <2>4 DEF RolledBack
<1>5. /\ binding'[b].state = "rolled_back"
      /\ binding'[p].state = "active" /\ binding'[p].prev = None
  BY <1>1, <1>2, <1>4 DEF BindingRec
<1>6. Active' = {p}
  <2>1. \A x \in Bindings \ {b, p} : binding[x].state # "active"
    BY <1>2 DEF Active
  <2>2. ASSUME NEW x \in Bindings PROVE binding'[x].state = "active" <=> x = p
    <3>1. CASE x \in {b, p}
      BY <1>1, <1>5, <3>1
    <3>2. CASE x \in Bindings \ {b, p}
      <4>1. binding'[x] = binding[x]
        BY <1>4, <3>2
      <4> QED BY <2>1, <3>2, <4>1
    <3> QED BY <3>1, <3>2
  <2> QED BY <1>1, <2>2 DEF Active
<1>7. OneActive' /\ PreviousKept'
  BY <1>1, <1>5, <1>6 DEF OneActive, PreviousKept
<1>8. \A x \in Bindings : Usable(x)' <=> Usable(x)
  BY <1>1, PinsStay DEF b, p
<1>9. ASSUME ~overlapped PROVE SelectableUsable' /\ SwitchCurrent(d)'
  <2>1. ~Idle(d) /\ AloneOK(d) /\ SelectableUsable
    BY <1>1, <1>9, AloneKnows DEF Idle
  <2>2. Usable(p)
    BY <1>1, <2>1 DEF AloneOK, PendCurrent, p
  <2>3. SelectableUsable'
    <3> SUFFICES ASSUME NEW x \in Bindings, binding'[x].state \in {"active", "fallback"}
                 PROVE  Usable(x)'
      BY DEF SelectableUsable
    <3>1. CASE x = p
      BY <1>8, <2>2, <3>1
    <3>2. CASE x # p
      BY <1>1, <1>4, <1>5, <1>8, <2>1, <3>2, BindingsAssumption DEF SelectableUsable
    <3> QED BY <3>1, <3>2
  <2>4. switch'[d] = AfterCommit(d) /\ SwitchOK(d) /\ SwitchCurrent(d)
    BY <2>1, AfterCommitMoves DEF MInv, TypeOK, ClientsOK, AloneOK
  <2>5. CASE AfterCommit(d).phase \in {"none", "done"}
    BY <2>3, <2>4, <2>5 DEF SwitchCurrent
  <2>6. CASE AfterCommit(d).phase \notin {"none", "done"}
    <3>1. switch[d].phase = "rollback" /\ AfterCommit(d).phase = "unsmoke" /\ switch[d].target = b
      BY <1>1, <2>4, <2>6, AfterCommitMoves DEF SwitchOK, b
    <3>2. switch[d].active = p
      BY <1>1, <2>4, <3>1 DEF SwitchCurrent
    <3> QED BY <1>1, <1>6, <2>3, <2>4, <3>1, <3>2, AfterCommitMoves DEF SwitchCurrent
  <2> QED BY <2>3, <2>5, <2>6
<1> QED BY <1>1, <1>4, <1>7, <1>9, BindingsChange DEF b, p

(* The two transactions that no switch makes. *)
LEMMA OutsideSwitch ==
    ASSUME MInv, NEW d \in Clients, pend[d].do \in {"manifest", "create"}
    PROVE  switch[d].phase = "none" /\ ~Idle(d)
<1>1. switch[d].phase \in Phases /\ SwitchOK(d) /\ pend[d] # NoPend
  BY NoPendType DEF MInv, TypeOK, ClientsOK, None
<1> QED BY <1>1 DEF SwitchOK, Phases, Idle

LEMMA CommitManifestStep ==
    ASSUME MInv, NEW d \in Clients, CommitManifest(d), Overlap
    PROVE  MInv'
<1> DEFINE m == pend[d].on
           state == pend[d].arg
<1>1. /\ m \in Manifests /\ m \in fresh[d] /\ state \in ManifestStates
      /\ pend[d].do = "manifest"
  BY DEF CommitManifest, RevisionExpected, MInv, ClientsOK, PendOK
<1>2. /\ manifest' = [manifest EXCEPT ![m] = state] /\ Touch(d, {m})
      /\ pend' = [pend EXCEPT ![d] = NoPend] /\ UNCHANGED <<binding, switch>>
  BY DEF CommitManifest
<1>3. switch[d].phase = "none" /\ ~Idle(d) /\ pend[d] # NoPend
  BY <1>1, NoPendType, OutsideSwitch DEF None
<1> HIDE DEF m, state
<1>4. TypeOK'
  <2>1. pend' \in [Clients -> PendRec]
    BY <1>2, NoPendType DEF MInv, TypeOK, PendRec
  <2>2. manifest' \in [Manifests -> ManifestStates] /\ pinned' \in [Bindings -> SUBSET Manifests]
    BY <1>1, <1>2 DEF Touch, MInv, TypeOK
  <2>3. fresh' \in [Clients -> SUBSET (Manifests \cup Bindings)]
    BY <1>2 DEF Touch, MInv, TypeOK
  <2> QED BY <1>2, <2>1, <2>2, <2>3 DEF MInv, TypeOK, PendRec
<1>5. pend'[d] = NoPend /\ switch'[d].phase = "none" /\ Idle(d)'
  BY <1>2, <1>3 DEF MInv, TypeOK, Idle
<1>6. Others(d)
  BY <1>2 DEF MInv, TypeOK, Others, Touch
<1>7. ClientsOK'
  <2>1. PendOK(d)' /\ SwitchOK(d)'
    BY <1>5, NoPendType DEF PendOK, SwitchOK, BindingOps, None
  <2> QED BY <1>6, <2>1, OthersOK DEF MInv
<1>8. OneActive' /\ PreviousKept'
  BY <1>2 DEF MInv, OneActive, PreviousKept, Active
<1>9. ASSUME ~overlapped PROVE SelectableUsable'
  <2>1. /\ SelectableUsable
        /\ IF state = "inactive" THEN Unselected(m) ELSE manifest[m] # "verified"
    BY <1>1, <1>3, <1>9, AloneKnows DEF AloneOK, PendCurrent, m, state
  <2> SUFFICES ASSUME NEW b \in Bindings, binding[b].state \in {"active", "fallback"}
               PROVE  Usable(b)'
    BY <1>2 DEF SelectableUsable
  <2>2. Usable(b) /\ Needs(b) \subseteq Manifests
    BY <2>1, NeedsType DEF SelectableUsable
  <2>3. m \notin Needs(b)
    BY <2>1, <2>2 DEF Unselected, Usable
  <2> QED BY <1>2, <2>2, <2>3 DEF Usable, Touch, MInv, TypeOK
<1>10. Serially'
  BY <1>3, <1>5, <1>6, <1>9, SeriallyStep DEF MInv
<1> QED BY <1>4, <1>7, <1>8, <1>10 DEF MInv

LEMMA CommitCreateStep ==
    ASSUME MInv, NEW d \in Clients, CommitCreate(d), Overlap
    PROVE  MInv'
<1> DEFINE b == pend[d].on
           r == [state |-> "candidate", smoke |-> pend[d].arg, prev |-> None]
<1>1. /\ b \in Bindings /\ b \in fresh[d] /\ pend[d].arg \in Smoke
      /\ binding[b].state = "absent" /\ pend[d].do = "create"
  BY DEF CommitCreate, RevisionExpected, MInv, ClientsOK, PendOK, BindingOps
<1>2. /\ binding' = [binding EXCEPT ![b] = r]
      /\ pinned' = [pinned EXCEPT ![b] = Needs(b) \cap fresh[d]]
      /\ fresh' = [x \in Clients |-> IF x = d THEN {} ELSE fresh[x] \ {b}]
      /\ pend' = [pend EXCEPT ![d] = NoPend] /\ UNCHANGED <<manifest, switch>>
  BY DEF CommitCreate
<1>3. switch[d].phase = "none" /\ ~Idle(d) /\ pend[d] # NoPend
  BY <1>1, NoPendType, OutsideSwitch DEF None
<1>4. r \in BindingRec /\ r.state = "candidate" /\ binding \in [Bindings -> BindingRec]
  BY <1>1 DEF BindingRec, BindingStates, MInv, TypeOK
<1> HIDE DEF b, r
<1>5. /\ binding' \in [Bindings -> BindingRec] /\ binding'[b].state = "candidate"
      /\ \A x \in Bindings \ {b} : binding'[x] = binding[x] /\ pinned'[x] = pinned[x]
  BY <1>1, <1>2, <1>4 DEF MInv, TypeOK
<1>6. TypeOK'
  <2>1. pend' \in [Clients -> PendRec]
    BY <1>2, NoPendType DEF MInv, TypeOK, PendRec
  <2>2. pinned' \in [Bindings -> SUBSET Manifests]
    <3>1. Needs(b) \cap fresh[d] \in SUBSET Manifests
      BY <1>1, NeedsType
    <3> QED BY <1>1, <1>2, <3>1 DEF MInv, TypeOK
  <2>3. fresh' \in [Clients -> SUBSET (Manifests \cup Bindings)]
    BY <1>2 DEF MInv, TypeOK
  <2> QED BY <1>2, <1>5, <2>1, <2>2, <2>3 DEF MInv, TypeOK, PendRec, BindingRec
<1>7. pend'[d] = NoPend /\ switch'[d].phase = "none" /\ Idle(d)'
  BY <1>2, <1>3 DEF MInv, TypeOK, Idle
<1>8. Others(d)
  BY <1>2, <1>5 DEF MInv, TypeOK, Others
<1>9. ClientsOK'
  <2>1. PendOK(d)' /\ SwitchOK(d)'
    BY <1>7, NoPendType DEF PendOK, SwitchOK, BindingOps, None
  <2> QED BY <1>8, <2>1, OthersOK DEF MInv
<1>10. Active' = Active /\ b \notin Active
  BY <1>1, <1>5 DEF Active
<1>11. OneActive' /\ PreviousKept'
  <2>1. \A x \in Active : binding'[x] = binding[x] /\ binding[x].prev \in Bindings \cup {None}
    BY <1>4, <1>5, <1>10 DEF Active, BindingRec
  <2> QED BY <1>5, <1>10, <2>1 DEF MInv, OneActive, PreviousKept
<1>12. ~overlapped => SelectableUsable'
  <2> SUFFICES ASSUME ~overlapped, NEW x \in Bindings,
                      binding'[x].state \in {"active", "fallback"}
               PROVE  Usable(x)'
    BY DEF SelectableUsable
  <2>1. x # b /\ SelectableUsable
    BY <1>3, <1>5, AloneKnows
  <2> QED BY <1>2, <1>5, <2>1 DEF SelectableUsable, Usable
<1>13. Serially'
  BY <1>3, <1>7, <1>8, <1>12, SeriallyStep DEF MInv
<1> QED BY <1>6, <1>9, <1>11, <1>13 DEF MInv

LEMMA CommitBindingStep ==
    ASSUME MInv, NEW d \in Clients, CommitBinding(d), Overlap
    PROVE  MInv'
<1> DEFINE b == pend[d].on
<1>1. /\ RevisionExpected(d) /\ pend' = [pend EXCEPT ![d] = NoPend] /\ UNCHANGED manifest
      /\ switch' = [switch EXCEPT ![d] = AfterCommit(d)]
  BY DEF CommitBinding
<1>2. pend[d].do \in BindingOps => b \in Bindings /\ binding[b] \in BindingRec
  BY DEF MInv, ClientsOK, PendOK, TypeOK, BindingRec
<1>3. pend[d].do = "smoke" => pend[d].arg \in Smoke
  BY DEF MInv, ClientsOK, PendOK
<1>4. CASE /\ pend[d].do = "smoke" /\ Touch(d, {b})
           /\ binding' = [binding EXCEPT ![b].smoke = pend[d].arg]
  <2> DEFINE r == [binding[b] EXCEPT !.smoke = pend[d].arg]
  <2>1. /\ r \in BindingRec /\ r.smoke = pend[d].arg
        /\ r.state = binding[b].state /\ r.prev = binding[b].prev
    BY <1>2, <1>3, <1>4 DEF BindingRec, BindingOps
  <2>2. binding' = [binding EXCEPT ![b] = r]
    BY <1>2, <1>4 DEF BindingOps, MInv, TypeOK
  <2> HIDE DEF r
  <2> QED BY <1>1, <1>4, <2>1, <2>2, CommitRow
<1>5. CASE /\ pend[d].do = "fallback" /\ Touch(d, {b})
           /\ binding' = [binding EXCEPT ![b].state = "fallback"]
  <2> DEFINE r == [binding[b] EXCEPT !.state = "fallback"]
  <2>1. r \in BindingRec /\ r.state = "fallback"
    BY <1>2, <1>5 DEF BindingRec, BindingOps, BindingStates
  <2>2. binding' = [binding EXCEPT ![b] = r]
    BY <1>2, <1>5 DEF BindingOps, MInv, TypeOK
  <2> HIDE DEF r
  <2> QED BY <1>1, <1>5, <2>1, <2>2, CommitRow
<1>6. CASE /\ pend[d].do = "disable" /\ Touch(d, {b})
           /\ binding' = [binding EXCEPT ![b].state = "disabled"]
  <2> DEFINE r == [binding[b] EXCEPT !.state = "disabled"]
  <2>1. r \in BindingRec /\ r.state = "disabled"
    BY <1>2, <1>6 DEF BindingRec, BindingOps, BindingStates
  <2>2. binding' = [binding EXCEPT ![b] = r]
    BY <1>2, <1>6 DEF BindingOps, MInv, TypeOK
  <2> HIDE DEF r
  <2> QED BY <1>1, <1>6, <2>1, <2>2, CommitRow
<1>7. CASE /\ pend[d].do = "activate" /\ IndexHolds(b, pend[d].arg)
           /\ binding' = Activated(b, pend[d].arg) /\ Touch(d, {b, pend[d].arg})
  BY <1>1, <1>7, CommitActivate
<1>8. CASE /\ pend[d].do = "rollback" /\ binding' = RolledBack(b, pend[d].arg)
           /\ Touch(d, {b, pend[d].arg})
  BY <1>1, <1>8, CommitRollback
<1> QED BY <1>4, <1>5, <1>6, <1>7, <1>8 DEF CommitBinding

(* MInv is inductive. *)
LEMMA NextMInv == MInv /\ [Next]_vars => MInv'
<1> SUFFICES ASSUME MInv, [Next]_vars PROVE MInv'
  OBVIOUS
<1>1. CASE Operation /\ Overlap
  <2>1. CASE \E m \in Manifests : CreateManifest(m)
    BY <1>1, <2>1, CreateManifestStep
  <2>2. CASE \E d \in Clients, m \in Manifests : PrepareManifest(d, m)
    BY <1>1, <2>2, PrepareManifestStep
  <2>3. CASE \E d \in Clients, b \in Bindings :
                \/ PrepareCreate(d, b) \/ PrepareSmoke(d, b) \/ PrepareFallback(d, b)
                \/ PrepareDisable(d, b) \/ PrepareActivate(d, b) \/ PrepareRollback(d, b)
    BY <1>1, <2>3, PrepareBindingStep
  <2>4. CASE \E d \in Clients : CommitManifest(d) \/ CommitCreate(d) \/ CommitBinding(d)
    BY <1>1, <2>4, CommitManifestStep, CommitCreateStep, CommitBindingStep
  <2>5. CASE \E d \in Clients : CommitFails(d) \/ Crash(d)
    BY <1>1, <2>5, QuitStep
  <2>6. CASE \E d \in Clients :
                \/ SwitchBegin(d) \/ SwitchTarget(d) \/ SwitchRefused(d) \/ SwitchProbe(d)
                \/ SwitchActivate(d) \/ SwitchVerify(d) \/ SwitchRollback(d)
                \/ SwitchUnsmoke(d) \/ SwitchConfirm(d)
    BY <1>1, <2>6, SwitchBeginStep, SwitchTargetStep, SwitchRefusedStep, SwitchProbeStep,
       SwitchActivateStep, SwitchVerifyStep, SwitchRollbackStep, SwitchUnsmokeStep,
       SwitchConfirmStep
  <2> QED BY <1>1, <2>1, <2>2, <2>3, <2>4, <2>5, <2>6 DEF Operation
<1>2. CASE UNCHANGED vars
  <2>1. UNCHANGED <<manifest, binding, pinned, fresh, pend, switch, overlapped>>
    BY <1>2 DEF vars
  <2>2. TypeOK' /\ OneActive' /\ PreviousKept'
    BY <2>1 DEF MInv, TypeOK, OneActive, PreviousKept, Active
  <2>3. \A c \in Clients : PendOK(c)' /\ SwitchOK(c)'
    BY <2>1 DEF MInv, ClientsOK, PendOK, SwitchOK
  <2>4. \A b \in Bindings : Usable(b)' <=> Usable(b)
    BY <2>1 DEF Usable
  <2>5. \A c \in Clients : Idle(c)' <=> Idle(c)
    BY <2>1 DEF Idle
  <2>6. ASSUME NEW c \in Clients, AloneOK(c) PROVE AloneOK(c)'
    BY <2>1, <2>6 DEF AloneOK, PendCurrent, SwitchCurrent, Active, Usable, Unselected
  <2> QED BY <2>1, <2>2, <2>3, <2>4, <2>5, <2>6 DEF MInv, ClientsOK, Serially, AtMostOneBusy,
                                                    SelectableUsable
<1> QED BY <1>1, <1>2 DEF Next, Overlap

LEMMA MInvAlways == Spec => []MInv
BY InitMInv, NextMInv, PTL DEF Spec
-----------------------------------------------------------------------------
(* The bindings that a transaction writes. *)
LEMMA BindingsWritten ==
    ASSUME MInv, Operation, binding' # binding
    PROVE  \E d \in Clients :
              LET b == pend[d].on
                  p == pend[d].arg
              IN  /\ b \in Bindings /\ b \in fresh[d] /\ pend[d] # NoPend
                  /\ \/ /\ pend[d].do = "create" /\ binding[b].state = "absent"
                        /\ binding' = [binding EXCEPT ![b] = [state |-> "candidate",
                                                              smoke |-> p, prev |-> None]]
                     \/ /\ pend[d].do = "smoke"
                        /\ binding' = [binding EXCEPT ![b].smoke = p]
                     \/ /\ pend[d].do = "fallback" /\ binding[b].state # "rolled_back"
                        /\ binding' = [binding EXCEPT ![b].state = "fallback"]
                     \/ /\ pend[d].do = "disable" /\ binding[b].state # "rolled_back"
                        /\ binding' = [binding EXCEPT ![b].state = "disabled"]
                     \/ /\ pend[d].do = "activate" /\ binding[b].state \in TargetStates
                        /\ binding[b].smoke = "passed"
                        /\ p \in (Bindings \cup {None}) \ {b}
                        /\ binding' = Activated(b, p)
                     \/ /\ pend[d].do = "rollback" /\ binding[b].state = "active"
                        /\ binding[b].prev = p /\ p \in Bindings \ {b}
                        /\ binding' = RolledBack(b, p)
<1>1. PICK d \in Clients : CommitCreate(d) \/ CommitBinding(d)
  BY DEF Operation, CreateManifest, PrepareManifest, PrepareCreate, PrepareSmoke,
         PrepareFallback, PrepareDisable, PrepareActivate, PrepareRollback, CommitManifest,
         CommitFails, Crash, SwitchBegin, SwitchTarget, SwitchRefused, SwitchProbe,
         SwitchActivate, SwitchVerify, SwitchRollback, SwitchUnsmoke, SwitchConfirm
<1> DEFINE b == pend[d].on
<1>2. pend[d].do \in BindingOps /\ b \in fresh[d]
  BY <1>1 DEF CommitCreate, CommitBinding, RevisionExpected, BindingOps
<1>3. b \in Bindings /\ pend[d] # NoPend
  BY <1>2, NoPendType DEF MInv, ClientsOK, PendOK, BindingOps, None
<1>4. /\ pend[d].do = "create" => binding[b].state = "absent"
      /\ pend[d].do \in {"fallback", "activate"} => binding[b].state \in TargetStates
      /\ pend[d].do = "disable" => binding[b].state # "rolled_back"
      /\ pend[d].do = "activate" =>
            binding[b].smoke = "passed" /\ pend[d].arg \in (Bindings \cup {None}) \ {b}
      /\ pend[d].do = "rollback" =>
            /\ binding[b].state = "active" /\ binding[b].prev = pend[d].arg
            /\ pend[d].arg \in Bindings \ {b}
  BY <1>2 DEF MInv, ClientsOK, PendOK
<1>5. binding[b].state \in TargetStates => binding[b].state # "rolled_back"
  BY DEF TargetStates
<1> QED BY <1>1, <1>2, <1>3, <1>4, <1>5 DEF CommitCreate, CommitBinding

LEMMA StepActivationTested == ASSUME MInv, Operation PROVE ActivationTested
<1> SUFFICES ASSUME NEW x \in Bindings, x \notin Active, x \in Active',
                    ~\E a \in Active : binding'[a].state = "rolled_back"
             PROVE  binding[x].smoke = "passed" /\ binding[x].state \in TargetStates
  BY DEF ActivationTested
<1>1. binding[x].state # "active" /\ binding'[x].state = "active" /\ binding' # binding
  BY DEF Active
<1>2. binding \in [Bindings -> BindingRec]
  BY DEF MInv, TypeOK, BindingRec
<1>3. PICK d \in Clients :
        LET b == pend[d].on
            p == pend[d].arg
        IN  /\ b \in Bindings
            /\ \/ binding' = [binding EXCEPT ![b] = [state |-> "candidate",
                                                     smoke |-> p, prev |-> None]]
               \/ binding' = [binding EXCEPT ![b].smoke = p]
               \/ binding' = [binding EXCEPT ![b].state = "fallback"]
               \/ binding' = [binding EXCEPT ![b].state = "disabled"]
               \/ /\ binding[b].smoke = "passed" /\ binding[b].state \in TargetStates
                  /\ binding' = Activated(b, p)
               \/ /\ binding[b].state = "active" /\ p \in Bindings \ {b}
                  /\ binding' = RolledBack(b, p)
  BY <1>1, BindingsWritten
<1> DEFINE b == pend[d].on
           p == pend[d].arg
<1>4. CASE \/ binding' = [binding EXCEPT ![b] = [state |-> "candidate", smoke |-> p,
                                                 prev |-> None]]
           \/ binding' = [binding EXCEPT ![b].smoke = p]
           \/ binding' = [binding EXCEPT ![b].state = "fallback"]
           \/ binding' = [binding EXCEPT ![b].state = "disabled"]
  BY <1>1, <1>2, <1>3, <1>4 DEF BindingRec
<1>5. CASE /\ binding[b].smoke = "passed" /\ binding[b].state \in TargetStates
           /\ binding' = Activated(b, p)
  BY <1>1, <1>2, <1>5 DEF BindingRec, Activated
<1>6. CASE /\ binding[b].state = "active" /\ binding' = RolledBack(b, p)
  <2>1. binding'[b].state = "rolled_back" /\ b \in Active
    BY <1>2, <1>3, <1>6 DEF RolledBack, BindingRec, Active
  <2> QED BY <2>1
<1> QED BY <1>3, <1>4, <1>5, <1>6

LEMMA StepRolledBackStays == ASSUME MInv, Operation PROVE RolledBackStays
<1> SUFFICES ASSUME NEW x \in Bindings, binding[x].state = "rolled_back",
                    binding'[x].state # "rolled_back"
             PROVE  overlapped /\ binding'[x].state = "previous"
  BY DEF RolledBackStays
<1>1. binding \in [Bindings -> BindingRec] /\ binding' # binding
  BY DEF MInv, TypeOK, BindingRec
<1>2. PICK d \in Clients :
        LET b == pend[d].on
            p == pend[d].arg
        IN  /\ b \in Bindings /\ pend[d] # NoPend
            /\ \/ /\ binding[b].state # "rolled_back"
                  /\ \/ binding' = [binding EXCEPT ![b] = [state |-> "candidate",
                                                           smoke |-> p, prev |-> None]]
                     \/ binding' = [binding EXCEPT ![b].state = "fallback"]
                     \/ binding' = [binding EXCEPT ![b].state = "disabled"]
               \/ binding' = [binding EXCEPT ![b].smoke = p]
               \/ /\ pend[d].do = "activate" /\ binding[b].state \in TargetStates
                  /\ p \in (Bindings \cup {None}) \ {b}
                  /\ binding' = Activated(b, p)
               \/ /\ pend[d].do = "rollback" /\ binding[b].state = "active"
                  /\ binding[b].prev = p /\ p \in Bindings \ {b}
                  /\ binding' = RolledBack(b, p)
  BY <1>1, BindingsWritten
<1> DEFINE b == pend[d].on
           p == pend[d].arg
<1>3. CASE /\ binding[b].state # "rolled_back"
           /\ \/ binding' = [binding EXCEPT ![b] = [state |-> "candidate", smoke |-> p,
                                                    prev |-> None]]
              \/ binding' = [binding EXCEPT ![b].state = "fallback"]
              \/ binding' = [binding EXCEPT ![b].state = "disabled"]
  BY <1>1, <1>2, <1>3
<1>4. CASE binding' = [binding EXCEPT ![b].smoke = p]
  BY <1>1, <1>2, <1>4 DEF BindingRec
<1>5. CASE /\ pend[d].do = "activate" /\ binding[b].state \in TargetStates
           /\ p \in (Bindings \cup {None}) \ {b} /\ binding' = Activated(b, p)
  <2>1. x # b
    BY <1>5 DEF TargetStates
  <2>2. x = p
    BY <1>1, <1>5, <2>1 DEF Activated
  <2>3. binding'[x].state = "previous"
    BY <1>1, <1>5, <2>1, <2>2 DEF Activated, BindingRec
  <2>4. overlapped
    <3> SUFFICES ASSUME ~overlapped PROVE FALSE
      OBVIOUS
    <3>1. AloneOK(d)
      BY <1>2, AloneKnows DEF Idle
    <3>2. Active = {p} \ {None}
      BY <1>2, <1>5, <3>1 DEF AloneOK, PendCurrent
    <3>3. p # None
      BY <2>2, BindingsAssumption
    <3> QED BY <2>2, <3>2, <3>3 DEF Active
  <2> QED BY <2>3, <2>4
<1>6. CASE /\ pend[d].do = "rollback" /\ binding[b].state = "active"
           /\ binding[b].prev = p /\ p \in Bindings \ {b} /\ binding' = RolledBack(b, p)
  <2>1. b \in Active /\ p # None
    BY <1>2, <1>6, BindingsAssumption DEF Active
  <2>2. binding[p].state # "rolled_back"
    BY <1>6, <2>1 DEF MInv, PreviousKept
  <2>3. x # p /\ x # b
    BY <1>6, <2>2
  <2> QED BY <1>1, <1>6, <2>3 DEF RolledBack
<1> QED BY <1>2, <1>3, <1>4, <1>5, <1>6

(* While nothing overlaps, no transaction is refused. *)
LEMMA AloneCommits ==
    ASSUME MInv, NEW d \in Clients, ~overlapped PROVE ~CommitFails(d)
<1> SUFFICES ASSUME CommitFails(d) PROVE FALSE
  OBVIOUS
<1>1. pend[d] # NoPend /\ AloneOK(d)
  BY AloneKnows DEF CommitFails, Idle
<1>2. RevisionExpected(d) /\ (pend[d].do = "activate" => Active \subseteq {pend[d].arg})
  BY <1>1 DEF AloneOK, PendCurrent, RevisionExpected
<1> QED BY <1>2 DEF CommitFails, IndexHolds

LEMMA StepFailedSwitchRestores == ASSUME MInv, Operation, Overlap PROVE FailedSwitchRestores
<1> SUFFICES ASSUME NEW c \in Clients, switch[c].phase # "done", switch'[c].phase = "done",
                    ~overlapped'
             PROVE  Restored(c)'
  BY DEF FailedSwitchRestores
<1> DEFINE s == switch[c]
           a == s.active
           t == s.target
<1>1. ~overlapped /\ switch \in [Clients -> SwitchRec] /\ binding \in [Bindings -> BindingRec]
  BY DEF Overlap, MInv, TypeOK, SwitchRec, BindingRec
<1>2. \/ CommitBinding(c) \/ SwitchRefused(c) \/ SwitchActivate(c) \/ SwitchVerify(c)
      \/ SwitchRollback(c) \/ SwitchConfirm(c)
  <2>1. ~\E m \in Manifests : CreateManifest(m)
    BY DEF CreateManifest
  <2>2. ~\E d \in Clients, m \in Manifests : PrepareManifest(d, m)
    BY <1>1, NoSwitchType DEF PrepareManifest
  <2>3. ~\E d \in Clients, b \in Bindings :
            \/ PrepareCreate(d, b) \/ PrepareSmoke(d, b) \/ PrepareFallback(d, b)
            \/ PrepareDisable(d, b) \/ PrepareActivate(d, b) \/ PrepareRollback(d, b)
    BY <1>1, NoSwitchType DEF PrepareCreate, PrepareSmoke, PrepareFallback, PrepareDisable,
       PrepareActivate, PrepareRollback
  <2>4. PICK d \in Clients :
            \/ CommitManifest(d) \/ CommitCreate(d) \/ CommitBinding(d) \/ CommitFails(d)
            \/ SwitchBegin(d) \/ SwitchTarget(d) \/ SwitchRefused(d) \/ SwitchProbe(d)
            \/ SwitchActivate(d) \/ SwitchVerify(d) \/ SwitchRollback(d)
            \/ SwitchUnsmoke(d) \/ SwitchConfirm(d) \/ Crash(d)
    BY <2>1, <2>2, <2>3 DEF Operation
  <2>5. c = d
    BY <1>1, <2>4 DEF CommitManifest, CommitCreate, CommitBinding, CommitFails, SwitchBegin,
       SwitchTarget, SwitchRefused, SwitchProbe, SwitchActivate, SwitchVerify, SwitchRollback,
       SwitchUnsmoke, SwitchConfirm, Crash
  <2>6. ~CommitManifest(c) /\ ~CommitCreate(c) /\ ~SwitchUnsmoke(c)
    BY DEF CommitManifest, CommitCreate, SwitchUnsmoke
  <2>7. ~SwitchBegin(c) /\ ~SwitchTarget(c) /\ ~SwitchProbe(c) /\ ~Crash(c)
    <3>1. ~Crash(c)
      BY <1>1, NoSwitchType DEF Crash
    <3>2. ~SwitchBegin(c)
      BY <1>1 DEF SwitchBegin, NoSwitch
    <3>3. ~SwitchProbe(c)
      BY <1>1 DEF SwitchProbe, SwitchRec
    <3>4. ~SwitchTarget(c)
      BY <1>1 DEF SwitchTarget, SwitchRec
    <3> QED BY <3>1, <3>2, <3>3, <3>4
  <2> QED BY <1>1, <2>4, <2>5, <2>6, <2>7, AloneCommits
<1>3. s.phase \in {"target", "activate", "verify", "rollback", "confirm"} =>
         AloneOK(c) /\ SelectableUsable /\ SwitchOK(c)
  BY <1>1, AloneKnows DEF Idle, MInv, ClientsOK
<1>4. CASE CommitBinding(c)
  <2>1. /\ switch'[c] = AfterCommit(c) /\ pend[c].do \in BindingOps \ {"create"} /\ SwitchOK(c)
    BY <1>1, <1>4 DEF CommitBinding, BindingOps, MInv, ClientsOK
  <2>2. s.phase = "smoke" /\ pend[c].arg # "passed"
    BY <1>1, <2>1, NoPendType DEF AfterCommit, SwitchOK, SwitchRec, Phases, BindingOps, None
  <2>3. AfterCommit(c) = [s EXCEPT !.phase = "done", !.outcome = "preflight_failed"]
    BY <2>2 DEF AfterCommit
  <2>4. /\ switch'[c].outcome = "preflight_failed"
        /\ switch'[c].active = a /\ switch'[c].target = t
    BY <1>1, <2>1, <2>3 DEF SwitchRec
  <2>5. pend[c].do = "smoke" /\ pend[c].on = t /\ pend[c].arg = "failed" /\ t \in Bindings
    BY <2>1, <2>2 DEF SwitchOK
  <2>6. binding' = [binding EXCEPT ![t].smoke = "failed"]
    BY <1>4, <2>5 DEF CommitBinding
  <2>7. Active = {a}
    <3>1. AloneOK(c)
      BY <1>1, <2>2, AloneKnows DEF Idle
    <3> QED BY <2>2, <3>1 DEF AloneOK, SwitchCurrent
  <2>8. Active' = Active /\ binding'[t].smoke = "failed"
    BY <1>1, <2>5, <2>6 DEF Active, BindingRec
  <2> QED BY <2>4, <2>7, <2>8 DEF Restored
<1>5. CASE SwitchRefused(c)
  <2>1. switch'[c].outcome = "refused"
    BY <1>1, <1>5 DEF SwitchRefused, SwitchRec
  <2> QED BY <2>1 DEF Restored
<1>6. CASE SwitchActivate(c)
  <2>1. s.phase = "activate" /\ switch'[c] = Raised(c)
    BY <1>1, <1>6 DEF SwitchActivate
  <2>2. switch'[c].outcome = "error"
    BY <1>1, <2>1 DEF Raised, SwitchRec
  <2> QED BY <2>2 DEF Restored
<1>7. CASE SwitchVerify(c)
  <2>1. switch'[c].outcome = "switched"
    BY <1>1, <1>7 DEF SwitchVerify, SwitchRec
  <2> QED BY <2>1 DEF Restored
<1>8. CASE SwitchRollback(c)
  <2>1. s.phase = "rollback" /\ ~MayRollBack(t)
    BY <1>1, <1>8 DEF SwitchRollback
  <2>2. /\ Active = {t} /\ binding[t].prev = a /\ binding[a].state = "previous" /\ Usable(a)
        /\ a \in Bindings
    BY <1>3, <2>1 DEF AloneOK, SwitchCurrent, SwitchOK
  <2> QED BY <2>1, <2>2, BindingsAssumption DEF MayRollBack, Active
<1>9. CASE SwitchConfirm(c)
  <2>1. s.phase = "confirm" /\ UNCHANGED binding
    BY <1>9 DEF SwitchConfirm
  <2>2. Active = {a} /\ binding[t].smoke = "failed" /\ a \in Bindings
    BY <1>3, <2>1 DEF AloneOK, SwitchCurrent, SwitchOK
  <2>3. Usable(a)
    BY <1>3, <2>1, <2>2 DEF SelectableUsable, Active
  <2>4. /\ switch'[c].outcome = "rolled_back"
        /\ switch'[c].active = a /\ switch'[c].target = t
    BY <1>1, <1>9, <2>2, <2>3 DEF SwitchConfirm, SwitchRec
  <2>5. Active' = Active
    BY <2>1 DEF Active
  <2> QED BY <2>1, <2>2, <2>4, <2>5 DEF Restored
<1> QED BY <1>2, <1>4, <1>5, <1>6, <1>7, <1>8, <1>9
-----------------------------------------------------------------------------
(* What is selected, for every number of clients, manifests and bindings:   *)
(* one active binding at most, whatever administration and switches race    *)
(* (activate_binding, rollback_binding and the unique index), and none that *)
(* is active or a fallback without verified manifests at its revisions as   *)
(* long as no two clients were at work at once.                             *)
THEOREM SelectionAlwaysSound == Spec => []SelectionSound
<1>1. MInv => SelectionSound
  <2> SUFFICES ASSUME MInv PROVE SelectionSound
    OBVIOUS
  <2>1. OneActiveBinding
    <3>1. CASE Active = {}
      BY <3>1, FS_EmptySet DEF OneActiveBinding
    <3>2. CASE \E a \in Active : TRUE
      <4>1. PICK a : Active = {a}
        BY <3>2 DEF MInv, OneActive
      <4>2. Cardinality(Active) = 1
        BY <4>1, FS_Singleton
      <4> QED BY <4>2 DEF OneActiveBinding
    <3> QED BY <3>1, <3>2
  <2> QED BY <2>1 DEF MInv, SelectionSound, Serially, SelectableUsableSerially
<1> QED BY <1>1, MInvAlways, PTL

(* How the selection changes: only the binding whose smoke test was recorded *)
(* in that very revision is activated; a switch that fails while nothing     *)
(* overlaps leaves the binding it started from active (_switch); and what    *)
(* was rolled back is selected or offered again by no step, a race included. *)
THEOREM SelectionStepsAlwaysSound == Spec => SelectionStepsSound
<1>1. ASSUME MInv, Next
      PROVE  ActivationTested /\ FailedSwitchRestores /\ RolledBackStays
  BY <1>1, StepActivationTested, StepFailedSwitchRestores, StepRolledBackStays DEF Next, Overlap
<1> QED BY <1>1, MInvAlways, PTL DEF Spec, SelectionStepsSound
=============================================================================
