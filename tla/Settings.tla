------------------------------- MODULE Settings -------------------------------
(***************************************************************************)
(* Preferences and policies (settings.py, PreferenceService and            *)
(* PolicyService).  A change is prepared from the record as it is read and *)
(* committed in a transaction of its own, which looks at the revision the  *)
(* caller has named and at nothing else.                                   *)
(***************************************************************************)
EXTENDS Naturals

CONSTANTS
    Settings,   \* record identifiers
    Names,      \* identities: preference keys and policy keys, apart
    Users,      \* concurrent callers, all of them the user
    MaxChanges  \* bound: revisions of one record

ASSUME SettingsAssumption == Names # {}

VARIABLES
    setting,    \* the stored records
    change      \* the change each caller has prepared

settingVars == <<setting, change>>

Values == {"before", "after"}
NoSetting == [rev |-> 0, life |-> "none", name |-> CHOOSE n \in Names : TRUE, value |-> "before"]
SettingRow == [rev : Nat, life : {"none", "active", "archived"}, name : Names, value : Values]

NoChange == [id |-> "none", expected |-> 0, row |-> NoSetting]

SettingsInit ==
    /\ setting = [s \in Settings |-> NoSetting]
    /\ change = [u \in Users |-> NoChange]
-----------------------------------------------------------------------------
ActiveNamed(n) == {s \in Settings : setting[s].life = "active" /\ setting[s].name = n}

(* PolicyService.create, PreferenceService.create: one transaction checks   *)
(* the key and inserts.                                                    *)
CreateSetting(u, s, n) ==
    /\ change[u] = NoChange
    /\ setting[s].life = "none"
    /\ ActiveNamed(n) = {}
    /\ setting' = [setting EXCEPT ![s] = [rev |-> 1, life |-> "active", name |-> n, value |-> "before"]]
    /\ UNCHANGED change

(* Every revision the caller can name is one the record has had. *)
Prepare(u, s, expected, row) ==
    /\ change[u] = NoChange
    /\ setting[s].life = "active"
    /\ expected \in 1..setting[s].rev /\ setting[s].rev < MaxChanges
    /\ change' = [change EXCEPT ![u] = [id |-> s, expected |-> expected, row |-> row]]
    /\ UNCHANGED setting

(* PolicyService.update, and the same of a preference: the key and the     *)
(* status are those that were read.                                        *)
UpdateSetting(u, s, expected, value) ==
    Prepare(u, s, expected, [setting[s] EXCEPT !.value = value])

(* archive writes back the value that was read. *)
ArchiveSetting(u, s, expected) ==
    Prepare(u, s, expected, [setting[s] EXCEPT !.life = "archived"])

(* Mutant: the revision is not compared. *)
AnyRevision(u) == TRUE

(* refreshed.revision = expected_revision, and WHERE revision = ? *)
Expected(u) == setting[change[u].id].rev = change[u].expected

(* _update_typed_record *)
CommitSetting(u) ==
    /\ change[u] # NoChange
    /\ Expected(u)
    /\ setting' = [setting EXCEPT ![change[u].id] = [change[u].row EXCEPT !.rev = change[u].expected + 1]]
    /\ change' = [change EXCEPT ![u] = NoChange]

(* A revision that is out of date, an error, a crash. *)
AbandonSetting(u) ==
    /\ change[u] # NoChange
    /\ change' = [change EXCEPT ![u] = NoChange]
    /\ UNCHANGED setting

SettingsNext ==
    \E u \in Users :
       \/ \E s \in Settings :
             \/ \E n \in Names : CreateSetting(u, s, n)
             \/ \E e \in 1..MaxChanges : \/ ArchiveSetting(u, s, e)
                                         \/ \E v \in Values : UpdateSetting(u, s, e, v)
       \/ CommitSetting(u) \/ AbandonSetting(u)

SettingsSpec == SettingsInit /\ [][SettingsNext]_settingVars
-----------------------------------------------------------------------------
SettingsTypeOK ==
    /\ setting \in [Settings -> SettingRow]
    /\ change \in [Users -> [id : Settings \union {"none"}, expected : Nat, row : SettingRow]]

(* A key has one active record at most (a state package with two is        *)
(* refused: _validate_active_setting_identities).                          *)
OneActiveSetting ==
    \A s, t \in Settings :
        setting[s].life = "active" /\ setting[t].life = "active" /\ setting[s].name = setting[t].name
            => s = t

(* What was archived stays as it is, and archiving keeps the value that    *)
(* was there, although update and archive write back a status, a key and a *)
(* value they have read outside their transaction.                         *)
ArchivedStays ==
    \A s \in Settings :
        /\ setting[s].life = "archived" => setting'[s] = setting[s]
        /\ setting'[s].life = "archived" => setting'[s].value = setting[s].value

(* Preferences and policies, changed by callers that race. *)
SettingsSound == [](SettingsTypeOK /\ OneActiveSetting) /\ [][ArchivedStays]_settingVars
=============================================================================
