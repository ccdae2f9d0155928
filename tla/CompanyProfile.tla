---------------------------- MODULE CompanyProfile ----------------------------
(***************************************************************************)
(* The profile of one organization and its three writers: the owner who    *)
(* changes fields (api/company_profile.py), the onboarding wizard          *)
(* (services/onboarding.py) and the company brain, which fills in what the *)
(* owner has not set (services/company_brain.py).                          *)
(*                                                                         *)
(* A writer loads the row, changes it in memory, and sends the columns     *)
(* that differ from what it had loaded; the row is then locked until it    *)
(* commits.  Who comes later waits, and overwrites.                        *)
(***************************************************************************)
EXTENDS Integers, FiniteSets

CONSTANTS
    Field,      \* fields the agent fills in and the owner may override
    Wizard,     \* fields the wizard sets: description, certifications
    Brain,      \* runs of the company brain
    Patch,      \* requests of the owner
    Onboard,    \* submissions of the wizard
    NoProfile

ASSUME ProfileAssumption == Wizard \subseteq Field

Writer == Brain \cup Patch \cup Onboard

VARIABLES
    profile,   \* [value : [Field -> origin], overrides : SUBSET Field] or NoProfile
    access,    \* [Writer -> "none", "loaded", "sent", "over" or "refused"]
    loaded,    \* [Writer -> the profile it has loaded]
    fields,    \* [Writer -> the fields it sets]
    exposed    \* history: fields the owner set while another writer was at work

profiles == <<profile, access, loaded, fields, exposed>>

ProfileInit ==
    /\ profile = NoProfile
    /\ access = [w \in Writer |-> "none"]
    /\ loaded = [w \in Writer |-> NoProfile]
    /\ fields = [w \in Writer |-> {}]
    /\ exposed = {}

Empty == [value |-> [f \in Field |-> "none"], overrides |-> {}]

\* A seeded defect: the agent's fields are set whatever the owner has set.
AllFields(overrides) == Field

\* The fields _apply_profile sets.
Inferable(overrides) == Field \ overrides

Load(w) ==
    /\ access[w] = "none"
    /\ IF w \in Patch /\ profile = NoProfile
       THEN access' = [access EXCEPT ![w] = "refused"] /\ UNCHANGED fields
       ELSE /\ access' = [access EXCEPT ![w] = "loaded"]
            /\ \E F \in SUBSET Field \ {{}} :
                 /\ w \in Onboard => F = Wizard
                 /\ w \in Brain =>
                      F = Inferable(IF profile = NoProfile THEN {} ELSE profile.overrides)
                 /\ fields' = [fields EXCEPT ![w] = F]
    /\ loaded' = [loaded EXCEPT ![w] = profile]
    /\ UNCHANGED <<profile, exposed>>

\* Everything is overridden: only the checklist of missing fields is written.
LoadFull(w) ==
    /\ access[w] = "none" /\ w \in Brain
    /\ profile # NoProfile /\ Inferable(profile.overrides) = {}
    /\ access' = [access EXCEPT ![w] = "loaded"]
    /\ loaded' = [loaded EXCEPT ![w] = profile]
    /\ UNCHANGED <<profile, fields, exposed>>

\* No other writer has sent the row without committing it.
ProfileFree(w) == \A v \in Writer \ {w} : access[v] # "sent"

\* Two writers have both found no profile: the second is refused.
ProfileTaken(w) == loaded[w] = NoProfile /\ profile # NoProfile

Send(w) ==
    /\ access[w] = "loaded" /\ ProfileFree(w) /\ ~ProfileTaken(w)
    /\ access' = [access EXCEPT ![w] = "sent"]
    /\ UNCHANGED <<profile, loaded, fields, exposed>>

\* The overrides as the owner's request or the wizard writes them: its keys are
\* added to those it has loaded.
Keys(w) == fields[w] \cup (IF loaded[w] = NoProfile THEN {} ELSE loaded[w].overrides)

Origin(w) == IF w \in Brain THEN "inferred" ELSE "owner"

Stored(w) ==
    LET base == IF profile = NoProfile THEN Empty ELSE profile IN
    [value |-> [f \in Field |-> IF f \in fields[w] THEN Origin(w) ELSE base.value[f]],
     overrides |-> IF w \in Brain THEN base.overrides ELSE Keys(w)]

Store(w) ==
    /\ access[w] = "sent"
    /\ access' = [access EXCEPT ![w] = "over"]
    /\ profile' = Stored(w)
    /\ exposed' = IF w \notin Brain /\ \E v \in Writer \ {w} : access[v] = "loaded"
                  THEN exposed \cup fields[w] ELSE exposed
    /\ loaded' = [loaded EXCEPT ![w] = NoProfile]
    /\ fields' = [fields EXCEPT ![w] = {}]

\* The transaction is rolled back: a run starts again, a request has failed.
Undo(w) ==
    /\ access' = [access EXCEPT ![w] = IF w \in Brain THEN "none" ELSE "refused"]
    /\ loaded' = [loaded EXCEPT ![w] = NoProfile]
    /\ fields' = [fields EXCEPT ![w] = {}]
    /\ UNCHANGED <<profile, exposed>>

-----------------------------------------------------------------------------

ProfileTypeOK ==
    /\ profile = NoProfile \/ profile \in [value : [Field -> {"none", "inferred", "owner"}],
                                           overrides : SUBSET Field]
    /\ access \in [Writer -> {"none", "loaded", "sent", "over", "refused"}]
    /\ Cardinality({w \in Writer : access[w] = "sent"}) <= 1
=============================================================================
