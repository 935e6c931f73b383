---------------------------- MODULE Enforcement -----------------------------
(***************************************************************************)
(* The merge-enforcement probe (platform/suite/enforcement/run.py): it     *)
(* asks GitHub which rules apply to main and then for one ruleset after    *)
(* another, whose bypass actors only an administrator's credential is      *)
(* shown.  A run that did not see them all relies on the newest record of  *)
(* one that did.  The settings may be changed between any two requests.    *)
(***************************************************************************)
EXTENDS Evidence

CONSTANTS Ruleset,
          MaxChanges    \* bound: changes to the settings

VARIABLES
  applied,    \* the rulesets that apply to main
  bypass,     \* those with an actor who may bypass them
  since,      \* per ruleset, from when it has stood bypassed, if it has
  changes,
  probe       \* idle, or a run and what it has seen

enforcementVars == <<applied, bypass, since, changes, probe>>
ProbeIdle == [at |-> "idle"]

(* A lesser credential sees what none does: an administrator's that errs. *)
Credential == {"none", "administrator"}
Open == applied \cap bypass

EnforcementInit ==
  /\ EvidenceInit
  /\ applied \in SUBSET Ruleset /\ bypass \in SUBSET Ruleset
  /\ since = [r \in Ruleset |-> 0]
  /\ changes = 0
  /\ probe = ProbeIdle

SettingsChange(r) ==
  /\ changes < MaxChanges /\ changes' = changes + 1
  /\ \/ applied' = (applied \ {r}) \cup ({r} \ applied) /\ UNCHANGED bypass
     \/ bypass' = (bypass \ {r}) \cup ({r} \ bypass) /\ UNCHANGED applied
  /\ since' = [since EXCEPT ![r] = IF r \in Open THEN 0 ELSE now]
  /\ UNCHANGED <<evidenceVars, probe>>

(* The first request: the rules that apply, which may differ from what is  *)
(* claimed; or no answer, and nothing else is asked.                       *)
Probes(credential) ==
  /\ probe = ProbeIdle
  /\ \E ok \in {applied # {}, FALSE}, answered \in BOOLEAN :
       /\ ok => answered
       /\ probe' = [at |-> "read", credential |-> credential, began |-> now,
                    asked |-> applied, found |-> {},
                    left |-> IF answered THEN applied ELSE {}, unreadable |-> ~answered, ok |-> ok]
  /\ UNCHANGED <<evidenceVars, applied, bypass, since, changes>>

(* One ruleset, whether it applies by then or not: an error, or an answer  *)
(* without bypass_actors, is noted.                                        *)
ReadsRuleset(r) ==
  /\ probe.at = "read" /\ r \in probe.left
  /\ \/ /\ probe.credential = "administrator"
        /\ probe' = [probe EXCEPT !.left = @ \ {r}, !.found = @ \cup ({r} \cap bypass)]
     \/ probe' = [probe EXCEPT !.left = @ \ {r}, !.unreadable = TRUE]
  /\ UNCHANGED <<evidenceVars, applied, bypass, since, changes>>

(* Defect form: an empty scope in any record will do.                      *)
attests_any(captures) == captures # {} /\ \E c \in captures : c.body.actors = {}

(* attested_bypass_check *)
attests(captures) == captures # {} /\ \A c \in Newest(captures) : c.body.actors = {}

Captures(records) == {r \in records : r.control = "ctrl0009" /\ r.body.capture}

(* Defect form: what was not shown is taken for empty.                     *)
ScopeIsEmptyUnseen(captures) == probe.found = {}

(* The bypass fact, seen or attested. *)
ScopeIsEmpty(captures) == IF probe.unreadable THEN attests(captures) ELSE probe.found = {}

Concludes ==
  /\ probe.at = "read" /\ probe.left = {}
  /\ Save(Record("ctrl0009", "main", probe.ok /\ ScopeIsEmpty(Captures(OnFile)),
                 IF ~probe.unreadable /\ probe.credential # "none"
                   THEN [capture |-> TRUE, actors |-> probe.found, began |-> probe.began]
                   ELSE [capture |-> FALSE]))
  /\ probe' = ProbeIdle
  /\ UNCHANGED <<applied, bypass, since, changes>>

EnforcementNext ==
  \/ \E r \in Ruleset : SettingsChange(r) \/ ReadsRuleset(r)
  \/ \E c \in Credential : Probes(c)
  \/ Concludes
  \/ TimePasses /\ UNCHANGED enforcementVars

EnforcementSpec == EnforcementInit /\ [][EnforcementNext]_<<evidenceVars, enforcementVars>>

-----------------------------------------------------------------------------
(* The run whose observation decided a record: its own, or the capture it  *)
(* relied on.                                                              *)
DecidedBy(p) == IF p.body.capture THEN {p} ELSE Newest(Captures(OnFileBefore(p.at)))
Recorded == {p \in written' \ written : p.control = "ctrl0009"}

(* "no actor may bypass the ruleset": no run passes over an actor who      *)
(* has stood in a ruleset since before the observation that decided it was *)
(* begun, whoever made it, and whatever was changed between its requests;  *)
(* "it cannot notice a bypass actor added since", and no other.            *)
StandingBypassIsRefused ==
  [][\A p \in Recorded : Passed(p) =>
       \E q \in DecidedBy(p) : \A r \in Open : since[r] >= q.body.began]_<<evidenceVars, enforcementVars>>

-----------------------------------------------------------------------------
(* Statements of the repository that the code does not keep.               *)

(* run.py:106 "somebody with sight of it recorded no bypass": with the     *)
(* newest who had sight of it, whatever was recorded in his second since.  *)
NewestSightCounts ==
  [][\A p \in Recorded : Passed(p) /\ ~p.body.capture =>
       \A c \in Newest(Captures(written)) : c.body.actors = {}]_<<evidenceVars, enforcementVars>>

(* run.py:188 "no actor may bypass the ruleset": a run that was shown an   *)
(* actor does not pass, also when another ruleset could not be read.       *)
SeenBypassIsRefused ==
  [][\A p \in Recorded : probe.found # {} => ~Passed(p)]_<<evidenceVars, enforcementVars>>

(* run.py:194 "never assumed empty": a capture saw some ruleset's scope.   *)
CaptureSawSomething ==
  [][\A p \in Recorded : p.body.capture => probe.asked # {}]_<<evidenceVars, enforcementVars>>
=============================================================================
