-------------------------------- MODULE Spawn -------------------------------
(***************************************************************************)
(* The spawn gate (platform/harness/spawn.py): check, then prepare, which  *)
(* writes the spawn act, mints, assembles the injection and delivers the   *)
(* handoff, then the container.  Each of them reads the corpus anew, and   *)
(* spawns for one story run side by side in processes of their own while   *)
(* the corpus moves.                                                       *)
(***************************************************************************)
EXTENDS Baseline

CONSTANTS
  Harness,   \* spawns of the story
  MaxEdits   \* bound: edits of the story's list and of the corpus's health

ASSUME SpawnAssumption == MaxEdits \in Nat

(* What a request may have wrong, in the order check() looks. *)
Flaw == {"none", "no_story", "unknown_story", "mounts", "no_image", "no_ceiling",
         "base_version", "over_ceiling", "not_audience_bound"}

(* How it names the story: STORY-0001 or story-0001. *)
Form == {"atom", "kebab"}

VARIABLES
  green,     \* the corpus lints
  there,     \* the story is in it
  edits,     \* edits made
  phase,     \* where each spawn stands
  request,   \* what an admitted one asked for
  act,       \* the spawn act it built
  injected   \* the criteria its citizen was told

spawnVars == <<green, there, edits, phase, request, act, injected>>
vars == <<baselineVars, spawnVars>>

Idle == [form |-> "atom", flaw |-> "none"]
NoAct == [id |-> 0, at |-> 0, pinned |-> [c \in {} |-> 1]]
Failed == {"refused", "unrecorded", "untold", "undelivered"}
Wrote == {"recorded", "unrecorded", "injected", "untold", "running", "undelivered"}

Init ==
  /\ BaselineInit
  /\ green = TRUE /\ there = TRUE
  /\ edits = 0
  /\ phase = [h \in Harness |-> "idle"]
  /\ request = [h \in Harness |-> Idle]
  /\ act = [h \in Harness |-> NoAct]
  /\ injected = [h \in Harness |-> {}]

-----------------------------------------------------------------------------
(* Defect form: the caveats' ceiling is not asked about.                   *)
RefusesLaxly(q) == q.flaw \notin {"none", "over_ceiling"} \/ ~green \/ ~there

(* check(): resolve_story lints the corpus and a red one refuses; either   *)
(* form of the name resolves.  The other refusals follow in order; which   *)
(* one it is makes no difference to what happens next.                     *)
Refuses(q) == q.flaw # "none" \/ ~green \/ ~there

Check(h, q) ==
  /\ phase[h] = "idle"
  /\ IF Refuses(q)
     THEN phase' = [phase EXCEPT ![h] = "refused"] /\ UNCHANGED request
     ELSE /\ phase' = [phase EXCEPT ![h] = "checked"]
          /\ request' = [request EXCEPT ![h] = q]
  /\ UNCHANGED <<baselineVars, green, there, edits, act, injected>>

(* prepare() reads the corpus again and does not look at the findings: a   *)
(* red corpus may still hold the story and its criteria, or it may not; a  *)
(* story that is gone is BaselineUnanchored.                               *)
BuildsAct(h) ==
  /\ phase[h] = "checked"
  /\ \/ /\ there
        /\ act' = [act EXCEPT ![h] = build_spawn_act]
        /\ phase' = [phase EXCEPT ![h] = "built"]
     \/ /\ ~green \/ ~there
        /\ phase' = [phase EXCEPT ![h] = "refused"]
        /\ UNCHANGED act
  /\ UNCHANGED <<baselineVars, green, there, edits, request, injected>>

WritesAct(h) ==
  /\ phase[h] = "built"
  /\ \/ write_spawn_act(act[h]) /\ phase' = [phase EXCEPT ![h] = "recorded"]
     \/ write_breaks_off(act[h]) /\ phase' = [phase EXCEPT ![h] = "unrecorded"]
  /\ UNCHANGED <<corpus, clock, green, there, edits, request, act, injected>>

(* injection_set lints a third time and refuses a red corpus; it looks the *)
(* story up under the name the request used, which is an atom's id or not; *)
(* one it does not find has no criteria.                                   *)
Injects(h) ==
  /\ phase[h] = "recorded"
  /\ IF green
     THEN /\ phase' = [phase EXCEPT ![h] = "injected"]
          /\ injected' = [injected EXCEPT ![h] =
                            IF request[h].form = "atom" /\ there THEN listed ELSE {}]
     ELSE phase' = [phase EXCEPT ![h] = "untold"] /\ UNCHANGED injected
  /\ UNCHANGED <<baselineVars, green, there, edits, request, act>>

(* The volume, the handoff and the container, any of which may fail.       *)
Delivers(h) ==
  /\ phase[h] = "injected"
  /\ \E r \in {"running", "undelivered"} : phase' = [phase EXCEPT ![h] = r]
  /\ UNCHANGED <<baselineVars, green, there, edits, request, act, injected>>

SpawnStep(h) ==
  \/ \E form \in Form, flaw \in Flaw : Check(h, [form |-> form, flaw |-> flaw])
  \/ BuildsAct(h) \/ WritesAct(h) \/ Injects(h) \/ Delivers(h)

-----------------------------------------------------------------------------
(* The corpus is edited while spawns run; an edit may leave it red.        *)
CorpusMoves ==
  \/ /\ edits < MaxEdits
     /\ edits' = edits + 1
     /\ \/ \E S \in SUBSET Criterion : StoryRelists(S) /\ UNCHANGED <<green, there>>
        \/ green' = ~green /\ UNCHANGED <<baselineVars, there>>
        \/ there' = ~there /\ UNCHANGED <<baselineVars, green>>
     /\ UNCHANGED <<phase, request, act, injected>>
  \/ /\ \/ \E c \in Criterion : AgentRevises(c) \/ FloorTouches(c)
        \/ ClockTicks
     /\ UNCHANGED spawnVars

Next == CorpusMoves \/ \E h \in Harness : SpawnStep(h)

Spec == Init /\ [][Next]_vars

-----------------------------------------------------------------------------
SpawnTypeOK ==
  /\ listed \subseteq Criterion
  /\ spec \in [Criterion -> [version : Version, floor : BOOLEAN]]
  /\ clock \in Nat
  /\ act \in [Harness -> {act[h] : h \in Harness}]
  /\ \A a \in acta \cup {act[h] : h \in Harness} : IsAct(a)
  /\ green \in BOOLEAN /\ there \in BOOLEAN
  /\ edits \in Nat
  /\ phase \in [Harness -> {"idle", "checked", "built", "recorded", "injected", "running"}
                           \cup Failed]
  /\ request \in [Harness -> [form : Form, flaw : Flaw]]
  /\ injected \in [Harness -> SUBSET Criterion]

(* Another spawn wrote, or broke off writing, in the second of h's act. *)
WrittenOver(h) ==
  \E k \in Harness \ {h} :
    phase[k] \in Wrote /\ act[k].at \div TicksPerSecond = act[h].at \div TicksPerSecond

(* "Weakening the corpus cannot shrink what has to be satisfied" (grade):  *)
(* the work of a running citizen is green only with evidence for every     *)
(* criterion its own spawn pinned, unless a later spawn pinned anew,       *)
(* whatever was dropped from the story or revised since, and whichever     *)
(* other spawns wrote or died writing; a second of its own is not shared.  *)
NoneIsLetOff ==
  \A h \in Harness : phase[h] = "running" =>
    \A E \in SUBSET Criterion : Satisfied(E) =>
      DOMAIN act[h].pinned \subseteq E \/ Newest.at > act[h].at \/ WrittenOver(h)

(* Whatever the record says was pinned, a spawn that had been admitted     *)
(* pinned it, at an instance the criterion really had.                     *)
ActsAreOfAdmitted ==
  \A a \in acta :
    /\ \E h \in Harness :
         act[h] = a /\ request[h].flaw = "none" /\ phase[h] \in Wrote
    /\ \A c \in DOMAIN a.pinned : a.pinned[c] <= spec[c].version

-----------------------------------------------------------------------------
(* Statements of the repository that the code does not keep.               *)

(* baseline.py:78-79 "a record of a spawn that could not happen would be a *)
(* false provenance entry".                                                *)
NoRecordWithoutSpawn ==
  \A a \in acta : \E h \in Harness : act[h] = a /\ phase[h] \notin Failed

(* spawn.py:61-63 "The reference may arrive as the atom id (STORY-0002) or *)
(* as the kebab form ... Either must resolve to a real story atom": a      *)
(* running citizen was told the acceptance of the story it runs for.       *)
CitizenKnowsItsStory ==
  \A h \in Harness :
    phase[h] = "running" /\ edits = 0 => injected[h] = DOMAIN act[h].pinned
=============================================================================
