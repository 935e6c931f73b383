------------------------------ MODULE Baseline ------------------------------
(***************************************************************************)
(* The acceptance baseline of one story: the spawn acts that pin its       *)
(* criteria and the grading against them (platform/harness/baseline.py).   *)
(*                                                                         *)
(* A criterion is its version, which identifies the instance, and `floor`, *)
(* whether it carries an authorized_by.  Authors, agents and the floor     *)
(* edit the corpus; any number of spawns write acts; grading is a function *)
(* of both.                                                                *)
(***************************************************************************)
EXTENDS Naturals, FiniteSets

CONSTANTS
  Criterion,       \* acceptance specifications the story may list
  MaxVersion,      \* bound: instances of a criterion
  MaxTime,         \* bound: clock readings
  TicksPerSecond   \* clock readings that share one act id

ASSUME BaselineAssumption ==
  /\ MaxVersion \in Nat \ {0}
  /\ MaxTime \in Nat
  /\ TicksPerSecond \in Nat \ {0}

VARIABLES
  listed,   \* the story's acceptance list in the corpus
  spec,     \* the current instance of each criterion
  clock,    \* wall clock, finer than the second of an act's id
  acta      \* the spawn acts that can be read

corpus == <<listed, spec>>
baselineVars == <<listed, spec, clock, acta>>

Version == 1 .. MaxVersion

IsAct(a) ==
  /\ a.id \in Nat /\ a.at \in Nat
  /\ DOMAIN a.pinned \subseteq Criterion
  /\ \A c \in DOMAIN a.pinned : a.pinned[c] \in Version

(* instance_of: what makes it this instance, and no other field. *)
instance_of(c) == spec[c].version

BaselineInit ==
  /\ listed \in SUBSET Criterion
  /\ spec \in [Criterion -> [version : {1}, floor : BOOLEAN]]
  /\ clock = 0
  /\ acta = {}

-----------------------------------------------------------------------------
(* The corpus moves: an agent's revision carries no authorized_by, a floor *)
(* touch does; the story's own list is an author's to change.              *)
Revised(c, touch) ==
  /\ spec[c].version < MaxVersion
  /\ spec' = [spec EXCEPT ![c] = [version |-> @.version + 1, floor |-> touch]]
  /\ UNCHANGED <<listed, clock, acta>>

AgentRevises(c) == Revised(c, FALSE)
FloorTouches(c) == Revised(c, TRUE)

StoryRelists(S) ==
  /\ S # listed
  /\ listed' = S
  /\ UNCHANGED <<spec, clock, acta>>

ClockTicks ==
  /\ clock < MaxTime
  /\ clock' = clock + 1
  /\ UNCHANGED <<listed, spec, acta>>

-----------------------------------------------------------------------------
(* build_spawn_act: the instances in force now, under an id of this second. *)
build_spawn_act ==
  [id |-> clock \div TicksPerSecond, at |-> clock,
   pinned |-> [c \in listed |-> instance_of(c)]]

(* write_spawn_act: one file per id, whatever stood there before; a writer *)
(* that dies leaves a file that does not parse.                            *)
write_spawn_act(r) == acta' = {a \in acta : a.id # r.id} \cup {r}
write_breaks_off(r) == acta' = {a \in acta : a.id # r.id}

(* spawn_acts_for: what cannot be parsed is passed over; the newest rules. *)
Newest == CHOOSE a \in acta : \A b \in acta : b.at <= a.at

-----------------------------------------------------------------------------
(* Defect form: what the story no longer lists is no longer graded.        *)
CriteriaListed == DOMAIN Newest.pinned \cap listed

(* graded_acceptance: which criteria, and which instance of each.          *)
Criteria == DOMAIN Newest.pinned

(* Defect form: any later instance counts.                                 *)
GradedCurrent(c) == instance_of(c)
Graded(c) == IF spec[c].floor THEN instance_of(c) ELSE Newest.pinned[c]

(* grade: green only if every graded criterion has evidence.  Without an   *)
(* act the grader refuses (BaselineUnanchored).                            *)
Satisfied(evidence) == acta # {} /\ Criteria \subseteq evidence

-----------------------------------------------------------------------------
(* An agent's own instance is not what its work is graded against, unless  *)
(* a spawn pinned it (SPEC-0126).                                          *)
AgentRevisionNotGraded ==
  [][\A c \in Criterion :
       acta # {} /\ c \in Criteria /\ spec'[c] # spec[c] /\ ~spec'[c].floor
         => Graded(c)' # instance_of(c)']_baselineVars

-----------------------------------------------------------------------------
(* Statements of the repository that the code does not keep.               *)

(* baseline.py:25-26 "Agent revisions after the spawn stay in the corpus   *)
(* and are refused nothing; they simply do not move what the work is       *)
(* graded against."                                                        *)
AgentRevisionMovesNothing ==
  [][\A c \in Criterion :
       acta # {} /\ c \in Criteria /\ acta' = acta
         /\ spec'[c] # spec[c] /\ ~spec'[c].floor
         => Graded(c)' = Graded(c)]_baselineVars

(* baseline.py:17-18 "a spawn now writes an immutable record": no act that *)
(* was written is changed or lost.                                         *)
ActIsImmutable == [][acta \subseteq acta']_baselineVars
=============================================================================
