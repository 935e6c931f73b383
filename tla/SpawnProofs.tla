----------------------------- MODULE SpawnProofs ----------------------------
(***************************************************************************)
(* Theorems of Spawn, for every story, number of spawns and bound.         *)
(*                                                                         *)
(* A record is sound: its id is the second it was made in, it was made     *)
(* before now, and it pins instances that are no later than the current    *)
(* ones.  From the first comes that one moment is one act; from the other  *)
(* two, that a newest act exists and that a revision is later than its     *)
(* pin.  A spawn that wrote its act finds it on record, or another wrote   *)
(* in the same second.                                                     *)
(***************************************************************************)
EXTENDS Spawn, WellFoundedInduction, TLAPS

Sound(a) ==
  /\ a.id = a.at \div TicksPerSecond
  /\ a.at <= clock
  /\ \A c \in DOMAIN a.pinned : a.pinned[c] <= spec[c].version

IInv ==
  /\ SpawnTypeOK
  /\ \A a \in acta : Sound(a)
  /\ \A h \in Harness : phase[h] = "built" => Sound(act[h])
  /\ \A h \in Harness : phase[h] \in Wrote => Sound(act[h])
  /\ \A a, b \in acta : a.id = b.id => a = b

-----------------------------------------------------------------------------
LEMMA WholeSeconds ==
  ASSUME NEW n \in Nat, NEW d \in Nat \ {0}
  PROVE  n \div d \in Nat
  OBVIOUS

LEMMA LessIsRelated ==
  ASSUME NEW x \in Nat, NEW y \in Nat, y < x
  PROVE  <<y, x>> \in OpToRel(<, Nat)
  BY DEF OpToRel

(* Every nonempty record has a newest act, and Newest is it. *)
LEMMA NewestIsRecorded ==
  ASSUME IInv, acta # {}
  PROVE  Newest \in acta /\ \A b \in acta : b.at <= Newest.at
<1> DEFINE Ages == {clock - a.at : a \in acta}
<1>1. \A a \in acta : a.at \in Nat /\ a.at <= clock
  BY DEF IInv, SpawnTypeOK, IsAct, Sound
<1>2. clock \in Nat
  BY DEF IInv, SpawnTypeOK
<1>3. Ages \subseteq Nat /\ Ages # {}
  BY <1>1, <1>2
<1>4. IsWellFoundedOn(OpToRel(<, Nat), Nat)
  BY NatLessThanWellFounded
<1>5. PICK x \in Ages : \A y \in Ages : <<y, x>> \notin OpToRel(<, Nat)
  <2> HIDE DEF Ages
  <2> QED
    BY <1>3, <1>4, WFMin
<1>6. \A y \in Ages : x <= y
  <2> HIDE DEF Ages
  <2> SUFFICES ASSUME NEW y \in Ages PROVE ~(y < x)
    BY <1>3
  <2>1. x \in Nat /\ y \in Nat /\ <<y, x>> \notin OpToRel(<, Nat)
    BY <1>3, <1>5
  <2> QED
    BY <2>1, LessIsRelated
<1>7. PICK a \in acta : x = clock - a.at
  BY <1>5
<1>8. ASSUME NEW b \in acta PROVE b.at <= a.at
  <2>1. clock - a.at <= clock - b.at
    BY <1>6, <1>7
  <2> QED
    BY <1>1, <1>2, <2>1
<1> QED
  BY <1>7, <1>8 DEF Newest

LEMMA BuiltIsSound ==
  ASSUME IInv
  PROVE  IsAct(build_spawn_act) /\ Sound(build_spawn_act)
<1>1. clock \div TicksPerSecond \in Nat
  BY BaselineAssumption, WholeSeconds DEF IInv, SpawnTypeOK
<1>2. \A c \in listed : c \in Criterion /\ spec[c].version \in Version
  BY DEF IInv, SpawnTypeOK
<1>3. \A c \in listed : spec[c].version <= spec[c].version
  BY <1>2 DEF Version
<1> QED
  BY <1>1, <1>2, <1>3 DEF IInv, SpawnTypeOK, IsAct, Sound, build_spawn_act, instance_of

-----------------------------------------------------------------------------
LEMMA IInvInit == Init => IInv
<1> SUFFICES ASSUME Init PROVE IInv
  OBVIOUS
<1>1. \A h \in Harness : IsAct(act[h])
  BY DEF Init, IsAct, NoAct
<1>2. 1 \in Version
  BY BaselineAssumption DEF Version
<1>3. SpawnTypeOK
  BY <1>1, <1>2 DEF Init, BaselineInit, SpawnTypeOK, Idle, Form, Flaw
<1> QED
  BY <1>3 DEF IInv, Init, BaselineInit, Wrote

(* What leaves the record alone and moves the corpus or the clock on.      *)
LEMMA SoundStays ==
  ASSUME IInv, clock' \in Nat, clock <= clock',
         spec' \in [Criterion -> [version : Version, floor : BOOLEAN]],
         \A c \in Criterion : spec[c].version <= spec'[c].version,
         NEW a, IsAct(a), Sound(a)
  PROVE  Sound(a)'
<1>1. a.at <= clock'
  BY DEF IInv, SpawnTypeOK, IsAct, Sound
<1>2. ASSUME NEW c \in DOMAIN a.pinned
      PROVE  a.pinned[c] <= spec'[c].version
  <2>1. c \in Criterion /\ a.pinned[c] \in Nat /\ a.pinned[c] <= spec[c].version
    BY DEF IsAct, Sound, Version
  <2>2. spec[c].version \in Nat /\ spec'[c].version \in Nat
    BY <2>1 DEF IInv, SpawnTypeOK, Version
  <2> QED
    BY <2>1, <2>2
<1> QED
  BY <1>1, <1>2 DEF Sound

LEMMA CorpusKeeps ==
  ASSUME IInv, CorpusMoves
  PROVE  IInv'
<1>1. /\ UNCHANGED <<acta, phase, request, act, injected>>
      /\ there' \in BOOLEAN
      /\ listed' \subseteq Criterion
      /\ spec' \in [Criterion -> [version : Version, floor : BOOLEAN]]
      /\ \A c \in Criterion : spec[c].version <= spec'[c].version
      /\ clock' \in Nat /\ clock <= clock'
      /\ green' \in BOOLEAN /\ edits' \in Nat
  <2>0. /\ listed \subseteq Criterion /\ clock \in Nat /\ edits \in Nat
        /\ green \in BOOLEAN /\ there \in BOOLEAN
        /\ spec \in [Criterion -> [version : Version, floor : BOOLEAN]]
        /\ \A c \in Criterion : spec[c].version <= spec[c].version
    BY DEF IInv, SpawnTypeOK, Version
  <2>1. CASE \E S \in SUBSET Criterion : StoryRelists(S) /\ UNCHANGED <<green, there>> /\ edits' = edits + 1
             /\ UNCHANGED <<phase, request, act, injected>>
    BY <2>0, <2>1 DEF StoryRelists
  <2>2. CASE green' \in BOOLEAN /\ there' \in BOOLEAN /\ UNCHANGED baselineVars /\ edits' = edits + 1
             /\ UNCHANGED <<phase, request, act, injected>>
    BY <2>0, <2>2 DEF baselineVars
  <2>3. CASE (\E c \in Criterion, touch \in BOOLEAN : Revised(c, touch)) /\ UNCHANGED spawnVars
    <3>1. PICK c \in Criterion, touch \in BOOLEAN : Revised(c, touch)
      BY <2>3
    <3>2. /\ spec[c].version < MaxVersion
          /\ spec' = [spec EXCEPT ![c] = [version |-> spec[c].version + 1, floor |-> touch]]
          /\ UNCHANGED <<listed, clock, acta>>
      BY <3>1 DEF Revised
    <3>3. spec[c].version + 1 \in Version
      BY <2>0, <3>2, BaselineAssumption DEF Version
    <3>4. spec' \in [Criterion -> [version : Version, floor : BOOLEAN]]
      BY <2>0, <3>2, <3>3
    <3>5. \A b \in Criterion : spec[b].version <= spec'[b].version
      BY <2>0, <3>2 DEF Version
    <3>6. clock <= clock
      BY <2>0
    <3> QED
      BY <2>0, <2>3, <3>2, <3>4, <3>5, <3>6 DEF spawnVars
  <2>4. CASE ClockTicks /\ UNCHANGED spawnVars
    BY <2>0, <2>4 DEF ClockTicks, spawnVars
  <2>5. (\E c \in Criterion : AgentRevises(c) \/ FloorTouches(c))
          => \E c \in Criterion, touch \in BOOLEAN : Revised(c, touch)
    BY DEF AgentRevises, FloorTouches
  <2> QED
    BY <2>0, <2>1, <2>2, <2>3, <2>4, <2>5 DEF CorpusMoves
<1>2. SpawnTypeOK'
  BY <1>1 DEF IInv, SpawnTypeOK, IsAct
<1>3. \A a \in acta' : Sound(a)'
  BY <1>1, SoundStays DEF IInv, SpawnTypeOK
<1>4. \A h \in Harness : phase'[h] \in Wrote \cup {"built"} => Sound(act[h])'
  <2> SUFFICES ASSUME NEW h \in Harness, phase[h] \in Wrote \cup {"built"}
               PROVE  Sound(act[h])'
    BY <1>1
  <2> DEFINE a == act[h]
  <2>1. IsAct(a) /\ Sound(a)
    BY DEF IInv, SpawnTypeOK
  <2>2. act' = act
    BY <1>1
  <2>3. a.id = a.at \div TicksPerSecond
    BY <2>1 DEF Sound
  <2>4. a.at <= clock'
    BY <1>1, <2>1 DEF IInv, SpawnTypeOK, IsAct, Sound
  <2>5. ASSUME NEW c \in DOMAIN a.pinned
        PROVE  a.pinned[c] <= spec'[c].version
    <3>1. c \in Criterion /\ a.pinned[c] \in Nat /\ a.pinned[c] <= spec[c].version
      BY <2>1 DEF IsAct, Sound, Version
    <3>2. spec[c].version \in Nat /\ spec'[c].version \in Nat /\ spec[c].version <= spec'[c].version
      BY <1>1, <3>1 DEF IInv, SpawnTypeOK, Version
    <3> QED
      BY <3>1, <3>2
  <2> QED
    BY <2>2, <2>3, <2>4, <2>5 DEF Sound
<1> QED
  BY <1>1, <1>2, <1>3, <1>4 DEF IInv, Wrote

LEMMA SpawnKeeps ==
  ASSUME IInv, NEW h \in Harness, SpawnStep(h)
  PROVE  IInv'
<1> USE DEF Failed, Wrote
<1>1. ASSUME NEW form \in Form, NEW flaw \in Flaw, Check(h, [form |-> form, flaw |-> flaw])
      PROVE  IInv'
  <2> DEFINE q == [form |-> form, flaw |-> flaw]
  <2>0. /\ q \in [form : Form, flaw : Flaw]
        /\ request' = request \/ request' = [request EXCEPT ![h] = q]
        /\ phase' = [phase EXCEPT ![h] = "refused"] \/ phase' = [phase EXCEPT ![h] = "checked"]
        /\ UNCHANGED <<baselineVars, green, there, edits, act, injected>>
    BY <1>1 DEF Check
  <2> HIDE DEF q
  <2>1. /\ UNCHANGED <<baselineVars, green, there, edits, act, injected>>
        /\ phase' \in [Harness -> {"idle", "checked", "built", "recorded", "injected", "running"}
                                  \cup Failed]
        /\ \A k \in Harness : phase'[k] \in Wrote \cup {"built"} => phase'[k] = phase[k]
        /\ request' \in [Harness -> [form : Form, flaw : Flaw]]
    BY <2>0 DEF IInv, SpawnTypeOK
  <2> QED
    BY <2>1 DEF IInv, SpawnTypeOK, IsAct, Sound, baselineVars
<1>2. ASSUME BuildsAct(h) PROVE IInv'
  <2>1. /\ UNCHANGED <<listed, spec, clock, acta, green, there, edits, request, injected>>
        /\ phase' \in [Harness -> {"idle", "checked", "built", "recorded", "injected", "running"}
                                  \cup Failed]
    BY <1>2 DEF BuildsAct, baselineVars, IInv, SpawnTypeOK
  <2>2. ASSUME NEW k \in Harness
        PROVE  /\ act'[k] = act[k] \/ act'[k] = build_spawn_act
               /\ phase'[k] \in Wrote \cup {"built"} =>
                    \/ act'[k] = build_spawn_act
                    \/ phase[k] = phase'[k] /\ act'[k] = act[k]
    BY <1>2 DEF BuildsAct, IInv, SpawnTypeOK
  <2>3. SpawnTypeOK'
    <3>1. \A k \in Harness : IsAct(act'[k])
      BY <2>2, BuiltIsSound DEF IInv, SpawnTypeOK
    <3>2. \A a \in acta' \cup {act'[k] : k \in Harness} : IsAct(a)
      BY <2>1, <3>1 DEF IInv, SpawnTypeOK
    <3>3. act' \in [Harness -> {act'[k] : k \in Harness}]
      BY <1>2 DEF BuildsAct, IInv, SpawnTypeOK
    <3> QED
      BY <2>1, <3>2, <3>3 DEF IInv, SpawnTypeOK, IsAct
  <2>4. \A a \in acta' : Sound(a)'
    <3>1. \A a : Sound(a) => Sound(a)'
      BY <2>1 DEF Sound
    <3> QED
      BY <2>1, <3>1 DEF IInv
  <2>5. \A k \in Harness : phase'[k] \in Wrote \cup {"built"} => Sound(act[k])'
    BY <2>1, <2>2, BuiltIsSound DEF IInv, Sound
  <2> QED
    BY <2>1, <2>3, <2>4, <2>5 DEF IInv
<1>3. ASSUME WritesAct(h) PROVE IInv'
  <2>1. /\ UNCHANGED <<listed, spec, clock, green, there, edits, request, act, injected>>
        /\ phase' \in [Harness -> {"idle", "checked", "built", "recorded", "injected", "running"}
                                  \cup Failed]
        /\ \A k \in Harness : phase'[k] \in Wrote \cup {"built"} => phase[k] \in Wrote \cup {"built"}
        /\ phase[h] = "built"
    BY <1>3 DEF WritesAct, corpus, IInv, SpawnTypeOK
  <2>2. IsAct(act[h]) /\ Sound(act[h])
    BY <2>1 DEF IInv, SpawnTypeOK
  <2>3. \/ acta' = {a \in acta : a.id # act[h].id} \cup {act[h]}
        \/ acta' = {a \in acta : a.id # act[h].id}
    BY <1>3 DEF WritesAct, write_spawn_act, write_breaks_off
  <2>4. SpawnTypeOK'
    <3>1. \A a \in acta' : IsAct(a)
      BY <2>2, <2>3 DEF IInv, SpawnTypeOK
    <3> QED
      BY <2>1, <3>1 DEF IInv, SpawnTypeOK, IsAct
  <2>5. \A a \in acta' : Sound(a)
    BY <2>2, <2>3 DEF IInv
  <2>6. (\A a \in acta : Sound(a))'
    BY <2>1, <2>5 DEF Sound
  <2>7. \A k \in Harness : phase'[k] \in Wrote \cup {"built"} => Sound(act[k])'
    BY <2>1 DEF IInv, Sound
  <2>8. \A a, b \in acta' : a.id = b.id => a = b
    BY <2>3 DEF IInv
  <2> QED
    BY <2>4, <2>6, <2>7, <2>8 DEF IInv
<1>4. ASSUME Injects(h) PROVE IInv'
  <2>1. /\ UNCHANGED <<baselineVars, green, there, edits, request, act>>
        /\ phase' \in [Harness -> {"idle", "checked", "built", "recorded", "injected", "running"}
                                  \cup Failed]
        /\ \A k \in Harness : phase'[k] \in Wrote \cup {"built"} => phase[k] \in Wrote \cup {"built"}
        /\ injected' \in [Harness -> SUBSET Criterion]
    BY <1>4 DEF Injects, IInv, SpawnTypeOK
  <2> QED
    BY <2>1 DEF IInv, SpawnTypeOK, IsAct, Sound, baselineVars
<1>5. ASSUME Delivers(h) PROVE IInv'
  <2>1. /\ UNCHANGED <<baselineVars, green, there, edits, request, act, injected>>
        /\ phase' \in [Harness -> {"idle", "checked", "built", "recorded", "injected", "running"}
                                  \cup Failed]
        /\ \A k \in Harness : phase'[k] \in Wrote \cup {"built"} => phase[k] \in Wrote \cup {"built"}
    BY <1>5 DEF Delivers, IInv, SpawnTypeOK
  <2> QED
    BY <2>1 DEF IInv, SpawnTypeOK, IsAct, Sound, baselineVars
<1> QED
  BY <1>1, <1>2, <1>3, <1>4, <1>5 DEF SpawnStep

LEMMA IInvStep == IInv /\ [Next]_vars => IInv'
<1> SUFFICES ASSUME IInv, [Next]_vars PROVE IInv'
  OBVIOUS
<1>1. CASE UNCHANGED vars
  BY <1>1 DEF vars, baselineVars, spawnVars, IInv, SpawnTypeOK, IsAct, Sound
<1> QED
  BY <1>1, CorpusKeeps, SpawnKeeps DEF Next

-----------------------------------------------------------------------------
(* Type correctness of the spawn gate and its record.                      *)
THEOREM SpawnTyped == Spec => []SpawnTypeOK
<1>1. IInv => SpawnTypeOK
  BY DEF IInv
<1> QED
  BY IInvInit, IInvStep, <1>1, PTL DEF Spec

(* SPEC-0126: no revision by an agent is ever what its work is graded      *)
(* against, in any interleaving of spawns, revisions and ratifications.    *)
THEOREM RevisionsAreNotGraded == Spec => AgentRevisionNotGraded
<1>1. IInv /\ [Next]_vars =>
        [\A c \in Criterion :
           acta # {} /\ c \in Criteria /\ spec'[c] # spec[c] /\ ~spec'[c].floor
             => Graded(c)' # instance_of(c)']_baselineVars
  <2> SUFFICES ASSUME IInv, [Next]_vars, NEW c \in Criterion,
                      acta # {}, c \in Criteria, spec'[c] # spec[c], ~spec'[c].floor
               PROVE  Graded(c)' # instance_of(c)'
    OBVIOUS
  <2>1. PICK b \in Criterion, touch \in BOOLEAN : Revised(b, touch)
    <3>1. spec' # spec
      OBVIOUS
    <3> QED
      BY <3>1 DEF Next, CorpusMoves, SpawnStep, StoryRelists, AgentRevises, FloorTouches, ClockTicks,
                  Check, BuildsAct, WritesAct, Injects, Delivers, corpus, vars, baselineVars
  <2>2. acta' = acta
    BY <2>1 DEF Revised
  <2>3. spec \in [Criterion -> [version : Version, floor : BOOLEAN]]
    BY DEF IInv, SpawnTypeOK
  <2>4. spec'[c].version = spec[c].version + 1 /\ spec[c].version \in Nat
    BY <2>1, <2>3 DEF Revised, Version
  <2>5. Newest' = Newest
    BY <2>2 DEF Newest
  <2>6. Newest.pinned[c] <= spec[c].version /\ Newest.pinned[c] \in Nat
    BY NewestIsRecorded DEF IInv, Sound, Criteria, SpawnTypeOK, IsAct, Version
  <2> QED
    BY <2>4, <2>5, <2>6 DEF Graded, instance_of
<1> QED
  BY IInvInit, IInvStep, <1>1, PTL DEF Spec, AgentRevisionNotGraded

-----------------------------------------------------------------------------
(* Behind each recorded act is a spawn that was admitted and has written;  *)
(* one that is about to write was admitted.                                *)
WroteIt(a, h) ==
  act[h] = a /\ request[h].flaw = "none" /\ phase[h] \in Wrote

Admitted ==
  /\ \A h \in Harness : phase[h] \in {"checked", "built"} => request[h].flaw = "none"
  /\ \A a \in acta : \E h \in Harness : WroteIt(a, h)

LEMMA AdmittedInit == Init => Admitted
  BY DEF Init, BaselineInit, Admitted

(* A step of one spawn leaves the others' admissions alone. *)
LEMMA AdmittedStep == IInv /\ Admitted /\ [Next]_vars => Admitted'
<1> SUFFICES ASSUME IInv, Admitted, [Next]_vars PROVE Admitted'
  OBVIOUS
<1> USE DEF Wrote
<1>0. /\ act \in [Harness -> {act[h] : h \in Harness}]
      /\ phase \in [Harness -> {"idle", "checked", "built", "recorded", "injected", "running"}
                                \cup Failed]
      /\ request \in [Harness -> [form : Form, flaw : Flaw]]
  BY DEF IInv, SpawnTypeOK
<1>1. CASE UNCHANGED <<acta, phase, request, act>>
  BY <1>1 DEF Admitted, WroteIt
<1>2. ASSUME NEW h \in Harness, NEW q \in [form : Form, flaw : Flaw], Check(h, q)
      PROVE  Admitted'
  <2>1. acta' = acta /\ act' = act /\ phase[h] = "idle"
    BY <1>2 DEF Check, baselineVars
  <2>2. /\ phase'[h] = "checked" => request'[h].flaw = "none"
        /\ phase'[h] \in {"refused", "checked"}
        /\ \A k \in Harness \ {h} : phase'[k] = phase[k] /\ request'[k] = request[k]
    BY <1>0, <1>2 DEF Check, Refuses
  <2>3. \A a \in acta, k \in Harness : WroteIt(a, k) => k # h /\ WroteIt(a, k)'
    BY <2>1, <2>2 DEF WroteIt
  <2> QED
    BY <2>1, <2>2, <2>3 DEF Admitted
<1>3. ASSUME NEW h \in Harness, BuildsAct(h) PROVE Admitted'
  <2>1. acta' = acta /\ request' = request /\ phase[h] = "checked"
    BY <1>3 DEF BuildsAct, baselineVars
  <2>2. \A k \in Harness \ {h} : phase'[k] = phase[k] /\ act'[k] = act[k]
    BY <1>0, <1>3 DEF BuildsAct
  <2>3. \A a \in acta, k \in Harness : WroteIt(a, k) => k # h /\ WroteIt(a, k)'
    BY <2>1, <2>2 DEF WroteIt
  <2> QED
    BY <2>1, <2>2, <2>3 DEF Admitted
<1>4. ASSUME NEW h \in Harness, WritesAct(h) PROVE Admitted'
  <2>1. /\ act' = act /\ request' = request /\ phase[h] = "built"
        /\ acta' \subseteq acta \cup {act[h]}
    BY <1>4 DEF WritesAct, write_spawn_act, write_breaks_off
  <2>2. /\ phase'[h] \in {"recorded", "unrecorded"}
        /\ \A k \in Harness \ {h} : phase'[k] = phase[k]
    BY <1>0, <1>4 DEF WritesAct
  <2>3. \A a \in acta, k \in Harness : WroteIt(a, k) => WroteIt(a, k)'
    BY <2>1, <2>2 DEF WroteIt
  <2>4. WroteIt(act[h], h)'
    BY <2>1, <2>2 DEF WroteIt, Admitted
  <2> QED
    BY <2>1, <2>2, <2>3, <2>4 DEF Admitted
<1>5. ASSUME NEW h \in Harness, Injects(h) \/ Delivers(h) PROVE Admitted'
  <2>1. /\ acta' = acta /\ act' = act /\ request' = request
        /\ phase[h] \in {"recorded", "injected"}
    BY <1>5 DEF Injects, Delivers, baselineVars
  <2>2. /\ phase'[h] \in {"injected", "untold", "running", "undelivered"}
        /\ \A k \in Harness \ {h} : phase'[k] = phase[k]
    BY <1>0, <1>5 DEF Injects, Delivers
  <2> QED
    BY <2>1, <2>2 DEF Admitted, WroteIt
<1>6. CASE CorpusMoves
  <2>1. UNCHANGED <<acta, phase, request, act>>
    BY <1>6 DEF CorpusMoves, StoryRelists, AgentRevises, FloorTouches, Revised, ClockTicks,
                baselineVars, spawnVars
  <2> QED
    BY <1>1, <2>1
<1>7. CASE UNCHANGED vars
  BY <1>1, <1>7 DEF vars, baselineVars, spawnVars
<1>8. ASSUME NEW h \in Harness, SpawnStep(h) PROVE Admitted'
  <2>1. \A form \in Form, flaw \in Flaw :
          [form |-> form, flaw |-> flaw] \in [form : Form, flaw : Flaw]
    OBVIOUS
  <2> QED
    BY <1>2, <1>3, <1>4, <1>5, <1>8, <2>1 DEF SpawnStep
<1> QED
  BY <1>6, <1>7, <1>8 DEF Next

(* Only a spawn that was admitted is ever on record, with instances its    *)
(* criteria really had, however the corpus moves meanwhile.                *)
THEOREM OnlyAdmittedAreRecorded == Spec => []ActsAreOfAdmitted
<1>1. IInv /\ Admitted => ActsAreOfAdmitted
  BY DEF IInv, Sound, Admitted, WroteIt, ActsAreOfAdmitted
<1> QED
  BY IInvInit, IInvStep, AdmittedInit, AdmittedStep, <1>1, PTL DEF Spec

-----------------------------------------------------------------------------
(* A spawn that wrote its act finds it on record, or another wrote since.  *)
Kept ==
  \A h \in Harness : phase[h] \in Wrote \ {"unrecorded"} => act[h] \in acta \/ WrittenOver(h)

LEMMA KeptInit == Init => Kept
  BY DEF Init, Kept, Wrote

(* Nothing but a spawn's own first steps changes its act, and who wrote    *)
(* has written.                                                            *)
LEMMA WrittenOverStays ==
  ASSUME IInv, NEW h \in Harness, WrittenOver(h), act'[h] = act[h],
         \A k \in Harness : phase[k] \in Wrote => phase'[k] \in Wrote /\ act'[k] = act[k]
  PROVE  WrittenOver(h)'
  BY DEF WrittenOver

LEMMA KeptStep == IInv /\ Kept /\ [Next]_vars => Kept'
<1> SUFFICES ASSUME IInv, Kept, [Next]_vars, NEW h \in Harness, phase'[h] \in Wrote \ {"unrecorded"}
             PROVE  act'[h] \in acta' \/ WrittenOver(h)'
  BY DEF Kept
<1> USE DEF Wrote
<1>0. /\ act \in [Harness -> {act[k] : k \in Harness}]
      /\ phase \in [Harness -> {"idle", "checked", "built", "recorded", "injected", "running"}
                                \cup Failed]
  BY DEF IInv, SpawnTypeOK
<1>1. \A k \in Harness : phase[k] \in Wrote => phase'[k] \in Wrote /\ act'[k] = act[k]
  BY <1>0 DEF Next, CorpusMoves, SpawnStep, StoryRelists, AgentRevises, FloorTouches, Revised,
     ClockTicks, Check, BuildsAct, WritesAct, Injects, Delivers, vars, baselineVars, spawnVars
<1>2. ASSUME NEW k \in Harness, WritesAct(k)
      PROVE  act'[h] \in acta' \/ WrittenOver(h)'
  <2>1. /\ phase[k] = "built" /\ act' = act
        /\ \/ write_spawn_act(act[k]) /\ phase' = [phase EXCEPT ![k] = "recorded"]
           \/ write_breaks_off(act[k]) /\ phase' = [phase EXCEPT ![k] = "unrecorded"]
    BY <1>2 DEF WritesAct
  <2>2. phase'[k] \in {"recorded", "unrecorded"} /\ (h # k => phase'[h] = phase[h])
    BY <1>0, <2>1
  <2>3. CASE h = k
    BY <1>0, <2>1, <2>3 DEF write_spawn_act
  <2>4. CASE h # k
    <3>1. act[h] \in acta \/ WrittenOver(h)
      BY <2>2, <2>4 DEF Kept
    <3>2. CASE WrittenOver(h)
      BY <1>1, <2>1, <3>2, WrittenOverStays
    <3>3. CASE act[h] \in acta /\ act[h].id # act[k].id
      BY <2>1, <3>3 DEF write_spawn_act, write_breaks_off
    <3>4. CASE act[h].id = act[k].id
      <4>1. Sound(act[h]) /\ Sound(act[k])
        BY <2>1, <2>2, <2>4 DEF IInv
      <4>2. act[k].at \div TicksPerSecond = act[h].at \div TicksPerSecond
        BY <3>4, <4>1 DEF Sound
      <4> QED
        BY <2>1, <2>2, <2>4, <4>2 DEF WrittenOver
    <3> QED
      BY <3>1, <3>2, <3>3, <3>4
  <2> QED
    BY <2>3, <2>4
<1>3. CASE \A k \in Harness : ~WritesAct(k)
  <2>1. acta' = acta /\ phase[h] \in Wrote \ {"unrecorded"}
    <3>1. CASE UNCHANGED <<acta, phase>>
      BY <3>1
    <3>2. ASSUME NEW k \in Harness, SpawnStep(k)
          PROVE  acta' = acta /\ phase[h] \in Wrote \ {"unrecorded"}
      <4>1. acta' = acta /\ \E v \in {"checked", "built", "refused", "injected", "untold", "running", "undelivered"} :
              /\ phase' = [phase EXCEPT ![k] = v]
              /\ v \in {"injected", "untold"} => phase[k] = "recorded"
              /\ v \in {"running", "undelivered"} => phase[k] = "injected"
        BY <1>3, <3>2 DEF SpawnStep, Check, BuildsAct, Injects, Delivers, baselineVars
      <4> QED
        BY <1>0, <4>1
    <3> QED
      BY <3>1, <3>2
      DEF Next, CorpusMoves, StoryRelists, AgentRevises, FloorTouches, Revised, ClockTicks, vars,
          baselineVars, spawnVars
  <2>2. act'[h] = act[h]
    BY <1>1, <2>1
  <2> QED
    BY <1>1, <2>1, <2>2, WrittenOverStays DEF Kept
<1> QED
  BY <1>2, <1>3

(* SPEC-0126: whatever is dropped or revised while a citizen works, and    *)
(* whichever spawns write or die writing beside it, its work is not green  *)
(* without what it was spawned on, but by a later act or by one of the     *)
(* same second.                                                            *)
THEOREM RunningIsHeldToItsAct == Spec => []NoneIsLetOff
<1>1. IInv /\ Kept => NoneIsLetOff
  <2> SUFFICES ASSUME IInv, Kept, NEW h \in Harness, phase[h] = "running", ~WrittenOver(h),
                      NEW E \in SUBSET Criterion, Satisfied(E), ~(Newest.at > act[h].at)
               PROVE  DOMAIN act[h].pinned \subseteq E
    BY DEF NoneIsLetOff
  <2>1. act[h] \in acta
    BY DEF Kept, Wrote
  <2>2. Newest \in acta /\ act[h].at <= Newest.at
    BY <2>1, NewestIsRecorded
  <2>3. Newest.at \in Nat /\ act[h].at \in Nat
    BY <2>1, <2>2 DEF IInv, SpawnTypeOK, IsAct
  <2>4. Newest.at = act[h].at
    BY <2>2, <2>3
  <2>5. Newest.id = act[h].id
    BY <2>1, <2>2, <2>4 DEF IInv, Sound
  <2>6. Newest = act[h]
    BY <2>1, <2>2, <2>5 DEF IInv
  <2> QED
    BY <2>6 DEF Satisfied, Criteria
<1> QED
  BY IInvInit, IInvStep, KeptInit, KeptStep, <1>1, PTL DEF Spec
=============================================================================
