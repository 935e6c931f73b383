----------------------------- MODULE ActaProofs -----------------------------
(***************************************************************************)
(* Theorems of the controls that share the Acta, for every corpus, tree,   *)
(* settings and bound.  They have one argument: what a run has read was    *)
(* there when it read it, and what was on file before a moment that has    *)
(* passed never changes, whoever writes since.                             *)
(***************************************************************************)
EXTENDS HumanEvidence, Enforcement, PinCheck, IngestLint, WellFoundedInduction, TLAPS

EvidenceOK == now \in Nat /\ \A r \in written : r.at \in Nat /\ r.at < now

(* A step that files nothing, or a record of this moment. *)
Files(r) == r.at = now /\ written' = written \cup {r} /\ now' = now + 1
FilesNothing == written' = written /\ now' \in {now, now + 1}

LEMMA EvidenceStarts == EvidenceInit => EvidenceOK
  BY DEF EvidenceInit, EvidenceOK

LEMMA SavesFiles ==
  ASSUME NEW control, NEW of, NEW ok, NEW body, Save(Record(control, of, ok, body))
  PROVE  Files(Record(control, of, ok, body))
  BY DEF Save, Record, Files

LEMMA EvidenceKeeps ==
  ASSUME EvidenceOK, FilesNothing \/ \E r : Files(r)
  PROVE  EvidenceOK' /\ now <= now'
  BY DEF EvidenceOK, FilesNothing, Files

(* What was on file before a moment stays what it was. *)
LEMMA BeforeStays ==
  ASSUME EvidenceOK, FilesNothing \/ \E r : Files(r), NEW t \in Nat, t <= now
  PROVE  OnFileBefore(t)' = OnFileBefore(t)
<1>1. CASE FilesNothing
  BY <1>1 DEF FilesNothing, OnFileBefore, File
<1>2. CASE \E r : Files(r)
  <2>1. PICK r : Files(r)
    BY <1>2
  <2>2. ~(r.at < t)
    BY <2>1 DEF Files, EvidenceOK
  <2>3. \A s : s \in written' /\ s.at < t <=> s \in written /\ s.at < t
    BY <2>1, <2>2 DEF Files
  <2> QED
    BY <2>3 DEF OnFileBefore, File
<1> QED
  BY <1>1, <1>2

-----------------------------------------------------------------------------
(* The pin check.                                                          *)
Pin == [version : Version, binary : Binary] \cup {Unavailable}

OneBehind(t, version) ==
  \E b \in Binary : \A r \in SuiteRowsBefore(t) :
    r.body.pin = [version |-> version, binary |-> b]

Looked(t, version) == t \in Nat /\ t <= now /\ OneBehind(t, version)

PinOK ==
  /\ EvidenceOK
  /\ declared \in Version \cup {Nothing}
  /\ image \in [version : Version, binary : Binary]
  /\ suite = Resting \/ \E p \in Pin : suite = [at |-> "emit", pin |-> p]
  /\ \A r \in written : r.control = "ctrl0005" => r.body.pin \in Pin
  /\ checking.at = "emit" /\ checking.ok => Looked(checking.looked, checking.against)
  /\ \A p \in written : p.control = "ctrl0011" /\ Passed(p) => Looked(p.body.looked, p.body.against)

LEMMA LookedStays ==
  ASSUME EvidenceOK, FilesNothing \/ \E r : Files(r), NEW CONSTANT t, NEW CONSTANT v, Looked(t, v)
  PROVE  Looked(t, v)'
<1>1. t \in Nat /\ t <= now /\ OneBehind(t, v)
  BY DEF Looked
<1>2. SuiteRowsBefore(t)' = SuiteRowsBefore(t)
  BY <1>1, BeforeStays DEF SuiteRowsBefore
<1>3. t <= now'
  BY <1>1, EvidenceKeeps DEF EvidenceOK
<1> QED
  BY <1>1, <1>2, <1>3 DEF Looked, OneBehind

(* The verdict, read off the rows: they agree on one pin. *)
LEMMA AgreeingRows ==
  ASSUME PinOK, Agree(rows_with_pin)
  PROVE  Looked(now, declared)
<1> DEFINE rows == SuiteRowsBefore(now)
<1>1. rows_with_pin = {r.body.pin : r \in rows}
  BY DEF rows_with_pin, SuiteRowsBefore, OnFile
<1>2. \A r \in rows : r.body.pin \in Pin /\ r.body.pin \in rows_with_pin
  BY <1>1 DEF PinOK, SuiteRowsBefore, OnFileBefore
<1> HIDE DEF rows
<1>3. \A r \in rows : /\ r.body.pin.binary # Nothing
                      /\ r.body.pin.version \in {Nothing, declared}
                      /\ r.body.pin \in [version : Version, binary : Binary]
  BY <1>2, PinAssumption DEF Agree, Pin, Unavailable
<1>4. \A r \in rows : r.body.pin.version = declared
  BY <1>3, PinAssumption
<1>5. PICK r \in rows : TRUE
  BY <1>1 DEF Agree
<1>6. \A s \in rows : s.body.pin.binary = r.body.pin.binary
  <2> SUFFICES ASSUME NEW s \in rows PROVE s.body.pin.binary = r.body.pin.binary
    OBVIOUS
  <2>1. /\ s.body.pin \in rows_with_pin /\ r.body.pin \in rows_with_pin
        /\ Nothing \notin {s.body.pin.binary, r.body.pin.binary}
        /\ s.body.pin.version = r.body.pin.version
    BY <1>2, <1>3, <1>4, <1>5
  <2> QED
    BY <2>1 DEF Agree, OneBinaryEach
<1>7. \A s \in rows : s.body.pin = [version |-> declared, binary |-> r.body.pin.binary]
  BY <1>3, <1>4, <1>6
<1>8. r.body.pin.binary \in Binary
  BY <1>3, <1>5
<1>9. OneBehind(now, declared)
  BY <1>7, <1>8 DEF OneBehind, rows
<1> QED
  BY <1>9 DEF Looked, PinOK, EvidenceOK

LEMMA PinStarts == PinInit => PinOK
  BY EvidenceStarts DEF PinInit, PinOK, EvidenceInit, Resting

(* A step that files a record of the pin check or of the suite, or none.   *)
LEMMA PinRecordsKeep ==
  ASSUME PinOK,
         \/ FilesNothing
         \/ \E r : /\ Files(r)
                   /\ r.control = "ctrl0005" => r.body.pin \in Pin
                   /\ r.control = "ctrl0011" /\ Passed(r) => Looked(r.body.looked, r.body.against)
  PROVE  /\ EvidenceOK'
         /\ \A r \in written' : r.control = "ctrl0005" => r.body.pin \in Pin
         /\ \A p \in written' : p.control = "ctrl0011" /\ Passed(p)
                                  => Looked(p.body.looked, p.body.against)'
<1>1. EvidenceOK /\ (FilesNothing \/ \E r : Files(r))
  BY DEF PinOK
<1>2. EvidenceOK'
  BY <1>1, EvidenceKeeps
<1>3. \A r \in written' : r.control = "ctrl0005" => r.body.pin \in Pin
  BY DEF PinOK, FilesNothing, Files
<1>4. ASSUME NEW p \in written', p.control = "ctrl0011", Passed(p)
      PROVE  Looked(p.body.looked, p.body.against)'
  <2>1. Looked(p.body.looked, p.body.against)
    BY <1>4 DEF PinOK, FilesNothing, Files
  <2>2. PICK t, v : t = p.body.looked /\ v = p.body.against
    OBVIOUS
  <2>3. Looked(t, v)
    BY <2>1, <2>2
  <2>4. Looked(t, v)'
    BY <1>1, <2>3, LookedStays
  <2> QED
    BY <2>2, <2>4 DEF Looked, OneBehind
<1> QED
  BY <1>2, <1>3, <1>4

(* A conclusion that is still to be recorded holds of the rows it was      *)
(* drawn from, whatever is filed before it is.                             *)
LEMMA ConclusionStays ==
  ASSUME PinOK, FilesNothing \/ \E r : Files(r), checking' = checking, checking.at = "emit", checking.ok
  PROVE  Looked(checking.looked, checking.against)'
<1>1. Looked(checking.looked, checking.against) /\ EvidenceOK
  BY DEF PinOK
<1>2. PICK t, v : t = checking.looked /\ v = checking.against
  OBVIOUS
<1>3. Looked(t, v)
  BY <1>1, <1>2
<1>4. Looked(t, v)'
  BY <1>1, <1>3, LookedStays
<1> QED
  BY <1>2, <1>4 DEF Looked, OneBehind

LEMMA PinKeeps == PinOK /\ [PinNext]_<<evidenceVars, pinVars>> => PinOK'
<1> SUFFICES ASSUME PinOK, [PinNext]_<<evidenceVars, pinVars>> PROVE PinOK'
  OBVIOUS
<1>0. now \in Nat
  BY DEF PinOK, EvidenceOK
<1>1. CASE /\ evidenceVars' = evidenceVars /\ UNCHANGED checking
           /\ declared' \in Version \cup {Nothing}
           /\ image' \in [version : Version, binary : Binary]
           /\ suite' = Resting \/ \E p \in Pin : suite' = [at |-> "emit", pin |-> p]
  <2>1. FilesNothing
    BY <1>1 DEF FilesNothing, evidenceVars
  <2> QED
    BY <1>1, <2>1, PinRecordsKeep, ConclusionStays DEF PinOK
<1>2. ASSUME NEW v \in Version \cup {Nothing}, Declares(v) PROVE PinOK'
  BY <1>1, <1>2 DEF Declares, PinOK
<1>3. ASSUME NEW b \in Binary, BuildsImage(b) PROVE PinOK'
  BY <1>1, <1>3 DEF BuildsImage, PinOK
<1>4. CASE SuiteReads
  <2>1. image \in Pin /\ Unavailable \in Pin
    BY DEF PinOK, Pin
  <2> QED
    BY <1>1, <1>4, <2>1 DEF SuiteReads, PinOK
<1>5. CASE SuiteEmits
  <2> DEFINE r == Record("ctrl0005", 1, TRUE, [pin |-> suite.pin])
  <2>1. Files(r) /\ suite' = Resting /\ UNCHANGED <<declared, image, checking>>
    BY <1>5, SavesFiles DEF SuiteEmits
  <2>2. r.control = "ctrl0005" /\ r.body.pin \in Pin
    BY <1>5 DEF SuiteEmits, PinOK, Resting, Record
  <2> HIDE DEF r
  <2> QED
    BY <2>1, <2>2, PinRecordsKeep, ConclusionStays DEF PinOK
<1>6. CASE Compares
  <2>1. FilesNothing /\ UNCHANGED <<declared, image, suite>>
    BY <1>6 DEF Compares, FilesNothing, evidenceVars
  <2>2. /\ checking'.ok = Agree(rows_with_pin)
        /\ checking'.looked = now /\ checking'.against = declared
    BY <1>6 DEF Compares
  <2>3. Agree(rows_with_pin) => Looked(now, declared)
    BY AgreeingRows
  <2>4. ASSUME Agree(rows_with_pin) PROVE Looked(checking.looked, checking.against)'
    <3>1. PICK t, v : t = now /\ v = declared
      OBVIOUS
    <3>2. Looked(t, v)
      BY <2>3, <2>4, <3>1
    <3>3. Looked(t, v)'
      BY <2>1, <3>2, LookedStays DEF PinOK
    <3> QED
      BY <2>2, <3>1, <3>3 DEF Looked, OneBehind
  <2> QED
    BY <2>1, <2>2, <2>4, PinRecordsKeep DEF PinOK
<1>7. CASE PinEmits
  <2> DEFINE body == [subject |-> declared, looked |-> IF checking.ok THEN checking.looked ELSE 0,
                      against |-> IF checking.ok THEN checking.against ELSE Nothing]
             r == Record("ctrl0011", "cli-pin", checking.ok, body)
  <2>1. Files(r) /\ checking' = Resting /\ UNCHANGED <<declared, image, suite>>
    BY <1>7, SavesFiles DEF PinEmits
  <2>2. r.control = "ctrl0011" /\ (Passed(r) => Looked(r.body.looked, r.body.against))
    BY <1>7 DEF PinEmits, PinOK, Record, Passed
  <2>3. checking'.at # "emit"
    BY <2>1 DEF Resting
  <2> HIDE DEF r
  <2> QED
    BY <2>1, <2>2, <2>3, PinRecordsKeep DEF PinOK
<1>8. CASE (TimePasses /\ UNCHANGED pinVars) \/ UNCHANGED <<evidenceVars, pinVars>>
  <2>1. FilesNothing /\ UNCHANGED pinVars
    BY <1>0, <1>8 DEF TimePasses, FilesNothing, evidenceVars, pinVars
  <2> QED
    BY <2>1, PinRecordsKeep, ConclusionStays DEF PinOK, pinVars
<1> QED
  BY <1>2, <1>3, <1>4, <1>5, <1>6, <1>7, <1>8 DEF PinNext

(* Behind a pass is one binary: however the declaration is edited and the  *)
(* image rebuilt while the suite and the check read and record.            *)
THEOREM OneBinaryBehindAPass == PinSpec => []PassPinsOneBinary
<1>1. PinOK => PassPinsOneBinary
  BY DEF PinOK, Looked, OneBehind, PassPinsOneBinary
<1> QED
  BY PinStarts, PinKeeps, <1>1, PTL DEF PinSpec

-----------------------------------------------------------------------------
(* The merge-enforcement probe.                                            *)
Run == [at : {"read"}, credential : Credential, began : Nat, asked : SUBSET Ruleset,
        found : SUBSET Ruleset, left : SUBSET Ruleset, unreadable : BOOLEAN, ok : BOOLEAN]

(* Since before a moment an actor has stood in the ruleset. *)
Stands(r, t) == r \in Open /\ since[r] < t

(* A run that was shown all it asked for misses no actor who stood there   *)
(* before it began; without a credential it is shown nothing.              *)
RunOK(p) ==
  /\ p.began <= now
  /\ p.ok => p.asked # {}
  /\ ~p.unreadable /\ p.credential = "none" => p.left = p.asked
  /\ ~p.unreadable => \A r \in Ruleset : Stands(r, p.began) => r \in p.left \cup p.found

CaptureOK(q) ==
  /\ q.body.began \in Nat /\ q.body.began <= now
  /\ \A r \in Ruleset : Stands(r, q.body.began) => r \in q.body.actors

ProbeOK ==
  /\ EvidenceOK
  /\ applied \subseteq Ruleset /\ bypass \subseteq Ruleset
  /\ since \in [Ruleset -> Nat]
  /\ probe = ProbeIdle \/ (probe \in Run /\ RunOK(probe))
  /\ \A q \in Captures(written) : CaptureOK(q)

(* As settings change and time passes, nobody comes to have stood there    *)
(* before a moment that has passed.                                        *)
LEMMA StandsBefore ==
  ASSUME ProbeOK, EnforcementNext \/ UNCHANGED <<evidenceVars, enforcementVars>>,
         NEW r \in Ruleset, NEW t \in Nat, t <= now, Stands(r, t)'
  PROVE  Stands(r, t)
<1>1. CASE UNCHANGED <<applied, bypass, since>>
  BY <1>1 DEF Stands, Open
<1>2. ASSUME NEW s \in Ruleset, SettingsChange(s) PROVE Stands(r, t)
  <2>1. CASE r = s
    BY <1>2, <2>1 DEF SettingsChange, Stands, Open, ProbeOK, EvidenceOK
  <2>2. CASE r # s
    BY <1>2, <2>2 DEF SettingsChange, Stands, Open, ProbeOK
  <2> QED
    BY <2>1, <2>2
<1> QED
  BY <1>1, <1>2 DEF EnforcementNext, Probes, ReadsRuleset, Concludes, TimePasses,
                    enforcementVars

LEMMA ProbeStarts == EnforcementInit => ProbeOK
<1> SUFFICES ASSUME EnforcementInit PROVE ProbeOK
  OBVIOUS
<1>1. Captures(written) = {}
  BY DEF EnforcementInit, EvidenceInit, Captures
<1> QED
  BY <1>1, EvidenceStarts DEF EnforcementInit, ProbeOK

(* A step that files a record keeps what is known of the captures, if the  *)
(* record is a capture of which it is known, or none.                      *)
LEMMA CapturesKeep ==
  ASSUME ProbeOK, EnforcementNext \/ UNCHANGED <<evidenceVars, enforcementVars>>,
         \/ FilesNothing
         \/ \E r : Files(r) /\ (r \in Captures({r}) => CaptureOK(r))
  PROVE  EvidenceOK' /\ now <= now' /\ \A q \in Captures(written)' : CaptureOK(q)'
<1>1. EvidenceOK' /\ now <= now'
  BY EvidenceKeeps DEF ProbeOK
<1>2. ASSUME NEW q \in Captures(written)' PROVE CaptureOK(q)'
  <2>1. CaptureOK(q)
    BY <1>2 DEF ProbeOK, Captures, FilesNothing, Files
  <2>2. /\ q.body.began \in Nat /\ q.body.began <= now /\ q.body.began <= now'
    BY <1>1, <2>1 DEF CaptureOK, ProbeOK, EvidenceOK
  <2>3. ASSUME NEW r \in Ruleset, Stands(r, q.body.began)'
        PROVE  r \in q.body.actors
    <3>1. PICK t \in Nat : t = q.body.began
      BY <2>2
    <3>2. Stands(r, t)'
      BY <2>3, <3>1 DEF Stands, Open
    <3>3. Stands(r, t)
      BY <2>2, <3>1, <3>2, StandsBefore
    <3> QED
      BY <2>1, <3>1, <3>3 DEF CaptureOK
  <2> QED
    BY <2>2, <2>3 DEF CaptureOK
<1> QED
  BY <1>1, <1>2

(* A run that has not moved knows what it knew. *)
LEMMA RunStays ==
  ASSUME ProbeOK, EnforcementNext \/ UNCHANGED <<evidenceVars, enforcementVars>>,
         probe' = probe, probe # ProbeIdle, now <= now', now' \in Nat
  PROVE  RunOK(probe)'
<1>1. RunOK(probe) /\ probe.began \in Nat /\ now \in Nat
  BY DEF ProbeOK, Run, EvidenceOK
<1>2. probe.began <= now
  BY <1>1 DEF RunOK
<1>3. ASSUME NEW r \in Ruleset, Stands(r, probe.began)'
      PROVE  Stands(r, probe.began)
  <2>1. PICK t \in Nat : t = probe.began
    BY <1>1
  <2>2. Stands(r, t)'
    BY <1>3, <2>1 DEF Stands, Open
  <2> QED
    BY <1>2, <2>1, <2>2, StandsBefore
<1>4. probe.began <= now'
  BY <1>1, <1>2
<1> QED
  BY <1>1, <1>3, <1>4 DEF RunOK

LEMMA ChangeKeeps ==
  ASSUME ProbeOK, NEW s \in Ruleset, SettingsChange(s)
  PROVE  ProbeOK'
<1>1. EnforcementNext
  BY DEF EnforcementNext
<1>2. FilesNothing /\ probe' = probe
  BY DEF SettingsChange, FilesNothing, evidenceVars
<1>3. EvidenceOK' /\ now <= now' /\ \A q \in Captures(written)' : CaptureOK(q)'
  BY <1>1, <1>2, CapturesKeep
<1>4. applied' \subseteq Ruleset /\ bypass' \subseteq Ruleset /\ since' \in [Ruleset -> Nat]
  BY DEF SettingsChange, ProbeOK, EvidenceOK
<1>5. probe # ProbeIdle => RunOK(probe)'
  BY <1>1, <1>2, <1>3, RunStays DEF EvidenceOK
<1> QED
  BY <1>2, <1>3, <1>4, <1>5 DEF ProbeOK

LEMMA ProbesKeep ==
  ASSUME ProbeOK, NEW c \in Credential, Probes(c)
  PROVE  ProbeOK'
<1>1. EnforcementNext
  BY DEF EnforcementNext
<1>2. FilesNothing /\ UNCHANGED <<applied, bypass, since>> /\ now \in Nat
  BY DEF Probes, FilesNothing, evidenceVars, ProbeOK, EvidenceOK
<1>3. EvidenceOK' /\ now <= now' /\ \A q \in Captures(written)' : CaptureOK(q)'
  BY <1>1, <1>2, CapturesKeep
<1>4. PICK ok \in BOOLEAN, answered \in BOOLEAN :
        /\ ok => answered
        /\ ok => applied # {}
        /\ probe' = [at |-> "read", credential |-> c, began |-> now,
                     asked |-> applied, found |-> {},
                     left |-> IF answered THEN applied ELSE {}, unreadable |-> ~answered, ok |-> ok]
  <2>1. PICK ok \in {applied # {}, FALSE}, answered \in BOOLEAN :
        /\ ok => answered
        /\ probe' = [at |-> "read", credential |-> c, began |-> now,
                     asked |-> applied, found |-> {},
                     left |-> IF answered THEN applied ELSE {}, unreadable |-> ~answered, ok |-> ok]
    BY DEF Probes
  <2>2. ok \in BOOLEAN /\ (ok => applied # {})
    OBVIOUS
  <2> QED
    BY <2>1, <2>2
<1>5. probe' \in Run
  BY <1>2, <1>4 DEF Run, ProbeOK
<1>6. \A r \in Ruleset : Stands(r, probe.began)' => r \in applied
  BY <1>2 DEF Stands, Open
<1>7. RunOK(probe)'
  BY <1>2, <1>3, <1>4, <1>6 DEF RunOK, EvidenceOK, FilesNothing
<1> QED
  BY <1>2, <1>3, <1>5, <1>7 DEF ProbeOK

LEMMA ReadKeeps ==
  ASSUME ProbeOK, NEW s \in Ruleset, ReadsRuleset(s)
  PROVE  ProbeOK'
<1>1. EnforcementNext
  BY DEF EnforcementNext
<1>2. FilesNothing /\ UNCHANGED <<applied, bypass, since>> /\ now' = now
  BY DEF ReadsRuleset, FilesNothing, evidenceVars
<1>3. EvidenceOK' /\ now <= now' /\ \A q \in Captures(written)' : CaptureOK(q)'
  BY <1>1, <1>2, CapturesKeep
<1>4. probe \in Run /\ RunOK(probe) /\ s \in probe.left
  BY DEF ReadsRuleset, ProbeOK, ProbeIdle
<1>5. CASE /\ probe.credential = "administrator"
           /\ probe' = [probe EXCEPT !.left = @ \ {s}, !.found = @ \cup ({s} \cap bypass)]
  <2>1. /\ probe' \in Run
        /\ probe'.credential = "administrator" /\ probe'.unreadable = probe.unreadable
        /\ probe'.began = probe.began /\ probe'.ok = probe.ok /\ probe'.asked = probe.asked
        /\ probe'.left = probe.left \ {s} /\ probe'.found = probe.found \cup ({s} \cap bypass)
    BY <1>4, <1>5 DEF Run
  <2>2. \A r \in Ruleset : Stands(r, probe.began)' =>
          Stands(r, probe.began) /\ r \in bypass
    BY <1>2, <2>1 DEF Stands, Open
  <2>3. RunOK(probe)'
    BY <1>2, <1>4, <2>1, <2>2 DEF RunOK
  <2> QED
    BY <1>2, <1>3, <2>1, <2>3 DEF ProbeOK
<1>6. CASE probe' = [probe EXCEPT !.left = @ \ {s}, !.unreadable = TRUE]
  <2>1. /\ probe' \in Run /\ probe'.unreadable
        /\ probe'.began = probe.began /\ probe'.ok = probe.ok /\ probe'.asked = probe.asked
    BY <1>4, <1>6 DEF Run
  <2>2. RunOK(probe)'
    BY <1>2, <1>4, <2>1 DEF RunOK
  <2> QED
    BY <1>2, <1>3, <2>1, <2>2 DEF ProbeOK
<1> QED
  BY <1>5, <1>6 DEF ReadsRuleset

(* A conclusion is filed as a capture when its own run was shown all. *)
LEMMA ConcludesFiles ==
  ASSUME ProbeOK, Concludes
  PROVE  \E r : /\ Files(r) /\ (r \in Captures({r}) => CaptureOK(r))
                /\ Recorded = {r}
                /\ Passed(r) <=> probe.ok /\ ScopeIsEmpty(Captures(OnFile))
                /\ r.body = IF ~probe.unreadable /\ probe.credential # "none"
                              THEN [capture |-> TRUE, actors |-> probe.found, began |-> probe.began]
                              ELSE [capture |-> FALSE]
<1> DEFINE passes == probe.ok /\ ScopeIsEmpty(Captures(OnFile))
           body == IF ~probe.unreadable /\ probe.credential # "none"
                     THEN [capture |-> TRUE, actors |-> probe.found, began |-> probe.began]
                     ELSE [capture |-> FALSE]
           r == Record("ctrl0009", "main", passes, body)
<1>1. Files(r)
  BY SavesFiles DEF Concludes
<1>2. r.control = "ctrl0009" /\ r.body = body /\ r.at = now /\ (Passed(r) <=> passes)
  BY DEF Record, Passed
<1>3. r \notin written
  BY <1>2 DEF ProbeOK, EvidenceOK
<1>4. probe \in Run /\ RunOK(probe) /\ probe.left = {}
  BY DEF Concludes, ProbeOK, ProbeIdle
<1>5. r \in Captures({r}) => CaptureOK(r)
  <2> SUFFICES ASSUME r.body.capture PROVE CaptureOK(r)
    BY DEF Captures
  <2>1. /\ ~probe.unreadable
        /\ r.body.actors = probe.found /\ r.body.began = probe.began
    BY <1>2
  <2> HIDE DEF r
  <2> QED
    BY <1>4, <2>1 DEF CaptureOK, RunOK, Run
<1> HIDE DEF r
<1>6. Recorded = {r}
  BY <1>1, <1>2, <1>3 DEF Recorded, Files
<1> QED
  BY <1>1, <1>2, <1>5, <1>6

LEMMA ProbeKeeps == ProbeOK /\ [EnforcementNext]_<<evidenceVars, enforcementVars>> => ProbeOK'
<1> SUFFICES ASSUME ProbeOK, [EnforcementNext]_<<evidenceVars, enforcementVars>> PROVE ProbeOK'
  OBVIOUS
<1>1. CASE Concludes
  <2>1. EnforcementNext
    BY <1>1 DEF EnforcementNext
  <2>2. EvidenceOK' /\ now <= now' /\ \A q \in Captures(written)' : CaptureOK(q)'
    BY <1>1, <2>1, ConcludesFiles, CapturesKeep
  <2> QED
    BY <1>1, <2>2 DEF Concludes, ProbeOK
<1>2. CASE (TimePasses /\ UNCHANGED enforcementVars) \/ UNCHANGED <<evidenceVars, enforcementVars>>
  <2>1. FilesNothing /\ UNCHANGED <<applied, bypass, since, probe>>
    BY <1>2 DEF TimePasses, FilesNothing, evidenceVars, enforcementVars
  <2>2. EnforcementNext \/ UNCHANGED <<evidenceVars, enforcementVars>>
    OBVIOUS
  <2>3. EvidenceOK' /\ now <= now' /\ \A q \in Captures(written)' : CaptureOK(q)'
    BY <2>1, <2>2, CapturesKeep
  <2>4. probe # ProbeIdle => RunOK(probe)'
    BY <2>1, <2>2, <2>3, RunStays DEF EvidenceOK
  <2> QED
    BY <2>1, <2>3, <2>4 DEF ProbeOK
<1> QED
  BY <1>1, <1>2, ChangeKeeps, ProbesKeep, ReadKeeps DEF EnforcementNext

(* Every nonempty set of records has a newest. *)
LEMMA NewestIsThere ==
  ASSUME NEW rs, rs # {}, NEW t \in Nat, \A r \in rs : r.at \in Nat /\ r.at < t
  PROVE  Newest(rs) # {}
<1> DEFINE Ages == {t - r.at : r \in rs}
<1>1. Ages \subseteq Nat /\ Ages # {}
  OBVIOUS
<1>2. PICK x \in Ages : \A y \in Ages : <<y, x>> \notin OpToRel(<, Nat)
  <2> HIDE DEF Ages
  <2> QED
    BY <1>1, NatLessThanWellFounded, WFMin
<1>3. \A y \in Ages : ~(y < x)
  <2> HIDE DEF Ages
  <2> QED
    BY <1>1, <1>2 DEF OpToRel
<1>4. PICK r \in rs : x = t - r.at
  BY <1>2
<1>5. ASSUME NEW s \in rs PROVE s.at <= r.at
  <2>1. ~(t - s.at < t - r.at)
    BY <1>3, <1>4
  <2> QED
    BY <2>1
<1> QED
  BY <1>4, <1>5 DEF Newest

LEMMA PassIsOfAnEmptyScope ==
  ASSUME ProbeOK, Concludes, NEW p \in Recorded, Passed(p)
  PROVE  \E q \in DecidedBy(p) : \A r \in Open : since[r] >= q.body.began
<1>1. /\ \A x \in Recorded : x = p
      /\ p.at = now
      /\ probe.ok /\ ScopeIsEmpty(Captures(OnFile))
      /\ p.body = IF ~probe.unreadable /\ probe.credential # "none"
                    THEN [capture |-> TRUE, actors |-> probe.found, began |-> probe.began]
                    ELSE [capture |-> FALSE]
  BY ConcludesFiles DEF Files
<1>2. probe \in Run /\ RunOK(probe) /\ probe.left = {}
  BY DEF Concludes, ProbeOK, ProbeIdle
<1>3. Open \subseteq Ruleset /\ \A r \in Ruleset : since[r] \in Nat
  BY DEF Open, ProbeOK
<1>4. CASE ~probe.unreadable
  <2>1. probe.credential # "none"
    BY <1>1, <1>2, <1>4 DEF RunOK
  <2>2. p.body.capture /\ p.body.began = probe.began
    BY <1>1, <1>4, <2>1
  <2>3. DecidedBy(p) = {p}
    BY <2>2 DEF DecidedBy
  <2>4. probe.found = {} /\ probe.began \in Nat
    BY <1>1, <1>2, <1>4 DEF ScopeIsEmpty, Run
  <2>5. \A r \in Ruleset : ~Stands(r, probe.began)
    BY <1>2, <1>4, <2>4 DEF RunOK
  <2> QED
    BY <1>3, <2>2, <2>3, <2>4, <2>5 DEF Stands
<1>5. CASE probe.unreadable
  <2> DEFINE captures == Captures(OnFile)
  <2>1. DecidedBy(p) = Newest(captures)
    BY <1>1, <1>5 DEF DecidedBy, OnFile
  <2>2. captures # {} /\ \A c \in Newest(captures) : c.body.actors = {}
    BY <1>1, <1>5 DEF ScopeIsEmpty, attests
  <2>3. captures \subseteq Captures(written) /\ \A c \in captures : c.at \in Nat /\ c.at < now
    BY DEF Captures, OnFile, OnFileBefore, ProbeOK, EvidenceOK
  <2>4. PICK q \in Newest(captures) : TRUE
    <3> HIDE DEF captures
    <3> QED
      BY <2>2, <2>3, NewestIsThere DEF ProbeOK, EvidenceOK
  <2>5. CaptureOK(q) /\ q.body.actors = {}
    BY <2>2, <2>3, <2>4 DEF Newest, ProbeOK
  <2>6. \A r \in Open : since[r] >= q.body.began
    BY <1>3, <2>5 DEF CaptureOK, Stands
  <2> QED
    BY <2>1, <2>4, <2>6
<1> QED
  BY <1>2, <1>4, <1>5 DEF Run

(* No run passes over an actor who has stood in a ruleset since before the *)
(* observation behind it was begun: however many rulesets there are, and   *)
(* whatever is changed between the requests for them.                      *)
THEOREM NoStandingBypassPasses == EnforcementSpec => StandingBypassIsRefused
<1>1. ProbeOK /\ [EnforcementNext]_<<evidenceVars, enforcementVars>> =>
        [\A p \in Recorded : Passed(p) =>
           \E q \in DecidedBy(p) : \A r \in Open : since[r] >= q.body.began]_<<evidenceVars, enforcementVars>>
  <2> SUFFICES ASSUME ProbeOK, EnforcementNext, NEW p \in Recorded, Passed(p)
               PROVE  \E q \in DecidedBy(p) : \A r \in Open : since[r] >= q.body.began
    OBVIOUS
  <2>1. Concludes
    BY DEF EnforcementNext, SettingsChange, Probes, ReadsRuleset, TimePasses, Recorded, evidenceVars
  <2> QED
    BY <2>1, PassIsOfAnEmptyScope
<1> QED
  BY ProbeStarts, ProbeKeeps, <1>1, PTL DEF EnforcementSpec, StandingBypassIsRefused

-----------------------------------------------------------------------------
(* The two readers of the corpus.                                          *)

(* What a verdict says of itself is so: a person passed or failed a claim  *)
(* of the very content it names that no control can run.                   *)
Attested(r) ==
  /\ r.body.content \in Content
  /\ r.of \in Human(r.body.content)
  /\ r.body.checker # Nobody

(* What was in its document all along, and every file there was, is held.  *)
Held(stood, began, rows) ==
  /\ began \in Nat /\ began <= now
  /\ \A p \in stood : Atom(p[1]) \in rows
  /\ {File(r) : r \in OnFileBefore(began)} \subseteq rows

Whole(e) == Held(e.body.stood, e.body.began, e.body.rows)

(* What the queries have yet to read again, or hold. *)
Querying ==
  /\ embedder = [x \in {"at", "left", "rows", "atoms", "began", "stood"} |-> embedder[x]]
  /\ embedder.stood \subseteq Standing(corpus)
  /\ \A p \in embedder.stood : p[2] \in embedder.left \/ Atom(p[1]) \in embedder.atoms
  /\ Held({}, embedder.began, embedder.atoms)

EmbedderOK ==
  \/ embedder = Idle
  \/ embedder.at = "build" /\ embedder = [x \in {"at", "left", "rows"} |-> embedder[x]]
  \/ embedder.at = "query" /\ Querying
  \/ embedder.at = "emit" /\ (embedder.ok => Held(embedder.stood, embedder.began, embedder.rows))

HumanOK ==
  /\ EvidenceOK
  /\ corpus \in Content
  /\ desk = Idle \/ (/\ desk.at = "emit" /\ desk.content \in Content
                     /\ desk.claim \in Human(desk.content) /\ desk.checker # Nobody)
  /\ EmbedderOK
  /\ \A r \in written : r.control = "human" => Attested(r)
  /\ \A e \in written : e.control = "embed" /\ Passed(e) => Whole(e)

LEMMA HumanStarts == HumanInit => HumanOK
  BY EvidenceStarts DEF HumanInit, HumanOK, EvidenceInit, EmbedderOK

LEMMA HeldStays ==
  ASSUME EvidenceOK, FilesNothing \/ \E r : Files(r),
         NEW CONSTANT stood, NEW CONSTANT began, NEW CONSTANT rows, Held(stood, began, rows)
  PROVE  Held(stood, began, rows)'
<1>1. OnFileBefore(began)' = OnFileBefore(began)
  BY BeforeStays DEF Held
<1>2. began <= now'
  BY EvidenceKeeps DEF EvidenceOK, Held
<1> QED
  BY <1>1, <1>2 DEF Held, File, Atom

LEMMA WholeStays ==
  ASSUME EvidenceOK, FilesNothing \/ \E r : Files(r), NEW CONSTANT e, Whole(e)
  PROVE  Whole(e)'
<1>1. Held(e.body.stood, e.body.began, e.body.rows)'
  BY HeldStays DEF Whole
<1> QED
  BY <1>1 DEF Whole

LEMMA HumanRecordsKeep ==
  ASSUME HumanOK,
         \/ FilesNothing
         \/ \E r : /\ Files(r)
                   /\ r.control = "human" => Attested(r)
                   /\ r.control = "embed" /\ Passed(r) => Whole(r)
  PROVE  /\ EvidenceOK'
         /\ \A r \in written' : r.control = "human" => Attested(r)
         /\ \A e \in written' : e.control = "embed" /\ Passed(e) => Whole(e)'
<1>1. EvidenceOK /\ (FilesNothing \/ \E r : Files(r))
  BY DEF HumanOK
<1>2. EvidenceOK'
  BY <1>1, EvidenceKeeps
<1>3. \A r \in written' : r.control = "human" => Attested(r)
  BY DEF HumanOK, FilesNothing, Files
<1>4. ASSUME NEW e \in written', e.control = "embed", Passed(e)
      PROVE  Whole(e)'
  <2>1. Whole(e)
    BY <1>4 DEF HumanOK, FilesNothing, Files
  <2>2. PICK x : x = e
    OBVIOUS
  <2>3. Whole(x)'
    BY <1>1, <2>1, <2>2, WholeStays
  <2> QED
    BY <2>2, <2>3 DEF Whole, Held, OnFileBefore, File, Atom
<1> QED
  BY <1>2, <1>3, <1>4

LEMMA HumanFiles ==
  ASSUME HumanOK, [HumanNext]_<<evidenceVars, humanVars>>
  PROVE  FilesNothing \/ \E r : Files(r)
<1>1. CASE Emits \/ EmbedEmits
  BY <1>1, SavesFiles DEF Emits, EmbedEmits
<1>2. CASE UNCHANGED evidenceVars \/ TimePasses
  BY <1>2 DEF TimePasses, FilesNothing, evidenceVars, HumanOK, EvidenceOK
<1> QED
  BY <1>1, <1>2 DEF HumanNext, Edits, Asked, Builds, Embeds, Queries, Rereads, Judges, BreaksOff

(* A document that is read again gives the claims that are in it now, and  *)
(* whatever stood all along is one of those.                               *)
LEMMA RereadsWhole ==
  ASSUME HumanOK, NEW d \in Document, Rereads(d)
  PROVE  Querying'
<1>1. embedder.at = "query" /\ Querying
  BY DEF Rereads, HumanOK, EmbedderOK, Idle
<1>2. /\ embedder' = [embedder EXCEPT !.left = @ \ {d}, !.atoms = @ \cup Claims(corpus, d)]
      /\ UNCHANGED <<evidenceVars, corpus>>
  BY DEF Rereads
<1>3. embedder = [x \in {"at", "left", "rows", "atoms", "began", "stood"} |-> embedder[x]]
  BY <1>1 DEF Querying
<1>4. /\ embedder' = [x \in {"at", "left", "rows", "atoms", "began", "stood"} |-> embedder'[x]]
      /\ embedder'.left = embedder.left \ {d}
      /\ embedder'.atoms = embedder.atoms \cup Claims(corpus, d)
      /\ embedder'.stood = embedder.stood /\ embedder'.began = embedder.began
  BY <1>2, <1>3
<1>5. ASSUME NEW p \in embedder.stood, p[2] = d PROVE Atom(p[1]) \in Claims(corpus, d)
  <2>1. PICK x \in DOMAIN Check[corpus] : p = <<x, Doc[corpus][x]>>
    BY <1>1, <1>5 DEF Querying, Standing
  <2> QED
    BY <1>5, <2>1 DEF Claims
<1>6. \A p \in embedder'.stood : p[2] \in embedder'.left \/ Atom(p[1]) \in embedder'.atoms
  BY <1>1, <1>4, <1>5 DEF Querying
<1>7. /\ embedder.began \in Nat /\ embedder.began <= now
      /\ {File(r) : r \in OnFileBefore(embedder.began)} \subseteq embedder.atoms
  BY <1>1 DEF Querying, Held
<1>8. OnFileBefore(embedder.began)' = OnFileBefore(embedder.began)
  BY <1>2, <1>4 DEF OnFileBefore, File, evidenceVars
<1>9. Held({}, embedder.began, embedder.atoms)'
  BY <1>2, <1>4, <1>7, <1>8 DEF Held, File, evidenceVars
<1>10. embedder'.stood \subseteq Standing(corpus')
  BY <1>1, <1>2, <1>4 DEF Querying
<1> QED
  BY <1>4, <1>6, <1>9, <1>10 DEF Querying, Standing, Atom

LEMMA EmbedderKeeps == HumanOK /\ [HumanNext]_<<evidenceVars, humanVars>> => EmbedderOK'
<1> SUFFICES ASSUME HumanOK, [HumanNext]_<<evidenceVars, humanVars>> PROVE EmbedderOK'
  OBVIOUS
<1> USE DEF Idle
<1>0. EvidenceOK /\ EmbedderOK /\ (FilesNothing \/ \E r : Files(r))
  BY HumanFiles DEF HumanOK
<1>1. PICK s : s = [stood |-> embedder.stood, began |-> embedder.began, rows |-> embedder.rows,
                    atoms |-> embedder.atoms, ok |-> embedder.ok]
  OBVIOUS
<1>2. Held(s.stood, s.began, s.rows) => Held(s.stood, s.began, s.rows)'
  BY <1>0, HeldStays
<1>3. Held({}, s.began, s.atoms) => Held({}, s.began, s.atoms)'
  BY <1>0, HeldStays
<1>4. /\ s.stood = embedder.stood /\ s.began = embedder.began /\ s.rows = embedder.rows
      /\ s.atoms = embedder.atoms
  BY <1>1
<1>5. CASE embedder' = Idle
  BY <1>5 DEF EmbedderOK
<1>6. CASE embedder' = embedder /\ corpus' = corpus
  <2>1. CASE embedder.at = "query"
    <3>1. Querying
      BY <1>0, <2>1 DEF EmbedderOK
    <3>2. Held({}, s.began, s.atoms)'
      BY <1>3, <1>4, <3>1 DEF Querying
    <3>3. Held({}, embedder.began, embedder.atoms)'
      BY <1>4, <1>6, <3>2 DEF Held, File, OnFileBefore
    <3> QED
      BY <1>6, <2>1, <3>1, <3>3 DEF EmbedderOK, Querying, Standing, Atom
  <2>2. CASE embedder.at = "emit"
    <3>1. embedder.ok => Held(s.stood, s.began, s.rows)'
      BY <1>0, <1>2, <1>4, <2>2 DEF EmbedderOK
    <3>2. embedder'.ok => Held(embedder.stood, embedder.began, embedder.rows)'
      BY <1>4, <1>6, <3>1 DEF Held, File, OnFileBefore, Atom
    <3> QED
      BY <1>6, <2>2, <3>2 DEF EmbedderOK
  <2> QED
    BY <1>0, <1>6, <2>1, <2>2 DEF EmbedderOK
<1>7. ASSUME NEW c \in Content, Edits(c) PROVE EmbedderOK'
  <2>1. CASE embedder.at # "query"
    <3>1. embedder' = embedder /\ EmbedderOK
      BY <1>0, <1>7, <2>1 DEF Edits
    <3>2. embedder.at = "emit" /\ embedder.ok => Held(embedder.stood, embedder.began, embedder.rows)'
      BY <1>2, <1>4, <2>1, <3>1 DEF EmbedderOK, Held, File, OnFileBefore, Atom
    <3> QED
      BY <2>1, <3>1, <3>2 DEF EmbedderOK
  <2>2. CASE embedder.at = "query"
    <3>1. Querying
      BY <1>0, <2>2 DEF EmbedderOK
    <3>2. embedder' = [embedder EXCEPT !.stood = @ \cap Standing(c)] /\ corpus' = c
      BY <1>7, <2>2 DEF Edits
    <3>3. embedder = [x \in {"at", "left", "rows", "atoms", "began", "stood"} |-> embedder[x]]
      BY <3>1 DEF Querying
    <3>4. /\ embedder' = [x \in {"at", "left", "rows", "atoms", "began", "stood"} |-> embedder'[x]]
          /\ embedder'.stood = embedder.stood \cap Standing(c)
          /\ embedder'.at = "query" /\ embedder'.left = embedder.left
          /\ embedder'.atoms = embedder.atoms /\ embedder'.began = embedder.began
      BY <2>2, <3>2, <3>3
    <3>5. Held({}, s.began, s.atoms)'
      BY <1>3, <1>4, <3>1 DEF Querying
    <3>6. Held({}, embedder.began, embedder.atoms)'
      BY <1>4, <3>4, <3>5 DEF Held, File, OnFileBefore
    <3>7. embedder'.stood \subseteq Standing(corpus')
      BY <3>2, <3>4
    <3>8. \A p \in embedder'.stood : p[2] \in embedder'.left \/ Atom(p[1]) \in embedder'.atoms
      BY <3>1, <3>4 DEF Querying
    <3>9. Querying'
      BY <3>4, <3>6, <3>7, <3>8 DEF Querying, Standing, Atom
    <3> QED
      BY <3>4, <3>9 DEF EmbedderOK
  <2> QED
    BY <2>1, <2>2
<1>8. CASE Builds
  BY <1>8 DEF Builds, EmbedderOK
<1>9. ASSUME NEW d \in Document, Embeds(d) PROVE EmbedderOK'
  <2>1. /\ embedder.at = "build" /\ embedder = [x \in {"at", "left", "rows"} |-> embedder[x]]
        /\ embedder' = [embedder EXCEPT !.left = @ \ {d}, !.rows = @ \cup Claims(corpus, d)]
    BY <1>0, <1>9 DEF Embeds, EmbedderOK
  <2>2. embedder'.at = "build" /\ embedder' = [x \in {"at", "left", "rows"} |-> embedder'[x]]
    BY <2>1
  <2> QED
    BY <2>2 DEF EmbedderOK
<1>10. CASE Queries
  <2>1. /\ embedder' = [at |-> "query", left |-> Document, rows |-> embedder.rows,
                        atoms |-> Records, began |-> now, stood |-> Standing(corpus)]
        /\ written' = written /\ now' = now /\ corpus' = corpus
    BY <1>10 DEF Queries, evidenceVars
  <2>2. embedder'.atoms = {File(r) : r \in OnFileBefore(now)}
    BY <2>1 DEF Records, OnFile
  <2>3. Held({}, embedder.began, embedder.atoms)'
    BY <1>0, <2>1, <2>2 DEF Held, OnFileBefore, File, EvidenceOK
  <2>4. \A p \in Standing(corpus) : p[2] \in Document
    <3>1. corpus \in Content /\ Doc[corpus] \in [DOMAIN Check[corpus] -> Document]
      BY HumanAssumption DEF HumanOK
    <3> QED
      BY <3>1 DEF Standing
  <2>5. embedder'.stood \subseteq Standing(corpus')
    BY <2>1
  <2>6. embedder' = [x \in {"at", "left", "rows", "atoms", "began", "stood"} |-> embedder'[x]]
    BY <2>1
  <2>7. Querying'
    BY <2>1, <2>3, <2>4, <2>5, <2>6 DEF Querying, Standing, Atom
  <2> QED
    BY <2>1, <2>7 DEF EmbedderOK
<1>11. ASSUME NEW d \in Document, Rereads(d) PROVE EmbedderOK'
  <2>1. Querying'
    BY <1>11, RereadsWhole
  <2>2. embedder'.at = "query"
    <3>1. embedder = [x \in {"at", "left", "rows", "atoms", "began", "stood"} |-> embedder[x]]
      BY <1>0, <1>11 DEF Rereads, EmbedderOK, Querying
    <3> QED
      BY <1>11, <3>1 DEF Rereads
  <2> QED
    BY <2>1, <2>2 DEF EmbedderOK
<1>12. CASE Judges
  <2>1. /\ embedder.at = "query" /\ embedder.left = {} /\ Querying
        /\ written' = written /\ now' = now
    BY <1>0, <1>12 DEF Judges, EmbedderOK, evidenceVars
  <2>2. /\ embedder'.at = "emit" /\ embedder'.rows = embedder.rows
        /\ embedder'.stood = embedder.stood /\ embedder'.began = embedder.began
        /\ embedder'.ok => embedder.atoms \subseteq embedder.rows
    BY <1>12 DEF Judges, coverage_gap
  <2>3. ASSUME embedder'.ok PROVE Held(embedder.stood, embedder.began, embedder.rows)'
    <3>1. /\ \A p \in embedder.stood : Atom(p[1]) \in embedder.rows
          /\ embedder.began \in Nat /\ embedder.began <= now
          /\ {File(r) : r \in OnFileBefore(embedder.began)} \subseteq embedder.rows
      BY <2>1, <2>2, <2>3 DEF Querying, Held
    <3> QED
      BY <2>1, <2>2, <3>1 DEF Held, OnFileBefore, File, Atom
  <2> QED
    BY <2>2, <2>3 DEF EmbedderOK
<1> QED
  BY <1>5, <1>6, <1>7, <1>8, <1>9, <1>10, <1>11, <1>12
  DEF HumanNext, Asked, Emits, BreaksOff, EmbedEmits, humanVars, evidenceVars

LEMMA HumanKeeps == HumanOK /\ [HumanNext]_<<evidenceVars, humanVars>> => HumanOK'
<1> SUFFICES ASSUME HumanOK, [HumanNext]_<<evidenceVars, humanVars>> PROVE HumanOK'
  OBVIOUS
<1>0. EmbedderOK' /\ \A r : Attested(r) => Attested(r)'
  BY EmbedderKeeps DEF Attested, Human
<1>1. CASE FilesNothing /\ corpus' \in Content
           /\ (desk' = desk \/ desk' = Idle
                 \/ (/\ desk'.at = "emit" /\ desk'.content \in Content
                     /\ desk'.claim \in Human(desk'.content) /\ desk'.checker # Nobody))
  <2>1. /\ EvidenceOK'
        /\ \A r \in written' : r.control = "human" => Attested(r)
        /\ \A e \in written' : e.control = "embed" /\ Passed(e) => Whole(e)'
    BY <1>1, HumanRecordsKeep
  <2> QED
    BY <1>0, <1>1, <2>1 DEF HumanOK, Attested, Human, Passed
<1>2. ASSUME NEW c \in Content, Edits(c) PROVE HumanOK'
  BY <1>1, <1>2 DEF Edits, FilesNothing, evidenceVars
<1>3. ASSUME NEW claim, NEW checker, NEW verdict, Asked(claim, checker, verdict) PROVE HumanOK'
  <2>1. /\ desk'.at = "emit" /\ desk'.content = corpus /\ desk'.claim = claim
        /\ desk'.checker = checker /\ claim \in Human(corpus) /\ checker # Nobody
        /\ FilesNothing /\ corpus' = corpus
    BY <1>3 DEF Asked, Accepts, FilesNothing, evidenceVars
  <2> QED
    BY <1>1, <2>1 DEF HumanOK
<1>4. CASE Emits
  <2> DEFINE r == Record("human", desk.claim, desk.verdict = "pass",
                         [content |-> desk.content, checker |-> desk.checker])
  <2>1. Files(r) /\ desk' = Idle /\ corpus' = corpus
    BY <1>4, SavesFiles DEF Emits
  <2>2. /\ r.control = "human" /\ r.of = desk.claim
        /\ r.body.content = desk.content /\ r.body.checker = desk.checker
    BY DEF Record
  <2>3. Attested(r)
    BY <1>4, <2>2 DEF Emits, HumanOK, Idle, Attested
  <2> HIDE DEF r
  <2>4. /\ EvidenceOK'
        /\ \A x \in written' : x.control = "human" => Attested(x)
        /\ \A e \in written' : e.control = "embed" /\ Passed(e) => Whole(e)'
    BY <2>1, <2>2, <2>3, HumanRecordsKeep
  <2> QED
    BY <1>0, <2>1, <2>4 DEF HumanOK, Attested, Human, Passed
<1>5. CASE Builds \/ Queries \/ Judges \/ BreaksOff \/ \E d \in Document : Embeds(d) \/ Rereads(d)
  BY <1>1, <1>5 DEF Builds, Queries, Judges, BreaksOff, Embeds, Rereads, FilesNothing, evidenceVars, HumanOK
<1>6. CASE EmbedEmits
  <2> DEFINE body == [rows |-> embedder.rows, stood |-> embedder.stood, began |-> embedder.began,
                      judged |-> embedder.judged, evidenced |-> embedder.evidenced]
             r == Record("embed", Nobody, embedder.ok, body)
  <2>1. Files(r) /\ UNCHANGED <<corpus, desk>>
    BY <1>6, SavesFiles DEF EmbedEmits
  <2>2. /\ r.control = "embed" /\ (Passed(r) => embedder.ok) /\ r.body.rows = embedder.rows
        /\ r.body.stood = embedder.stood /\ r.body.began = embedder.began
    BY DEF Record, Passed
  <2> HIDE DEF r
  <2>3. ASSUME Passed(r) PROVE Whole(r)
    <3>1. Held(embedder.stood, embedder.began, embedder.rows)
      BY <1>6, <2>2, <2>3 DEF EmbedEmits, HumanOK, EmbedderOK, Idle
    <3> QED
      BY <2>2, <3>1 DEF Whole
  <2>4. /\ EvidenceOK'
        /\ \A x \in written' : x.control = "human" => Attested(x)
        /\ \A e \in written' : e.control = "embed" /\ Passed(e) => Whole(e)'
    BY <2>1, <2>2, <2>3, HumanRecordsKeep
  <2> QED
    BY <1>0, <2>1, <2>4 DEF HumanOK, Attested, Human, Passed
<1>7. CASE (TimePasses /\ UNCHANGED humanVars) \/ UNCHANGED <<evidenceVars, humanVars>>
  BY <1>1, <1>7 DEF TimePasses, FilesNothing, evidenceVars, humanVars, HumanOK, EvidenceOK
<1> QED
  BY <1>2, <1>3, <1>4, <1>5, <1>6, <1>7 DEF HumanNext

(* Nobody's word is counted for a claim, or in a corpus, it was not given  *)
(* for, and none is lost but to a later one of its second: whatever the    *)
(* corpus went through in between.                                         *)
THEOREM CoverageIsWhatWasPassed == HumanSpec => []CoverageIsAttestation
<1>1. HumanOK => CoverageIsAttestation
  <2> SUFFICES ASSUME HumanOK PROVE CoverageIsAttestation
    OBVIOUS
  <2> DEFINE passed(x, c) == \E r \in written : /\ r.control = "human" /\ r.of = x /\ Passed(r)
                                                /\ r.body.content = c /\ r.body.checker # Nobody
  <2>1. Verdicts \subseteq written
    BY DEF Verdicts, OnFile, OnFileBefore
  <2>2. \A v \in Verdicts : v.control = "human" /\ Passed(v) /\ Attested(v)
    BY <2>1 DEF Verdicts, HumanOK
  <2>3. \A c \in Content : \A x \in covered[c] : passed(x, c) /\ x \in Human(c)
    BY <2>1, <2>2 DEF covered, current_evidence, Attested
  <2>4. ASSUME NEW c \in Content, NEW x \in stale[c]
        PROVE  \E d \in Content \ {c} : passed(x, d)
    <3>1. x \in {v.of : v \in Verdicts} /\ x \notin current_evidence(c)
      BY DEF stale
    <3>2. PICK v \in Verdicts : v.of = x
      BY <3>1
    <3>3. v.body.content # c
      BY <3>1, <3>2 DEF current_evidence
    <3>4. v.body.content \in Content \ {c} /\ passed(x, v.body.content)
      BY <2>1, <2>2, <3>2, <3>3 DEF Attested
    <3> QED
      BY <3>4
  <2>5. ASSUME NEW r \in written, r.control = "human", Passed(r)
        PROVE  r.of \in covered[r.body.content] \/ \E s \in written : File(s) = File(r) /\ s.at > r.at
    <3>1. r.body.content \in Content /\ r.at < now /\ \A s \in written : s.at \in Nat
      BY <2>5 DEF HumanOK, Attested, EvidenceOK
    <3>2. CASE r \in OnFile
      <4>1. r \in Verdicts
        BY <2>5, <3>2 DEF Verdicts
      <4> QED
        BY <3>1, <4>1 DEF covered, current_evidence
    <3>3. CASE r \notin OnFile
      <4>1. \E s \in written : s.at < now /\ File(s) = File(r) /\ ~(s.at <= r.at)
        BY <3>1, <3>3 DEF OnFile, OnFileBefore
      <4> QED
        BY <3>1, <4>1
    <3> QED
      BY <3>2, <3>3
  <2> QED
    BY <2>3, <2>4, <2>5 DEF CoverageIsAttestation
<1> QED
  BY HumanStarts, HumanKeeps, <1>1, PTL DEF HumanSpec

(* A build that passed embedded every claim that stood in its document     *)
(* while its queries read the corpus again, document by document, and      *)
(* every record of another run there was when they began.                  *)
THEOREM PassingBuildIsWhole == HumanSpec => []EmbeddedIsWhole
<1>1. HumanOK => EmbeddedIsWhole
  BY DEF HumanOK, EmbeddedIsWhole, Whole, Held
<1> QED
  BY HumanStarts, HumanKeeps, <1>1, PTL DEF HumanSpec

-----------------------------------------------------------------------------
(* The ingest lint.                                                        *)
Fields == {"at", "refs", "left", "entries", "resolved", "sound", "moved"}

(* What nobody moved is where it was when the run began, and will be until *)
(* it ends; so it is listed, or in a folder that is not listed yet.        *)
Listed ==
  \A f \in Names \ lint.moved : \A d \in place[f] :
    <<f, d>> \in lint.entries \/ (lint.at = "list" /\ \E i \in 1..Len(lint.left) : lint.left[i] = d)

(* What a reference was resolved to is so still, once it is merged. *)
Resolved ==
  /\ DOMAIN lint.resolved \subseteq PRs
  /\ \A n \in DOMAIN lint.resolved : lint.resolved[n] = "merged" => prs[n] = "merged"

Merged(e) == folder(e) = "executed" /\ Ref[e[1]] # Unmarked =>
               Ref[e[1]] # {} /\ \A n \in Ref[e[1]] : prs[n] = "merged"

(* What was looked up, of what nobody moved. *)
Coherence == lint.sound /\ lint.refs => \A e \in Stood : e \in lint.left \/ Merged(e)

TreeSound(entries) ==
  \A e, x \in entries : e[1] = x[1] =>
    /\ folder(e) \in KNOWN_FOLDERS
    /\ e = x \/ {folder(e), folder(x)} \cap {"artifacts"} # {}
    /\ (folder(e) \in LIFECYCLE) <=> (Marker[e[1]] \in INSTRUCTION_TYPES)

(* The marker of a name, in its folder. *)
Fits(e) ==
  \/ folder(e) = "artifacts" /\ Marker[e[1]] \in ARTIFACT_TYPES \cup {Unmarked}
  \/ folder(e) \in LIFECYCLE /\ Marker[e[1]] \in INSTRUCTION_TYPES

(* What was read, of what nobody moved. *)
MarksRead == lint.sound => \A e \in Stood : e \in lint.left \/ Fits(e)

LintOK ==
  /\ lint = [x \in Fields |-> lint[x]]
  /\ lint.at \in {"list", "marks", "refs"}
  /\ lint.at = "list" => lint.left \in Seq(STRING)
  /\ Listed /\ Resolved
  /\ lint.at = "marks" => MarksRead
  /\ lint.at = "refs" => Coherence /\ (lint.sound => TreeSound(Stood))

Vouched(r) ==
  /\ r.body.stood \subseteq Names \X Folder
  /\ TreeSound(r.body.stood)
  /\ r.body.refs => \A e \in r.body.stood : Merged(e)

IngestOK ==
  /\ EvidenceOK
  /\ place \in [Names -> SUBSET Folder]
  /\ DOMAIN prs = PRs
  /\ lint # Off => LintOK
  /\ \A r \in Linted : Passed(r) => Vouched(r)

LEMMA IngestStarts == IngestInit => IngestOK
<1> SUFFICES ASSUME IngestInit PROVE IngestOK
  OBVIOUS
<1>1. place \in [Names -> SUBSET Folder]
  BY DEF IngestInit
<1>2. Linted = {}
  BY DEF IngestInit, EvidenceInit, Linted
<1> QED
  BY <1>1, <1>2, EvidenceStarts DEF IngestInit, IngestOK

(* What is merged stays merged. *)
MergedStays == DOMAIN prs' = PRs /\ \A n \in PRs : prs[n] = "merged" => prs'[n] = "merged"

LEMMA MergedKept ==
  ASSUME MergedStays, NEW CONSTANT e \in Names \X Folder, Merged(e)
  PROVE  Merged(e)'
<1> SUFFICES ASSUME folder(e) = "executed", Ref[e[1]] # Unmarked
             PROVE  Ref[e[1]] # {} /\ \A n \in Ref[e[1]] : prs'[n] = "merged"
  BY DEF Merged
<1>1. Ref[e[1]] \subseteq PRs
  BY IngestAssumption
<1>2. Ref[e[1]] # {} /\ \A n \in Ref[e[1]] : prs[n] = "merged"
  BY DEF Merged
<1> QED
  BY <1>1, <1>2 DEF MergedStays

(* A step that files nothing, or a record that is vouched for. *)
LEMMA IngestRecordsKeep ==
  ASSUME IngestOK, MergedStays,
         \/ FilesNothing
         \/ \E r : Files(r) /\ (r \in {s \in {r} : s.control = "ctrl0010"} /\ Passed(r) => Vouched(r))
  PROVE  EvidenceOK' /\ \A r \in Linted' : Passed(r) => Vouched(r)'
<1>1. EvidenceOK'
  BY EvidenceKeeps DEF IngestOK
<1>2. ASSUME NEW r \in Linted', Passed(r) PROVE Vouched(r)'
  <2>1. Vouched(r)
    BY <1>2 DEF IngestOK, Linted, FilesNothing, Files
  <2>2. ASSUME NEW e \in r.body.stood, r.body.refs PROVE Merged(e)'
    <3>1. e \in Names \X Folder /\ Merged(e)
      BY <2>1, <2>2 DEF Vouched
    <3>2. PICK x \in Names \X Folder : x = e
      BY <3>1
    <3>3. Merged(x)'
      BY <3>1, <3>2, MergedKept
    <3> QED
      BY <3>2, <3>3 DEF Merged
  <2> QED
    BY <2>1, <2>2 DEF Vouched, TreeSound
<1> QED
  BY <1>1, <1>2

LEMMA SubtreeIsSound ==
  ASSUME NEW S, NEW T, S \subseteq T, TreeSound(T)
  PROVE  TreeSound(S)
  BY DEF TreeSound

(* While nothing is moved and what is merged stays so, a run that stays    *)
(* where it is knows what it knew.                                         *)
LEMMA RunKeeps ==
  ASSUME IngestOK, MergedStays, lint # Off, lint' = lint, place' = place
  PROVE  LintOK'
<1>1. Stood' = Stood /\ Stood \subseteq Names \X Folder
  BY DEF Stood, IngestOK
<1>2. Listed' /\ Resolved'
  BY DEF IngestOK, LintOK, Listed, Resolved, MergedStays
<1>3. ASSUME lint.at = "refs", lint.sound, lint.refs, NEW e \in Stood, e \notin lint.left
      PROVE  Merged(e)'
  <2>1. Merged(e) /\ e \in Names \X Folder
    BY <1>1, <1>3 DEF IngestOK, LintOK, Coherence
  <2>2. PICK x \in Names \X Folder : x = e
    BY <2>1
  <2>3. Merged(x)'
    BY <2>1, <2>2, MergedKept
  <2> QED
    BY <2>2, <2>3 DEF Merged
<1>4. lint.at = "refs" => Coherence'
  BY <1>1, <1>3 DEF Coherence
<1>5. lint.at = "refs" /\ lint.sound => TreeSound(Stood)'
  BY <1>1 DEF IngestOK, LintOK, TreeSound, folder
<1>6. lint.at = "marks" => MarksRead'
  BY <1>1 DEF IngestOK, LintOK, MarksRead, Fits, folder
<1> QED
  BY <1>2, <1>4, <1>5, <1>6 DEF IngestOK, LintOK

LEMMA RearrangedKeeps ==
  ASSUME IngestOK, NEW f \in Names, NEW folders \in SUBSET Folder, Rearranged(f, folders)
  PROVE  IngestOK'
<1>1. /\ FilesNothing /\ prs' = prs /\ MergedStays
      /\ place' = [place EXCEPT ![f] = folders] /\ place' \in [Names -> SUBSET Folder]
  BY DEF Rearranged, FilesNothing, evidenceVars, MergedStays, IngestOK
<1>2. EvidenceOK' /\ \A r \in Linted' : Passed(r) => Vouched(r)'
  BY <1>1, IngestRecordsKeep
<1>3. CASE lint = Off
  BY <1>1, <1>2, <1>3 DEF Rearranged, IngestOK
<1>4. CASE lint # Off
  <2>1. LintOK
    BY <1>4 DEF IngestOK
  <2>2. /\ lint' = [x \in Fields |-> lint'[x]]
        /\ lint'.at = lint.at /\ lint'.refs = lint.refs /\ lint'.left = lint.left
        /\ lint'.entries = lint.entries /\ lint'.resolved = lint.resolved
        /\ lint'.sound = lint.sound /\ lint'.moved = lint.moved \cup {f}
    BY <1>4, <2>1 DEF Rearranged, LintOK, Fields
  <2>3. \A g \in Names \ lint'.moved : g \in Names \ lint.moved /\ place'[g] = place[g]
    BY <1>1, <2>2 DEF IngestOK
  <2>4. Listed' /\ Resolved'
    <3>1. Listed /\ Resolved
      BY <2>1 DEF LintOK
    <3>2. Listed'
      BY <2>2, <2>3, <3>1 DEF Listed
    <3>3. Resolved'
      BY <1>1, <2>2, <3>1 DEF Resolved
    <3> QED
      BY <3>2, <3>3
  <2>5. Stood' \subseteq Stood
    BY <2>2, <2>3 DEF Stood
  <2>6. /\ lint'.at = "refs" => Coherence'
        /\ lint'.at = "marks" => MarksRead'
    BY <1>1, <2>1, <2>2, <2>5 DEF LintOK, Coherence, Merged, MarksRead, Fits, folder
  <2>7. lint'.at = "refs" /\ lint'.sound => TreeSound(Stood')
    BY <2>1, <2>2, <2>5, SubtreeIsSound DEF LintOK
  <2> QED
    BY <1>1, <1>2, <2>1, <2>2, <2>4, <2>6, <2>7 DEF IngestOK, LintOK, TreeSound, folder
<1> QED
  BY <1>3, <1>4

LEMMA PullRequestKeeps ==
  ASSUME IngestOK, NEW n \in PRs, PullRequestMoves(n) \/ PullRequestCloses(n)
  PROVE  IngestOK'
<1>1. FilesNothing /\ UNCHANGED <<place, lint>>
  BY DEF PullRequestMoves, PullRequestCloses, FilesNothing, evidenceVars
<1>2. MergedStays
  BY DEF PullRequestMoves, PullRequestCloses, MergedStays, IngestOK
<1>3. EvidenceOK' /\ \A r \in Linted' : Passed(r) => Vouched(r)'
  BY <1>1, <1>2, IngestRecordsKeep
<1>4. lint # Off => LintOK'
  BY <1>1, <1>2, RunKeeps
<1> QED
  BY <1>1, <1>2, <1>3, <1>4 DEF IngestOK, MergedStays

LEMMA StartsKeeps ==
  ASSUME IngestOK, NEW refs \in BOOLEAN, Starts(refs)
  PROVE  IngestOK'
<1>1. FilesNothing /\ UNCHANGED <<place, prs>> /\ MergedStays
  BY DEF Starts, FilesNothing, evidenceVars, MergedStays, IngestOK
<1>2. EvidenceOK' /\ \A r \in Linted' : Passed(r) => Vouched(r)'
  BY <1>1, IngestRecordsKeep
<1>3. /\ lint' = [x \in Fields |-> lint'[x]]
      /\ lint'.at = "list" /\ lint'.left = Order /\ lint'.moved = {}
      /\ DOMAIN lint'.resolved = {}
  <2>1. DOMAIN <<>> = {}
    OBVIOUS
  <2>2. lint' = [at |-> "list", refs |-> refs, left |-> Order, entries |-> {}, resolved |-> <<>>,
                 sound |-> TRUE, moved |-> {}]
    BY DEF Starts
  <2>3. lint' = [x \in Fields |-> lint'[x]]
    BY <2>2 DEF Fields
  <2> QED
    BY <2>1, <2>2, <2>3
<1>4. Listed'
  <2> SUFFICES ASSUME NEW f \in Names, NEW d \in place[f]
               PROVE  \E i \in 1..Len(Order) : Order[i] = d
    BY <1>1, <1>3 DEF Listed
  <2>1. d \in Folder
    BY DEF IngestOK
  <2> QED
    BY <2>1, IngestAssumption DEF Folder
<1>5. Resolved'
  BY <1>3 DEF Resolved
<1> QED
  BY <1>1, <1>2, <1>3, <1>4, <1>5, IngestAssumption DEF IngestOK, LintOK

LEMMA ListsKeeps ==
  ASSUME IngestOK, ListsFolder
  PROVE  IngestOK'
<1>1. FilesNothing /\ UNCHANGED <<place, prs>> /\ MergedStays
  BY DEF ListsFolder, FilesNothing, evidenceVars, MergedStays, IngestOK
<1>2. EvidenceOK' /\ \A r \in Linted' : Passed(r) => Vouched(r)'
  BY <1>1, IngestRecordsKeep
<1>3. LintOK
  BY DEF ListsFolder, IngestOK, Off
<1> DEFINE here == {<<f, Head(lint.left)>> : f \in {g \in Names : Head(lint.left) \in place[g]}}
<1>4. /\ lint' = [x \in Fields |-> lint'[x]]
      /\ lint.at = "list" /\ lint'.at = "list" /\ lint'.left = Tail(lint.left)
      /\ lint'.moved = lint.moved /\ lint'.resolved = lint.resolved
      /\ lint'.entries = lint.entries \cup here
  BY <1>3 DEF ListsFolder, LintOK, Fields
<1>5. lint.left \in Seq(STRING) /\ lint.left # <<>>
  BY <1>3, <1>4 DEF LintOK, ListsFolder
<1>6. Listed'
  <2> SUFFICES ASSUME NEW f \in Names \ lint.moved, NEW d \in place[f]
               PROVE  <<f, d>> \in lint.entries \cup here
                        \/ \E i \in 1..Len(Tail(lint.left)) : Tail(lint.left)[i] = d
    BY <1>1, <1>4 DEF Listed
  <2>1. <<f, d>> \in lint.entries \/ \E i \in 1..Len(lint.left) : lint.left[i] = d
    BY <1>3 DEF LintOK, Listed
  <2>2. ASSUME NEW i \in 1..Len(lint.left), lint.left[i] = d
        PROVE  d = Head(lint.left) \/ \E j \in 1..Len(Tail(lint.left)) : Tail(lint.left)[j] = d
    <3>1. CASE i = 1
      BY <1>5, <2>2, <3>1
    <3>2. CASE i # 1
      <4>1. i - 1 \in 1..Len(Tail(lint.left)) /\ Tail(lint.left)[i - 1] = lint.left[i]
        BY <1>5, <3>2
      <4> QED
        BY <2>2, <4>1
    <3> QED
      BY <3>1, <3>2
  <2>3. d = Head(lint.left) => <<f, d>> \in here
    OBVIOUS
  <2> QED
    BY <2>1, <2>2, <2>3
<1>7. Resolved'
  BY <1>1, <1>3, <1>4 DEF LintOK, Resolved
<1>8. lint'.left \in Seq(STRING)
  <2>1. \A s \in Seq(STRING) : s # <<>> => Tail(s) \in Seq(STRING)
    OBVIOUS
  <2>2. lint'.left = Tail(lint.left)
    BY <1>4
  <2> QED
    BY <1>5, <2>1, <2>2
<1> HIDE DEF here
<1>9. LintOK'
  BY <1>4, <1>6, <1>7, <1>8 DEF LintOK
<1> QED
  BY <1>1, <1>2, <1>9 DEF IngestOK

(* What has its place, and is there once, makes a sound tree. *)
LEMMA FittingIsSound ==
  ASSUME NEW S \in SUBSET (Names \X Folder), \A e \in S : Fits(e), ~Duplicated(S)
  PROVE  TreeSound(S)
<1> SUFFICES ASSUME NEW e \in S, NEW x \in S, e[1] = x[1]
             PROVE  /\ folder(e) \in KNOWN_FOLDERS
                    /\ e = x \/ {folder(e), folder(x)} \cap {"artifacts"} # {}
                    /\ (folder(e) \in LIFECYCLE) <=> (Marker[e[1]] \in INSTRUCTION_TYPES)
  BY DEF TreeSound
<1>1. Fits(e) /\ Fits(x)
  OBVIOUS
<1>2. folder(e) \in KNOWN_FOLDERS /\ folder(x) \in KNOWN_FOLDERS
  BY <1>1 DEF Fits, KNOWN_FOLDERS
<1>3. e # x => folder(e) = "artifacts" \/ folder(x) = "artifacts"
  BY <1>2 DEF Duplicated, KNOWN_FOLDERS
<1>4. "artifacts" \notin LIFECYCLE /\ "artifact" \notin INSTRUCTION_TYPES
  BY DEF LIFECYCLE, INSTRUCTION_TYPES
<1>5. folder(e) \in LIFECYCLE <=> Marker[e[1]] \in INSTRUCTION_TYPES
  BY <1>1, <1>4, IngestAssumption DEF Fits, ARTIFACT_TYPES
<1> QED
  BY <1>2, <1>3, <1>5

LEMMA ScannedKeeps ==
  ASSUME IngestOK, Scanned
  PROVE  IngestOK'
<1>1. FilesNothing /\ UNCHANGED <<place, prs>> /\ MergedStays
  BY DEF Scanned, FilesNothing, evidenceVars, MergedStays, IngestOK
<1>2. EvidenceOK' /\ \A r \in Linted' : Passed(r) => Vouched(r)'
  BY <1>1, IngestRecordsKeep
<1>3. LintOK /\ lint.at = "list" /\ lint.left = <<>>
  BY DEF Scanned, IngestOK, Off
<1>4. CASE lint.entries = {}
  <2>1. lint' = Off
    BY <1>4 DEF Scanned
  <2> QED
    BY <1>1, <1>2, <2>1 DEF IngestOK
<1>5. CASE lint.entries # {}
  <2>1. /\ lint' = [x \in Fields |-> lint'[x]]
        /\ lint'.at = "marks" /\ lint'.moved = lint.moved
        /\ lint'.entries = lint.entries /\ lint'.resolved = lint.resolved
        /\ lint'.left = lint.entries
    BY <1>3, <1>5 DEF Scanned, LintOK, Fields
  <2>2. \A f \in Names \ lint.moved : \A d \in place[f] : <<f, d>> \in lint.entries
    <3>1. 1..Len(lint.left) = {}
      <4>1. Len(<<>>) = 0
        OBVIOUS
      <4> QED
        BY <1>3, <4>1
    <3> QED
      BY <1>3, <3>1 DEF LintOK, Listed
  <2>3. Stood \subseteq lint.entries /\ Stood' = Stood
    BY <1>1, <2>1, <2>2 DEF Stood
  <2>4. Listed' /\ MarksRead'
    BY <1>1, <2>1, <2>2, <2>3 DEF Listed, MarksRead
  <2>5. Resolved'
    BY <1>1, <1>3, <2>1 DEF LintOK, Resolved
  <2>6. LintOK'
    BY <2>1, <2>4, <2>5 DEF LintOK
  <2> QED
    BY <1>1, <1>2, <2>6 DEF IngestOK
<1> QED
  BY <1>4, <1>5

LEMMA ReadsMarkerKeeps ==
  ASSUME IngestOK, NEW e \in Names \X Folder, ReadsMarker(e)
  PROVE  IngestOK'
<1>1. FilesNothing /\ UNCHANGED <<place, prs>> /\ MergedStays
  BY DEF ReadsMarker, FilesNothing, evidenceVars, MergedStays, IngestOK
<1>2. EvidenceOK' /\ \A r \in Linted' : Passed(r) => Vouched(r)'
  BY <1>1, IngestRecordsKeep
<1>3. LintOK /\ lint.at = "marks"
  BY DEF ReadsMarker, IngestOK, Off
<1>4. /\ lint' = [x \in Fields |-> lint'[x]]
      /\ lint'.at = "marks" /\ lint'.moved = lint.moved
      /\ lint'.entries = lint.entries /\ lint'.resolved = lint.resolved
      /\ lint'.left = lint.left \ {e}
      /\ lint'.sound => lint.sound /\ MarkerFits(e)
  BY <1>3 DEF ReadsMarker, LintOK, Fields
<1>5. Stood' = Stood
  BY <1>1, <1>4 DEF Stood
<1>6. Listed' /\ Resolved'
  BY <1>1, <1>3, <1>4 DEF LintOK, Listed, Resolved
<1>7. MarksRead'
  <2> SUFFICES ASSUME lint'.sound, NEW x \in Stood, x \notin lint.left \ {e}
               PROVE  Fits(x)
    BY <1>4, <1>5 DEF MarksRead, Fits, folder
  <2>1. CASE x = e
    BY <1>4, <2>1 DEF MarkerFits, Fits
  <2>2. CASE x # e
    BY <1>3, <1>4, <2>2 DEF LintOK, MarksRead
  <2> QED
    BY <2>1, <2>2
<1>8. LintOK'
  BY <1>4, <1>6, <1>7 DEF LintOK
<1> QED
  BY <1>1, <1>2, <1>8 DEF IngestOK

LEMMA GradesKeeps ==
  ASSUME IngestOK, Grades
  PROVE  IngestOK'
<1>1. FilesNothing /\ UNCHANGED <<place, prs>> /\ MergedStays
  BY DEF Grades, FilesNothing, evidenceVars, MergedStays, IngestOK
<1>2. EvidenceOK' /\ \A r \in Linted' : Passed(r) => Vouched(r)'
  BY <1>1, IngestRecordsKeep
<1>3. LintOK /\ lint.at = "marks" /\ lint.left = {}
  BY DEF Grades, IngestOK, Off
<1>4. /\ lint' = [x \in Fields |-> lint'[x]]
      /\ lint'.at = "refs" /\ lint'.refs = lint.refs /\ lint'.moved = lint.moved
      /\ lint'.entries = lint.entries /\ lint'.resolved = lint.resolved
      /\ lint'.left = (IF lint.refs THEN lint.entries ELSE {})
      /\ lint'.sound => lint.sound /\ ~Duplicated(lint.entries)
  BY <1>3 DEF Grades, LintOK, Fields
<1>5. \A f \in Names \ lint.moved : \A d \in place[f] : <<f, d>> \in lint.entries
  BY <1>3 DEF LintOK, Listed
<1>6. Stood \subseteq lint.entries /\ Stood \subseteq Names \X Folder /\ Stood' = Stood
  BY <1>1, <1>4, <1>5 DEF Stood
<1>7. Listed' /\ Resolved' /\ Coherence'
  BY <1>1, <1>3, <1>4, <1>5, <1>6 DEF LintOK, Listed, Resolved, Coherence
<1>8. ASSUME lint'.sound PROVE TreeSound(Stood)
  <2>1. \A e \in Stood : Fits(e)
    BY <1>3, <1>4, <1>8 DEF LintOK, MarksRead
  <2>2. ~Duplicated(Stood)
    BY <1>4, <1>6, <1>8 DEF Duplicated
  <2> QED
    BY <1>6, <2>1, <2>2, FittingIsSound
<1>9. lint'.sound => TreeSound(Stood)'
  BY <1>6, <1>8 DEF TreeSound, folder
<1>10. LintOK'
  BY <1>4, <1>7, <1>9 DEF LintOK
<1> QED
  BY <1>1, <1>2, <1>10 DEF IngestOK

(* What the lookups of one reference say of it, of merged work, is so. *)
LEMMA LookupIsSound ==
  ASSUME Resolved, NEW e \in Names \X Folder, ref_of(e) # Unmarked, e[2] \in place[e[1]],
         NEW g \in Resolutions(ref_of(e)), Coherent(folder(e), {g[n] : n \in DOMAIN g})
  PROVE  Merged(e)
<1> SUFFICES ASSUME folder(e) = "executed"
             PROVE  Ref[e[1]] # {} /\ \A n \in Ref[e[1]] : prs[n] = "merged"
  BY DEF Merged
<1>1. ref_of(e) = Ref[e[1]]
  BY DEF ref_of
<1>2. DOMAIN g = Ref[e[1]]
  BY <1>1 DEF Resolutions
<1>3. {g[n] : n \in DOMAIN g} = {"merged"}
  BY DEF Coherent
<1>4. ASSUME NEW n \in Ref[e[1]] PROVE prs[n] = "merged"
  <2>1. g[n] = "merged"
    BY <1>2, <1>3
  <2>2. IF n \in DOMAIN lint.resolved THEN g[n] = lint.resolved[n] ELSE g[n] \in {prs[n], "error"}
    BY <1>1 DEF Resolutions
  <2> QED
    BY <2>1, <2>2 DEF Resolved
<1> QED
  BY <1>2, <1>3, <1>4

LEMMA CoheresKeeps ==
  ASSUME IngestOK, NEW e \in Names \X Folder, Coheres(e)
  PROVE  IngestOK'
<1>1. FilesNothing /\ UNCHANGED <<place, prs>> /\ MergedStays
  BY DEF Coheres, FilesNothing, evidenceVars, MergedStays, IngestOK
<1>2. EvidenceOK' /\ \A r \in Linted' : Passed(r) => Vouched(r)'
  BY <1>1, IngestRecordsKeep
<1>3. LintOK /\ lint.at = "refs"
  <2>1. lint.at = "refs"
    BY DEF Coheres
  <2> QED
    BY <2>1 DEF IngestOK, Off
<1>4. /\ lint' = [x \in Fields |-> lint'[x]]
      /\ lint'.at = "refs" /\ lint'.refs = lint.refs /\ lint'.moved = lint.moved
      /\ lint'.entries = lint.entries /\ lint'.left = lint.left \ {e}
      /\ lint'.sound => lint.sound
  BY <1>3 DEF Coheres, LintOK, Fields
<1>5. Stood' = Stood
  BY <1>1, <1>4 DEF Stood
<1>6. Listed'
  BY <1>1, <1>3, <1>4 DEF LintOK, Listed
<1>7. Resolved' /\ (lint'.sound /\ e \in Stood => Merged(e))
  <2>1. CASE ref_of(e) = Unmarked \/ folder(e) \notin LIFECYCLE
    <3>1. lint'.resolved = lint.resolved
      BY <1>3, <2>1 DEF Coheres, LintOK, Fields
    <3>2. Resolved'
      BY <1>1, <1>3, <3>1 DEF LintOK, Resolved
    <3>3. e \in Stood => Merged(e)
      BY <2>1 DEF Stood, ref_of, Merged, LIFECYCLE
    <3> QED
      BY <3>2, <3>3
  <2>2. CASE ~(ref_of(e) = Unmarked \/ folder(e) \notin LIFECYCLE)
    <3>1. PICK g \in Resolutions(ref_of(e)) :
            lint' = [lint EXCEPT
              !.left = @ \ {e},
              !.resolved = [n \in DOMAIN @ \cup DOMAIN g |-> IF n \in DOMAIN g THEN g[n] ELSE @[n]],
              !.sound = @ /\ Coherent(folder(e), {g[n] : n \in DOMAIN g})]
      BY <2>2 DEF Coheres
    <3>2. /\ lint'.resolved = [n \in DOMAIN lint.resolved \cup DOMAIN g |->
                                IF n \in DOMAIN g THEN g[n] ELSE lint.resolved[n]]
          /\ lint'.sound => Coherent(folder(e), {g[n] : n \in DOMAIN g})
      BY <1>3, <3>1 DEF LintOK, Fields
    <3>3. DOMAIN g \subseteq PRs
      BY <2>2, IngestAssumption DEF Resolutions, ref_of
    <3>4. \A n \in DOMAIN g : g[n] = "merged" => prs[n] = "merged"
      BY <1>3 DEF Resolutions, LintOK, Resolved
    <3>5. Resolved'
      BY <1>1, <1>3, <3>2, <3>3, <3>4 DEF LintOK, Resolved
    <3>6. e \in Stood => e[2] \in place[e[1]]
      BY DEF Stood
    <3> QED
      BY <1>3, <2>2, <3>2, <3>5, <3>6, LookupIsSound DEF LintOK
  <2> QED
    BY <2>1, <2>2
<1>8. Coherence'
  <2> SUFFICES ASSUME lint'.sound, lint.refs, NEW x \in Stood, x \notin lint.left \ {e}
               PROVE  Merged(x)
    BY <1>1, <1>4, <1>5 DEF Coherence, Merged, folder
  <2>1. CASE x = e
    BY <1>7, <2>1
  <2>2. CASE x # e
    BY <1>3, <1>4, <2>2 DEF LintOK, Coherence
  <2> QED
    BY <2>1, <2>2
<1>9. lint'.sound => TreeSound(Stood)'
  BY <1>3, <1>4, <1>5 DEF LintOK, TreeSound, folder
<1>10. LintOK'
  BY <1>4, <1>6, <1>7, <1>8, <1>9 DEF LintOK
<1> QED
  BY <1>1, <1>2, <1>10 DEF IngestOK

LEMMA LintEmitsKeeps ==
  ASSUME IngestOK, LintEmits
  PROVE  IngestOK'
<1> DEFINE body == [refs |-> lint.refs, entries |-> lint.entries, stood |-> Stood,
                    there |-> {f \in Names : place[f] # {}}]
           r == Record("ctrl0010", "tree", lint.sound, body)
<1>1. Files(r) /\ lint' = Off /\ UNCHANGED <<place, prs>> /\ MergedStays
  BY SavesFiles DEF LintEmits, MergedStays, IngestOK
<1>2. r.body.stood = Stood /\ r.body.refs = lint.refs /\ (Passed(r) => lint.sound)
  BY DEF Record, Passed
<1>3. LintOK /\ lint.at = "refs" /\ lint.left = {} /\ Stood \subseteq Names \X Folder
  BY DEF LintEmits, IngestOK, Off, Stood
<1>4. ASSUME Passed(r) PROVE Vouched(r)
  <2>1. TreeSound(Stood) /\ (lint.refs => \A e \in Stood : Merged(e))
    BY <1>2, <1>3, <1>4 DEF LintOK, Coherence
  <2> HIDE DEF r
  <2> QED
    BY <1>2, <1>3, <2>1 DEF Vouched
<1> HIDE DEF r
<1>5. EvidenceOK' /\ \A s \in Linted' : Passed(s) => Vouched(s)'
  BY <1>1, <1>4, IngestRecordsKeep
<1> QED
  BY <1>1, <1>5 DEF IngestOK

LEMMA IngestKeeps == IngestOK /\ [IngestNext]_<<evidenceVars, ingestVars>> => IngestOK'
<1> SUFFICES ASSUME IngestOK, [IngestNext]_<<evidenceVars, ingestVars>> PROVE IngestOK'
  OBVIOUS
<1>1. CASE (TimePasses /\ UNCHANGED ingestVars) \/ UNCHANGED <<evidenceVars, ingestVars>>
  <2>1. FilesNothing /\ UNCHANGED <<place, prs, lint>> /\ MergedStays
    BY <1>1 DEF TimePasses, FilesNothing, evidenceVars, ingestVars, MergedStays, IngestOK, EvidenceOK
  <2>2. EvidenceOK' /\ \A r \in Linted' : Passed(r) => Vouched(r)'
    BY <2>1, IngestRecordsKeep
  <2>3. lint # Off => LintOK'
    BY <2>1, RunKeeps
  <2> QED
    BY <2>1, <2>2, <2>3 DEF IngestOK
<1>2. ASSUME NEW f \in Names, NEW d \in Folder, NEW e \in Folder,
             \/ Rearranged(f, (place[f] \ {d}) \cup {e}) \/ Rearranged(f, place[f] \cup {e})
             \/ Rearranged(f, place[f] \ {d})
      PROVE  IngestOK'
  <2>1. place[f] \in SUBSET Folder
    BY DEF IngestOK
  <2>2. /\ (place[f] \ {d}) \cup {e} \in SUBSET Folder
        /\ place[f] \cup {e} \in SUBSET Folder /\ place[f] \ {d} \in SUBSET Folder
    BY <2>1
  <2> QED
    BY <1>2, <2>2, RearrangedKeeps
<1> QED
  BY <1>1, <1>2, PullRequestKeeps, StartsKeeps, ListsKeeps, ScannedKeeps, ReadsMarkerKeeps,
     GradesKeeps, CoheresKeeps, LintEmitsKeeps DEF IngestNext

(* A pass that looked at references is of merged work, for every file that *)
(* stood in executed/ while it ran, and of no lookup that failed: whatever *)
(* else was moved, merged or closed meanwhile.                             *)
THEOREM PassedLintIsOfMergedWork == IngestSpec => []ExecutedIsMerged
<1>1. IngestOK => ExecutedIsMerged
  BY DEF IngestOK, ExecutedIsMerged, Vouched, Merged
<1> QED
  BY IngestStarts, IngestKeeps, <1>1, PTL DEF IngestSpec

(* What stood still while a run passed was in one state, and fitted it,    *)
(* at whatever depth: however the files beside it moved.                   *)
THEOREM PassedLintIsOfSoundTree == IngestSpec => []PassedTreeIsSound
<1>1. IngestOK => PassedTreeIsSound
  BY DEF IngestOK, PassedTreeIsSound, Vouched, TreeSound
<1> QED
  BY IngestStarts, IngestKeeps, <1>1, PTL DEF IngestSpec
=============================================================================
