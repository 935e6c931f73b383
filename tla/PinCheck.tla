------------------------------ MODULE PinCheck ------------------------------
(***************************************************************************)
(* The CLI pin check (platform/tools/cli_pin_check.py): the version the    *)
(* agent's Dockerfile declares against the pins that the gate suite        *)
(* (platform/suite/gates/run.py) read out of the image it ran and put on   *)
(* every row.  Images are built, and the declaration edited, in between.   *)
(***************************************************************************)
EXTENDS Evidence

CONSTANTS Version, Binary,
          Nothing       \* not declared; or a hash that was not recorded

ASSUME PinAssumption == Nothing \notin Version /\ Nothing \notin Binary

VARIABLES
  declared,   \* by the Dockerfile, or Nothing
  image,      \* the version and the binary in the built image
  suite,      \* the gate suite: idle, or the pin it read
  checking    \* the pin check: idle, or what it concluded

pinVars == <<declared, image, suite, checking>>
Resting == [at |-> "idle"]

(* cli_pin_of on an image that does not answer: no version, no hash. *)
Unavailable == [version |-> Nothing, binary |-> Nothing]

PinInit ==
  /\ EvidenceInit
  /\ declared \in Version
  /\ image \in [version : {declared}, binary : Binary]
  /\ suite = Resting /\ checking = Resting

Declares(v) ==
  /\ v # declared /\ declared' = v
  /\ UNCHANGED <<evidenceVars, image, suite, checking>>

(* The wrapper is pinned; what it brings along may change.                 *)
BuildsImage(b) ==
  /\ declared # Nothing
  /\ image' = [version |-> declared, binary |-> b]
  /\ UNCHANGED <<evidenceVars, declared, suite, checking>>

SuiteReads ==
  /\ suite = Resting
  /\ suite' \in {[at |-> "emit", pin |-> image], [at |-> "emit", pin |-> Unavailable]}
  /\ UNCHANGED <<evidenceVars, declared, image, checking>>

(* emit_evidence, one criterion: its verdict has nothing to do with the pin. *)
SuiteEmits ==
  /\ suite.at = "emit"
  /\ Save(Record("ctrl0005", 1, TRUE, [pin |-> suite.pin]))
  /\ suite' = Resting
  /\ UNCHANGED <<declared, image, checking>>

rows_with_pin == {r.body.pin : r \in {s \in OnFile : s.control = "ctrl0005"}}

(* Defect form: the rows are grouped by the whole pin.                     *)
OneBinaryEach_own(pins) == \A p, q \in pins : p = q => p.binary = q.binary

(* by_version: hashes that were recorded, under whatever version. *)
OneBinaryEach(pins) ==
  \A p, q \in pins : Nothing \notin {p.binary, q.binary} /\ p.version = q.version
                       => p.binary = q.binary

(* run *)
Agree(pins) ==
  /\ declared # Nothing
  /\ pins # {}
  /\ \A p \in pins : p.binary # Nothing
  /\ OneBinaryEach(pins)
  /\ \A p \in pins : p.version \in {Nothing, declared}

Compares ==
  /\ checking = Resting
  /\ checking' = [at |-> "emit", ok |-> Agree(rows_with_pin), looked |-> now,
                  against |-> declared]
  /\ UNCHANGED <<evidenceVars, declared, image, suite>>

(* emit: the subject and the title are made of what is there by then. *)
PinEmits ==
  /\ checking.at = "emit"
  /\ Save(Record("ctrl0011", "cli-pin", checking.ok,
                 [subject |-> declared, looked |-> IF checking.ok THEN checking.looked ELSE 0,
                  against |-> IF checking.ok THEN checking.against ELSE Nothing]))
  /\ checking' = Resting
  /\ UNCHANGED <<declared, image, suite>>

PinNext ==
  \/ \E v \in Version \cup {Nothing} : Declares(v)
  \/ \E b \in Binary : BuildsImage(b)
  \/ SuiteReads \/ SuiteEmits \/ Compares \/ PinEmits
  \/ TimePasses /\ UNCHANGED pinVars

PinSpec == PinInit /\ [][PinNext]_<<evidenceVars, pinVars>>

-----------------------------------------------------------------------------
SuiteRowsBefore(t) == {r \in OnFileBefore(t) : r.control = "ctrl0005"}

(* "one declared version must resolve to exactly one binary": behind a     *)
(* pass, every run of the suite that was on file when the check looked ran *)
(* one and the same binary, whatever was rebuilt or redeclared in between, *)
(* and under the version declared then.                                    *)
PassPinsOneBinary ==
  \A p \in written : p.control = "ctrl0011" /\ Passed(p) =>
    \E b \in Binary : \A r \in SuiteRowsBefore(p.body.looked) :
      r.body.pin = [version |-> p.body.against, binary |-> b]

-----------------------------------------------------------------------------
(* Statements of the repository that the code does not keep.               *)

(* cli_pin_check.py:6 "pinned, and re-verified on every bump": a failed    *)
(* check has a reason in what was recorded under the version declared.     *)
BumpIsVerified ==
  checking.at = "emit" /\ ~checking.ok /\ checking.against # Nothing =>
    LET mine == {r \in SuiteRowsBefore(checking.looked) : r.body.pin.version = checking.against} IN
    mine = {} \/ \E r, s \in mine : r.body.pin # s.body.pin

(* cli_pin_check.py:150 "cli-pin@v...": the subject is what was checked.   *)
SubjectWasChecked ==
  \A p \in written : p.control = "ctrl0011" /\ Passed(p) => p.body.subject = p.body.against
=============================================================================
