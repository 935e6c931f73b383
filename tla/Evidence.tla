------------------------------ MODULE Evidence ------------------------------
(***************************************************************************)
(* The Acta, platform/acta/, as the controls share it: each writes one     *)
(* JSON record per run under an id that holds its own name and the second, *)
(* with write_text(), and some read back what they or others wrote.        *)
(* checked_at is finer than the id: no two records here have the same.     *)
(***************************************************************************)
EXTENDS Naturals

CONSTANTS PerSecond,    \* moments in a second
          MaxNow        \* bound: moments, from 1

ASSUME EvidenceAssumption == PerSecond \in Nat \ {0} /\ MaxNow \in Nat

VARIABLES
  written,    \* every record ever written
  now

evidenceVars == <<written, now>>
EvidenceInit == written = {} /\ now = 1

(* body: what the control itself puts on record, and what the properties   *)
(* need to know of the run.                                                *)
Record(control, of, ok, body) ==
  [control |-> control, of |-> of, at |-> now, verdict |-> IF ok THEN "pass" ELSE "fail",
   body |-> body]

File(r) == <<r.control, r.of, r.at \div PerSecond>>

(* What the directory held before a moment: of each file, the last text.   *)
OnFileBefore(t) ==
  {r \in written : r.at < t /\ \A s \in written : s.at < t /\ File(s) = File(r) => s.at <= r.at}

OnFile == OnFileBefore(now)
Passed(r) == r.verdict = "pass"
Newest(rs) == {r \in rs : \A s \in rs : s.at <= r.at}

Save(r) ==
  /\ now < MaxNow
  /\ written' = written \cup {r}
  /\ now' = now + 1

TimePasses == now < MaxNow /\ now' = now + 1 /\ UNCHANGED written

-----------------------------------------------------------------------------
(* DOC-0000 ONT-046 "Evidence atoms are append-only": what was written     *)
(* stays on file.  The code does not keep it within a second.              *)
AppendOnly == written = OnFile
=============================================================================
