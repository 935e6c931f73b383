----------------------------- MODULE Telemetry -----------------------------
(***************************************************************************)
(* What a citizen promises about the output of its payload (L0-032,        *)
(* PA-014), with no coroutine, connection or buffer in sight: the record   *)
(* on the server is at every moment a prefix of what was written, stream   *)
(* by stream; and the payload's exit is on record only when everything     *)
(* written is, after which nothing is added.                               *)
(***************************************************************************)
EXTENDS Naturals, Sequences

CONSTANTS Stream, ExitStatus

VARIABLES
  written,   \* lines each stream has carried so far; line k is number k
  recorded,  \* the numbers on record for each stream, in order
  verdict    \* {} or the recorded exit status

vars == <<written, recorded, verdict>>

UpTo(n) == [k \in 1..n |-> k]

Init ==
  /\ written = [s \in Stream |-> 0]
  /\ recorded = [s \in Stream |-> <<>>]
  /\ verdict = {}

Write(s) ==
  /\ verdict = {}
  /\ written' = [written EXCEPT ![s] = @ + 1]
  /\ UNCHANGED <<recorded, verdict>>

(* Any number of further lines reach the record, and possibly the exit,    *)
(* which needs every line to be there.                                     *)
Record ==
  /\ verdict = {}
  /\ DOMAIN recorded' = Stream
  /\ \A s \in Stream :
       /\ Len(recorded'[s]) \in Len(recorded[s])..written[s]
       /\ recorded'[s] = UpTo(Len(recorded'[s]))
  /\ \/ verdict' = {}
     \/ /\ \E x \in ExitStatus : verdict' = {x}
        /\ \A s \in Stream : Len(recorded'[s]) = written[s]
  /\ UNCHANGED written

Next == (\E s \in Stream : Write(s)) \/ Record

Spec == Init /\ [][Next]_vars
=============================================================================
