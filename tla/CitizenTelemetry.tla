-------------------------- MODULE CitizenTelemetry --------------------------
(***************************************************************************)
(* A citizen implements Telemetry: the record is what the bus client has   *)
(* moved to the server.                                                    *)
(***************************************************************************)
EXTENDS Citizen, FiniteSets

(* The lines of s that have reached the server, and their numbers in the   *)
(* order of their coming.                                                  *)
LinesOf(s) == {i \in 1..sent : out[i].by = s}
Before(i, s) == {j \in LinesOf(s) : j <= i}
OnRecord(s) ==
  [k \in 1..Cardinality(LinesOf(s)) |->
     out[CHOOSE i \in LinesOf(s) : Cardinality(Before(i, s)) = k].n]

Abstract == INSTANCE Telemetry WITH
  recorded <- [s \in Stream |-> OnRecord(s)],
  verdict <- {out[i].n : i \in {j \in 1..sent : out[j].kind = "exit"}}

(* Every step of a citizen is a step of Telemetry or changes nothing it    *)
(* sees (init.py pump, run_payload; L0-032).                               *)
ImplementsTelemetry == Abstract!Spec
=============================================================================
