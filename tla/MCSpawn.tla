------------------------------ MODULE MCSpawn -------------------------------
(* Instances of Spawn for TLC. *)
EXTENDS Spawn, TLC

(* Criteria are interchangeable, and so are the spawns. *)
Interchangeable == Permutations(Criterion) \cup Permutations(Harness)
=============================================================================
