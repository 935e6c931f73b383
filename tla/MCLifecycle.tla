---------------------------- MODULE MCLifecycle ----------------------------
(* Instances of Lifecycle for TLC: a specification, a restriction, a rule  *)
(* for each, and a control; RSTR- sorts before RULE-, RULE- before SPEC-.  *)
EXTENDS Lifecycle, TLC

CONSTANTS k1, x1, r1, r2, c1, d1, d2

BindsBoth == (r1 :> c1) @@ (r2 :> x1)
ByPrefix == (k1 :> 0) @@ (x1 :> 1) @@ (r1 :> 2) @@ (r2 :> 3) @@ (c1 :> 4)

(* One decision ratifies them all; another retires the specification.      *)
RatifyThenRetire ==
  (d1 :> [a \in Atom |-> "ratified"]) @@ (d2 :> (c1 :> "deprecated"))
=============================================================================
