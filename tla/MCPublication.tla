--------------------------- MODULE MCPublication ---------------------------
(* Instances of Publication for TLC: a control, which the code alone makes *)
(* eligible, a criterion of a story in flight, and two decisions.          *)
EXTENDS Publication, TLC

CONSTANTS c, k, d1, d2

NoRules == [r \in {} |-> c]
ByNumber == (c :> 0) @@ (k :> 1)

(* Decisions that ratify only, and one that also retires the control.      *)
Ratify == (d1 :> [a \in Atom |-> "ratified"]) @@ (d2 :> (k :> "ratified"))
RatifyThenRetire == (d1 :> [a \in Atom |-> "ratified"]) @@ (d2 :> (k :> "deprecated"))
=============================================================================
