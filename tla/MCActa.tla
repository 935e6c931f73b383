------------------------------- MODULE MCActa -------------------------------
(* An instance for TLC of the controls that share the Acta: a behaviour    *)
(* follows one of them, with whoever writes the records it reads.          *)
EXTENDS HumanEvidence, Enforcement, PinCheck, IngestLint, TLC

VARIABLE control
actaVars == <<evidenceVars, control, humanVars, enforcementVars, pinVars, ingestVars>>

Init ==
  /\ control \in {"human", "embedder", "enforcement", "pin", "ingest"}
  /\ HumanInit /\ EnforcementInit /\ PinInit /\ IngestInit
  /\ control \notin {"human", "embedder"} => corpus = 1
  /\ control # "enforcement" => applied = {} /\ bypass = {}
  /\ control # "pin" => declared = "v1"
  /\ control = "ingest" =>
       place["report"] \in {{"executed"}, {"artifacts"}} /\ prs = [n \in PRs |-> "open"]
  /\ control # "ingest" =>
       place = [f \in Names |-> {"proposed"}] /\ prs = [n \in PRs |-> "open"]

(* Bound: how many moments each is followed for.                           *)
Moments == [human |-> MaxNow, embedder |-> MaxNow - 2, enforcement |-> MaxNow - 1,
            pin |-> MaxNow - 1, ingest |-> 2]

Next ==
  /\ UNCHANGED control /\ now < Moments[control]
  /\ \/ control = "human" /\ HumanNext /\ UNCHANGED <<embedder, enforcementVars, pinVars, ingestVars>>
     \/ control = "embedder" /\ HumanNext /\ UNCHANGED <<enforcementVars, pinVars, ingestVars>>
     \/ control = "enforcement" /\ EnforcementNext /\ UNCHANGED <<humanVars, pinVars, ingestVars>>
     \/ control = "pin" /\ PinNext /\ UNCHANGED <<humanVars, enforcementVars, ingestVars>>
     \/ control = "ingest" /\ IngestNext /\ UNCHANGED <<humanVars, enforcementVars, pinVars>>

Spec == Init /\ [][Next]_actaVars

(* Three contents: both claims for a person, one of them runnable and the  *)
(* other without its moment, and a red one. *)
MCCheck ==
  1 :> ("c1" :> "human" @@ "c2" :> "human")
  @@ 2 :> ("c1" :> "human" @@ "c2" :> "machine" @@ "c3" :> "human")
  @@ 3 :> ("c1" :> "human")

(* The first claim moves to the other document in the red content. *)
MCDoc ==
  1 :> ("c1" :> "d1" @@ "c2" :> "d2")
  @@ 2 :> ("c1" :> "d1" @@ "c2" :> "d2" @@ "c3" :> "d2")
  @@ 3 :> ("c1" :> "d2")

MCSymmetry == Permutations(Ruleset) \cup Permutations(Binary) \cup Permutations(PRs)
MCOrder == <<"", "executed", "proposed", "proposed/next", "active", "artifacts">>
MCTop == [d \in {MCOrder[i] : i \in DOMAIN MCOrder} |-> IF d = "proposed/next" THEN "proposed" ELSE d]
MCMarker == "plan" :> "instruction" @@ "report" :> "artifact"
MCRef == "plan" :> PRs @@ "report" :> Unmarked
=============================================================================
