--------------------------- MODULE LifecycleProofs --------------------------
(***************************************************************************)
(* Theorems of Lifecycle and Publication, for every corpus, decision and   *)
(* number of runs, edits and commits.                                      *)
(*                                                                         *)
(* The instances still to be written are as good as those already there:   *)
(* that is what the inductive invariants add to the properties.            *)
(***************************************************************************)
EXTENDS Publication, TLAPS

(* Whoever stands behind instance i of atom a enumerated its movement. *)
Enumerated(a, i) ==
  i.state \notin {"draft", "proposed"} =>
    /\ i.authorized_by \in Decision
    /\ a \in DOMAIN Effects[i.authorized_by]
    /\ Effects[i.authorized_by][a] \in
         (IF i.state = "active" THEN {"ratified", "active"} ELSE {i.state})

AuthorityInv ==
  /\ LifecycleTypeOK
  /\ \A a \in Atom : Enumerated(a, corpus[a])
  /\ \A a \in DOMAIN plan : Enumerated(a, plan[a])

LEMMA BumpTyped ==
  ASSUME NEW v \in Nat \X Nat, NEW first \in BOOLEAN
  PROVE  bump(v, first) \in Nat \X Nat
  BY DEF bump

-----------------------------------------------------------------------------
LEMMA AuthorityInvInit == LifecycleInit => AuthorityInv
<1> SUFFICES ASSUME LifecycleInit PROVE AuthorityInv
  OBVIOUS
<1>1. \A a \in Atom : /\ corpus[a] \in Instance
                      /\ corpus[a].state \in {"draft", "proposed"}
  BY DEF LifecycleInit, Instance, State
<1>2. LifecycleTypeOK
  BY <1>1 DEF LifecycleInit, LifecycleTypeOK, NoPlan, Idle
<1>3. \A a \in Atom : Enumerated(a, corpus[a])
  BY <1>1 DEF Enumerated
<1>4. \A a \in DOMAIN plan : Enumerated(a, plan[a])
  BY DEF LifecycleInit, NoPlan
<1> QED
  BY <1>2, <1>3, <1>4 DEF AuthorityInv

(* What a ceremony plans is typed and enumerated. *)
LEMMA EffectsPlanned ==
  ASSUME LifecycleTypeOK, NEW d \in Decision, NEW now \in Nat
  PROVE  /\ DOMAIN effects_plan(d, now) \subseteq Atom
         /\ \A a \in DOMAIN effects_plan(d, now) :
              /\ effects_plan(d, now)[a] \in Instance
              /\ Enumerated(a, effects_plan(d, now)[a])
<1> DEFINE E == effects_plan(d, now)
<1>1. DOMAIN E \subseteq DOMAIN Effects[d]
  BY DEF effects_plan
<1>2. DOMAIN Effects[d] \subseteq Atom
  BY LifecycleAssumption
<1>3. ASSUME NEW a \in DOMAIN E
      PROVE  E[a] \in Instance /\ Enumerated(a, E[a])
  <2>1. a \in DOMAIN Effects[d] /\ a \in Atom
    BY <1>1, <1>2, <1>3
  <2>2. Effects[d][a] \in State
    BY <2>1, LifecycleAssumption
  <2>3. corpus[a] \in Instance
    BY <2>1 DEF LifecycleTypeOK
  <2>4. bump(corpus[a].version, Effects[d][a] = "ratified") \in Nat \X Nat
    BY <2>3, BumpTyped DEF Instance
  <2>5. E[a] = [corpus[a] EXCEPT !.state = Effects[d][a],
                   !.version = bump(corpus[a].version, Effects[d][a] = "ratified"),
                   !.at = now, !.authorized_by = d]
    BY <1>3 DEF effects_plan
  <2>6. E[a] \in Instance
    BY <2>2, <2>3, <2>4, <2>5 DEF Instance
  <2>7. E[a].state = Effects[d][a] /\ E[a].authorized_by = d
    BY <2>3, <2>5 DEF Instance
  <2> QED
    BY <2>1, <2>6, <2>7 DEF Enumerated
<1> QED
  BY <1>1, <1>2, <1>3

(* What a reconciliation plans is typed, active, and under the authority   *)
(* it had.                                                                 *)
LEMMA ReconcilePlanned ==
  ASSUME LifecycleTypeOK, NEW now \in Nat
  PROVE  /\ DOMAIN reconcile_plan(now) \subseteq Atom
         /\ \A a \in DOMAIN reconcile_plan(now) :
              /\ corpus[a].state = "ratified"
              /\ reconcile_plan(now)[a] \in Instance
              /\ reconcile_plan(now)[a].state = "active"
              /\ reconcile_plan(now)[a].at = now
              /\ reconcile_plan(now)[a].authorized_by = corpus[a].authorized_by
              /\ reconcile_plan(now)[a].content = corpus[a].content
<1> DEFINE R == reconcile_plan(now)
<1>1. DOMAIN R \subseteq Atom
  BY DEF reconcile_plan, activations
<1>2. ASSUME NEW a \in DOMAIN R
      PROVE  /\ corpus[a].state = "ratified"
             /\ R[a] \in Instance
             /\ R[a].state = "active" /\ R[a].at = now
             /\ R[a].authorized_by = corpus[a].authorized_by
             /\ R[a].content = corpus[a].content
  <2>1. a \in Atom /\ corpus[a].state = "ratified"
    BY <1>2 DEF reconcile_plan, activations
  <2>2. corpus[a] \in Instance
    BY <2>1 DEF LifecycleTypeOK
  <2>3. bump(corpus[a].version, FALSE) \in Nat \X Nat
    BY <2>2, BumpTyped DEF Instance
  <2>4. R[a] = [corpus[a] EXCEPT !.state = "active",
                   !.version = bump(corpus[a].version, FALSE),
                   !.at = now, !.author = "reconciler"]
    BY <1>2 DEF reconcile_plan
  <2>5. R[a] \in Instance
    BY <2>2, <2>3, <2>4 DEF Instance, State
  <2>6. /\ R[a].state = "active" /\ R[a].at = now
        /\ R[a].authorized_by = corpus[a].authorized_by
        /\ R[a].content = corpus[a].content
    BY <2>2, <2>4 DEF Instance
  <2> QED
    BY <2>1, <2>5, <2>6
<1> QED
  BY <1>1, <1>2

LEMMA TypedStep == LifecycleTypeOK /\ [LifecycleNext]_lifecycleVars => LifecycleTypeOK'
<1> SUFFICES ASSUME LifecycleTypeOK, [LifecycleNext]_lifecycleVars
             PROVE  LifecycleTypeOK'
  OBVIOUS
<1> USE DEF Idle
<1>1. clock + 1 \in Nat
  BY DEF LifecycleTypeOK
<1>2. ASSUME NEW d \in Decision, Ceremony(d) PROVE LifecycleTypeOK'
  BY <1>1, <1>2, EffectsPlanned DEF Ceremony, Starts, LifecycleTypeOK
<1>3. ASSUME Reconcile PROVE LifecycleTypeOK'
  BY <1>1, <1>3, ReconcilePlanned DEF Reconcile, Starts, LifecycleTypeOK
<1>4. ASSUME Rewrite PROVE LifecycleTypeOK'
  <2>1. PICK a \in NextToWrite :
          /\ corpus' = [corpus EXCEPT ![a] = plan[a]]
          /\ plan' = [b \in DOMAIN plan \ {a} |-> plan[b]]
          /\ UNCHANGED <<resolves, mode, clock>>
    BY <1>4 DEF Rewrite
  <2>2. a \in DOMAIN plan /\ a \in Atom /\ plan[a] \in Instance /\ mode # "idle"
    BY <2>1 DEF NextToWrite, LifecycleTypeOK, NoPlan
  <2>3. corpus' \in [Atom -> Instance]
    BY <2>1, <2>2 DEF LifecycleTypeOK
  <2>4. DOMAIN plan' \subseteq DOMAIN plan /\ \A b \in DOMAIN plan' : plan'[b] = plan[b]
    BY <2>1
  <2> QED
    BY <2>1, <2>2, <2>3, <2>4 DEF LifecycleTypeOK
<1>5. ASSUME Ends PROVE LifecycleTypeOK'
  <2>1. plan = NoPlan
    BY <1>5 DEF Ends, NoPlan
  <2> QED
    BY <1>5, <2>1 DEF Ends, LifecycleTypeOK, NoPlan
<1>6. ASSUME BreaksOff PROVE LifecycleTypeOK'
  BY <1>6 DEF BreaksOff, LifecycleTypeOK, NoPlan
<1>7. ASSUME CodeMoves PROVE LifecycleTypeOK'
  BY <1>7 DEF CodeMoves, LifecycleTypeOK
<1>8. CASE UNCHANGED lifecycleVars
  BY <1>8 DEF lifecycleVars, LifecycleTypeOK
<1> QED
  BY <1>2, <1>3, <1>4, <1>5, <1>6, <1>7, <1>8 DEF LifecycleNext, ToolStep

LEMMA AuthorityInvStep == AuthorityInv /\ [LifecycleNext]_lifecycleVars => AuthorityInv'
<1> SUFFICES ASSUME AuthorityInv, [LifecycleNext]_lifecycleVars
             PROVE  AuthorityInv'
  OBVIOUS
<1>0. LifecycleTypeOK /\ LifecycleTypeOK' /\ clock + 1 \in Nat
  BY TypedStep DEF AuthorityInv, LifecycleTypeOK
<1>1. ASSUME NEW d \in Decision, Ceremony(d) PROVE AuthorityInv'
  <2> DEFINE E == effects_plan(d, clock + 1)
  <2>1. \A a \in DOMAIN E : Enumerated(a, E[a])
    BY <1>0, EffectsPlanned
  <2>2. plan' = E /\ corpus' = corpus
    BY <1>1 DEF Ceremony, Starts
  <2> HIDE DEF E
  <2> QED
    BY <1>0, <2>1, <2>2 DEF AuthorityInv, Enumerated
<1>2. ASSUME Reconcile PROVE AuthorityInv'
  <2> DEFINE R == reconcile_plan(clock + 1)
  <2>1. DOMAIN R \subseteq Atom /\ \A a \in DOMAIN R : /\ corpus[a].state = "ratified"
                                                      /\ R[a].state = "active"
                                                      /\ R[a].authorized_by = corpus[a].authorized_by
    BY <1>0, ReconcilePlanned
  <2>2. plan' = R /\ corpus' = corpus
    BY <1>2 DEF Reconcile, Starts
  <2> HIDE DEF R
  <2>3. \A a \in DOMAIN R : Enumerated(a, R[a])
    BY <2>1 DEF AuthorityInv, Enumerated
  <2> QED
    BY <1>0, <2>2, <2>3 DEF AuthorityInv, Enumerated
<1>3. ASSUME Rewrite PROVE AuthorityInv'
  <2>1. PICK a \in NextToWrite :
          /\ corpus' = [corpus EXCEPT ![a] = plan[a]]
          /\ plan' = [b \in DOMAIN plan \ {a} |-> plan[b]]
    BY <1>3 DEF Rewrite
  <2>2. a \in DOMAIN plan /\ Enumerated(a, plan[a])
    BY <2>1 DEF NextToWrite, AuthorityInv
  <2>3. \A b \in Atom : corpus'[b] = IF b = a THEN plan[a] ELSE corpus[b]
    BY <1>0, <2>1 DEF LifecycleTypeOK
  <2>4. \A b \in DOMAIN plan' : b \in DOMAIN plan /\ plan'[b] = plan[b]
    BY <2>1
  <2>5. \A b \in Atom : Enumerated(b, corpus[b])'
    BY <2>2, <2>3 DEF AuthorityInv, Enumerated
  <2>6. \A b \in DOMAIN plan' : Enumerated(b, plan[b])'
    BY <2>4 DEF AuthorityInv, Enumerated
  <2> QED
    BY <1>0, <2>5, <2>6 DEF AuthorityInv
<1>4. ASSUME Ends \/ BreaksOff \/ CodeMoves \/ UNCHANGED lifecycleVars PROVE AuthorityInv'
  <2>1. corpus' = corpus /\ (plan' = plan \/ DOMAIN plan' = {})
    BY <1>4 DEF Ends, BreaksOff, CodeMoves, lifecycleVars, NoPlan
  <2> QED
    BY <1>0, <2>1 DEF AuthorityInv, Enumerated
<1> QED
  BY <1>1, <1>2, <1>3, <1>4 DEF LifecycleNext, ToolStep

-----------------------------------------------------------------------------
(* Type correctness of the ceremony tool and its corpus.                   *)
THEOREM LifecycleTyped == LifecycleSpec => []LifecycleTypeOK
<1>1. LifecycleInit => LifecycleTypeOK
  BY AuthorityInvInit DEF AuthorityInv
<1> QED
  BY <1>1, TypedStep, PTL DEF LifecycleSpec

(* No run of the tool, whole or broken off, leaves an atom past `proposed` *)
(* under an authority that did not enumerate its movement (D34).           *)
THEOREM SignatureAttestsItsEffects == LifecycleSpec => []AuthorityEnumeratedIt
<1>1. AuthorityInv => AuthorityEnumeratedIt
  BY DEF AuthorityInv, Enumerated, AuthorityEnumeratedIt
<1> QED
  BY AuthorityInvInit, AuthorityInvStep, <1>1, PTL DEF LifecycleSpec

-----------------------------------------------------------------------------
(* No decision takes a rule off the way to `active`, nor activates a claim *)
(* itself; the effects in the corpus ratify and deprecate specifications.  *)
RulesStay ==
  \A d \in Decision : \A a \in DOMAIN Effects[d] :
    /\ a \in Rule => Effects[d][a] \in Ordered
    /\ a \in Claim => Effects[d][a] # "active"

RulesInv ==
  /\ \A r \in Rule : corpus[r].state \in Ordered
  /\ \A r \in Rule \cap DOMAIN plan :
       plan[r].state \in Ordered /\ (corpus[r].state = "active" => plan[r].state = "active")

(* A rule is on its way for every claim that is. *)
RuleComes(c) ==
  \E r \in Rule :
    /\ Bound[r] = c
    /\ corpus[r].state = "active" \/ (r \in DOMAIN plan /\ plan[r].state = "active")

ClaimsInv ==
  \A c \in Claim \cap DOMAIN plan :
    plan[c].state = "active" => mode = "reconcile" /\ RuleComes(c)

BoundInv == AuthorityInv /\ RulesInv /\ ClaimsInv /\ NoDanglingClaim

LEMMA OrderedStates == Ordered = {"draft", "proposed", "ratified", "active"}
  BY DEF Ordered, STATE_ORDER

LEMMA NothingPassesActive ==
  ASSUME NEW want \in Ordered
  PROVE  Already("active", want)
<1>1. CASE want = "draft"
  BY <1>1 DEF Already, Ordered, STATE_ORDER
<1>2. CASE want = "proposed"
  BY <1>2 DEF Already, Ordered, STATE_ORDER
<1>3. CASE want = "ratified"
  BY <1>3 DEF Already, Ordered, STATE_ORDER
<1>4. CASE want = "active"
  BY <1>4 DEF Already, Ordered, STATE_ORDER
<1> QED
  BY <1>1, <1>2, <1>3, <1>4, OrderedStates

LEMMA BoundInvInit == LifecycleInit => BoundInv
<1> SUFFICES ASSUME LifecycleInit PROVE BoundInv
  OBVIOUS
<1>1. \A a \in Atom : corpus[a].state \in {"draft", "proposed"}
  BY DEF LifecycleInit
<1>2. DOMAIN plan = {}
  BY DEF LifecycleInit, NoPlan
<1>3. RulesInv
  BY <1>1, <1>2, OrderedStates DEF RulesInv, Atom
<1>4. ClaimsInv
  BY <1>2 DEF ClaimsInv
<1>5. NoDanglingClaim
  BY <1>1 DEF NoDanglingClaim, Atom
<1> QED
  BY <1>3, <1>4, <1>5, AuthorityInvInit DEF BoundInv

LEMMA BoundInvStep ==
  ASSUME RulesStay
  PROVE  BoundInv /\ [LifecycleNext]_lifecycleVars => BoundInv'
<1> SUFFICES ASSUME BoundInv, [LifecycleNext]_lifecycleVars
             PROVE  RulesInv' /\ ClaimsInv' /\ NoDanglingClaim'
  BY AuthorityInvStep DEF BoundInv
<1>0. clock + 1 \in Nat /\ LifecycleTypeOK
  BY DEF BoundInv, AuthorityInv, LifecycleTypeOK
<1>1. ASSUME NEW d \in Decision, Ceremony(d)
      PROVE  RulesInv' /\ ClaimsInv' /\ NoDanglingClaim'
  <2> DEFINE E == effects_plan(d, clock + 1)
  <2>1. \A a \in DOMAIN E :
          /\ a \in DOMAIN Effects[d]
          /\ a \in Atom
          /\ ~Already(corpus[a].state, Effects[d][a])
          /\ E[a].state = Effects[d][a]
    <3>1. \A a \in DOMAIN E : a \in DOMAIN Effects[d] /\ ~Already(corpus[a].state, Effects[d][a])
      BY DEF effects_plan
    <3>2. DOMAIN E \subseteq Atom
      BY <1>0, EffectsPlanned
    <3>3. \A a \in DOMAIN E : E[a].state = Effects[d][a]
      BY <1>0, <3>2 DEF effects_plan, LifecycleTypeOK, Instance
    <3> QED
      BY <3>1, <3>2, <3>3
  <2>2. plan' = E /\ corpus' = corpus
    BY <1>1 DEF Ceremony, Starts
  <2> HIDE DEF E
  <2>3. RulesInv'
    <3>1. \A r \in Rule \cap DOMAIN E : E[r].state \in Ordered /\ corpus[r].state # "active"
      BY <2>1, NothingPassesActive DEF RulesStay
    <3> QED
      BY <2>2, <3>1 DEF RulesInv, BoundInv
  <2>4. ClaimsInv'
    BY <2>1, <2>2 DEF ClaimsInv, RulesStay
  <2>5. NoDanglingClaim'
    BY <2>2 DEF BoundInv, NoDanglingClaim
  <2> QED
    BY <2>3, <2>4, <2>5
<1>2. ASSUME Reconcile
      PROVE  RulesInv' /\ ClaimsInv' /\ NoDanglingClaim'
  <2> DEFINE R == reconcile_plan(clock + 1)
  <2>1. DOMAIN R = activations /\ \A a \in DOMAIN R : R[a].state = "active"
    BY <1>0, ReconcilePlanned DEF reconcile_plan, BoundInv
  <2>2. plan' = R /\ corpus' = corpus /\ mode' = "reconcile"
    BY <1>2 DEF Reconcile, Starts
  <2> HIDE DEF R
  <2>3. RulesInv'
    BY <2>1, <2>2, OrderedStates DEF RulesInv, BoundInv
  <2>4. ASSUME NEW c \in Claim, c \in activations
        PROVE  \E r \in Rule :
                 /\ Bound[r] = c
                 /\ corpus[r].state = "active" \/ r \in activations
    <3>1. PICK r \in Rule : Bound[r] = c /\ corpus[r].state \in {"active", "ratified"}
      BY <2>4 DEF activations, Eligible, active_rule_claims
    <3>2. corpus[r].state = "ratified" => r \in activations
      BY LifecycleAssumption DEF activations, Eligible, Atom
    <3> QED
      BY <3>1, <3>2
  <2>5. ClaimsInv'
    BY <2>1, <2>2, <2>4 DEF ClaimsInv, RuleComes
  <2>6. NoDanglingClaim'
    BY <2>2 DEF BoundInv, NoDanglingClaim
  <2> QED
    BY <2>3, <2>5, <2>6
<1>3. ASSUME Rewrite
      PROVE  RulesInv' /\ ClaimsInv' /\ NoDanglingClaim'
  <2>1. PICK a \in NextToWrite :
          /\ corpus' = [corpus EXCEPT ![a] = plan[a]]
          /\ plan' = [b \in DOMAIN plan \ {a} |-> plan[b]]
          /\ mode' = mode
    BY <1>3 DEF Rewrite
  <2>2. a \in DOMAIN plan /\ a \in Atom
    BY <1>0, <2>1 DEF NextToWrite, LifecycleTypeOK
  <2>3. \A b \in Atom : corpus'[b] = IF b = a THEN plan[a] ELSE corpus[b]
    BY <1>0, <2>1 DEF LifecycleTypeOK
  <2>4. DOMAIN plan' = DOMAIN plan \ {a} /\ \A b \in DOMAIN plan' : plan'[b] = plan[b]
    BY <2>1
  <2>5. \A r \in Rule : r \in Atom
    BY DEF Atom
  <2>6. \A r \in Rule : corpus[r].state = "active" => corpus'[r].state = "active"
    BY <2>2, <2>3, <2>5 DEF BoundInv, RulesInv
  <2>7. RulesInv'
    BY <2>2, <2>3, <2>4, <2>5 DEF BoundInv, RulesInv
  <2>8. ClaimsInv'
    <3> SUFFICES ASSUME NEW c \in Claim, c \in DOMAIN plan', plan'[c].state = "active"
                 PROVE  mode' = "reconcile" /\ RuleComes(c)'
      BY DEF ClaimsInv
    <3>1. c \in DOMAIN plan /\ plan[c].state = "active"
      BY <2>4
    <3>2. mode = "reconcile" /\ RuleComes(c)
      BY <3>1 DEF BoundInv, ClaimsInv
    <3>3. PICK r \in Rule :
            /\ Bound[r] = c
            /\ corpus[r].state = "active" \/ (r \in DOMAIN plan /\ plan[r].state = "active")
      BY <3>2 DEF RuleComes
    <3>4. corpus'[r].state = "active" \/ (r \in DOMAIN plan' /\ plan'[r].state = "active")
      BY <2>3, <2>4, <2>5, <2>6, <3>3
    <3> QED
      BY <2>1, <3>2, <3>3, <3>4 DEF RuleComes
  <2>9. NoDanglingClaim'
    <3> SUFFICES ASSUME NEW c \in Claim, corpus'[c].state = "active",
                        \A r \in Rule : Bound[r] = c => Rank[r] < Rank[c]
                 PROVE  \E r \in Rule : Bound[r] = c /\ corpus'[r].state = "active"
      BY DEF NoDanglingClaim
    <3>0. c \in Atom
      BY DEF Atom
    <3>1. CASE c # a
      BY <2>3, <2>6, <3>0, <3>1 DEF BoundInv, NoDanglingClaim
    <3>2. CASE c = a
      <4>1. plan[c].state = "active"
        BY <2>3, <3>0, <3>2
      <4>2. mode = "reconcile" /\ RuleComes(c)
        BY <2>2, <3>2, <4>1 DEF BoundInv, ClaimsInv
      <4>3. PICK r \in Rule :
              /\ Bound[r] = c
              /\ corpus[r].state = "active" \/ (r \in DOMAIN plan /\ plan[r].state = "active")
        BY <4>2 DEF RuleComes
      <4>4. \A b \in DOMAIN plan : Rank[a] <= Rank[b]
        BY <2>1, <4>2 DEF NextToWrite
      <4>5. Rank[r] < Rank[c] /\ Rank[r] \in Nat /\ Rank[c] \in Nat
        BY <2>5, <3>0, <4>3, LifecycleAssumption
      <4>6. r \notin DOMAIN plan
        BY <3>2, <4>4, <4>5
      <4> QED
        BY <2>6, <4>3, <4>6
    <3> QED
      BY <3>1, <3>2
  <2> QED
    BY <2>7, <2>8, <2>9
<1>4. ASSUME Ends \/ BreaksOff
      PROVE  RulesInv' /\ ClaimsInv' /\ NoDanglingClaim'
  <2>1. DOMAIN plan' = {} /\ corpus' = corpus
    BY <1>4 DEF Ends, BreaksOff, NoPlan
  <2> QED
    BY <2>1 DEF BoundInv, RulesInv, ClaimsInv, NoDanglingClaim
<1>5. ASSUME CodeMoves \/ UNCHANGED lifecycleVars
      PROVE  RulesInv' /\ ClaimsInv' /\ NoDanglingClaim'
  <2>1. UNCHANGED <<corpus, plan, mode>>
    BY <1>5 DEF CodeMoves, lifecycleVars
  <2> QED
    BY <2>1 DEF BoundInv, RulesInv, ClaimsInv, NoDanglingClaim, RuleComes
<1> QED
  BY <1>1, <1>2, <1>3, <1>4, <1>5 DEF LifecycleNext, ToolStep

(* ONT-031 across broken-off runs: a claim whose rules sort before it is   *)
(* never active ahead of them.                                             *)
THEOREM ClaimsAreBound ==
  ASSUME RulesStay
  PROVE  LifecycleSpec => []NoDanglingClaim
<1>1. BoundInv => NoDanglingClaim
  BY DEF BoundInv
<1>2. BoundInv /\ [LifecycleNext]_lifecycleVars => BoundInv'
  BY BoundInvStep
<1> QED
  BY BoundInvInit, <1>1, <1>2, PTL DEF LifecycleSpec

-----------------------------------------------------------------------------
(* While a reconciliation writes, all it could still activate is planned.  *)
SettlesInv ==
  mode = "reconcile" =>
    /\ activations \subseteq DOMAIN plan
    /\ \A a \in DOMAIN plan : corpus[a].state = "ratified" /\ plan[a].state = "active"

LEMMA SettlesInvStep ==
  AuthorityInv /\ SettlesInv /\ [LifecycleNext]_lifecycleVars => SettlesInv'
<1> SUFFICES ASSUME AuthorityInv, SettlesInv, [LifecycleNext]_lifecycleVars
             PROVE  SettlesInv'
  OBVIOUS
<1>0. LifecycleTypeOK /\ clock + 1 \in Nat
  BY DEF AuthorityInv, LifecycleTypeOK
<1>1. ASSUME NEW d \in Decision, Ceremony(d) PROVE SettlesInv'
  BY <1>1 DEF Ceremony, Starts, SettlesInv
<1>2. ASSUME Reconcile PROVE SettlesInv'
  <2> DEFINE R == reconcile_plan(clock + 1)
  <2>1. DOMAIN R = activations /\ \A a \in DOMAIN R : R[a].state = "active"
    BY <1>0, ReconcilePlanned DEF reconcile_plan
  <2>2. plan' = R /\ corpus' = corpus /\ resolves' = resolves
    BY <1>2 DEF Reconcile, Starts
  <2> HIDE DEF R
  <2>3. activations' = activations
    BY <2>2 DEF activations, Eligible, active_rule_claims
  <2>4. \A a \in activations : corpus[a].state = "ratified"
    BY DEF activations
  <2> QED
    BY <2>1, <2>2, <2>3, <2>4 DEF SettlesInv
<1>3. ASSUME Rewrite, mode = "reconcile" PROVE SettlesInv'
  <2>1. PICK a \in NextToWrite :
          /\ corpus' = [corpus EXCEPT ![a] = plan[a]]
          /\ plan' = [b \in DOMAIN plan \ {a} |-> plan[b]]
          /\ UNCHANGED <<resolves, mode, clock>>
    BY <1>3 DEF Rewrite
  <2>2. a \in DOMAIN plan /\ a \in Atom
    BY <1>0, <2>1 DEF NextToWrite, LifecycleTypeOK
  <2>3. \A b \in Atom : corpus'[b] = IF b = a THEN plan[a] ELSE corpus[b]
    BY <1>0, <2>1 DEF LifecycleTypeOK
  <2>4. DOMAIN plan' = DOMAIN plan \ {a} /\ \A b \in DOMAIN plan' : plan'[b] = plan[b]
    BY <2>1
  <2>5. corpus[a].state = "ratified" /\ plan[a].state = "active"
    BY <1>3, <2>2 DEF SettlesInv
  <2>6. active_rule_claims' = active_rule_claims
    <3>1. \A r \in Rule : corpus'[r].state \in {"active", "ratified"}
                            <=> corpus[r].state \in {"active", "ratified"}
      BY <2>3, <2>5 DEF Atom
    <3> QED
      BY <3>1 DEF active_rule_claims
  <2>7. \A b \in activations' : b \in activations /\ b # a
    BY <2>1, <2>2, <2>3, <2>5, <2>6 DEF activations, Eligible
  <2> QED
    BY <1>0, <1>3, <2>3, <2>4, <2>7 DEF SettlesInv, LifecycleTypeOK
<1>4. ASSUME Rewrite, mode # "reconcile" PROVE SettlesInv'
  BY <1>4 DEF Rewrite, SettlesInv
<1>5. ASSUME Ends \/ BreaksOff PROVE SettlesInv'
  BY <1>5 DEF Ends, BreaksOff, SettlesInv
<1>6. ASSUME CodeMoves PROVE SettlesInv'
  BY <1>6 DEF CodeMoves, Idle, SettlesInv
<1>7. CASE UNCHANGED lifecycleVars
  BY <1>7 DEF lifecycleVars, SettlesInv, activations, Eligible, active_rule_claims
<1> QED
  BY <1>1, <1>2, <1>3, <1>4, <1>5, <1>6, <1>7 DEF LifecycleNext, ToolStep

(* A reconciliation that came to its end leaves the next one nothing to    *)
(* do, whatever binds what and in whatever order the files were written    *)
(* (reconcile_plan counts the rules it is about to activate).              *)
THEOREM OneRunSettles == LifecycleSpec => ReconcileSettles
<1>1. LifecycleInit => SettlesInv
  BY DEF LifecycleInit, SettlesInv
<1>2. SettlesInv /\ [LifecycleNext]_lifecycleVars
        => [mode = "reconcile" /\ Ends => activations' = {}]_lifecycleVars
  BY DEF SettlesInv, Ends, activations, Eligible, active_rule_claims
<1> QED
  BY AuthorityInvInit, AuthorityInvStep, SettlesInvStep, <1>1, <1>2, PTL
     DEF LifecycleSpec, ReconcileSettles

-----------------------------------------------------------------------------
(* What is committed, and what any commit held, is typed as the working    *)
(* tree is.                                                                *)
TreesOK ==
  /\ LifecycleTypeOK
  /\ committed \in [Atom -> Instance]
  /\ edits \in Nat
  /\ published \subseteq Atom \X Instance

(* No instance is of a moment to come, and what a run has yet to write is  *)
(* of this one.                                                            *)
MomentsInv ==
  /\ TreesOK
  /\ \A a \in Atom : committed[a].at <= clock /\ corpus[a].at <= clock
  /\ \A p \in published : p[2].at <= clock
  /\ \A a \in DOMAIN plan : plan[a].at = clock

LEMMA MomentsInit == Init => MomentsInv
<1> SUFFICES ASSUME Init PROVE MomentsInv
  OBVIOUS
<1>1. LifecycleTypeOK /\ corpus \in [Atom -> Instance]
  BY AuthorityInvInit DEF Init, AuthorityInv, LifecycleTypeOK
<1>2. \A a \in Atom : corpus[a].at = 0
  BY DEF Init, LifecycleInit
<1>3. clock = 0 /\ committed = corpus /\ DOMAIN plan = {} /\ edits = 0
  BY DEF Init, LifecycleInit, NoPlan
<1>4. \A p \in published : p \in Atom \X Instance /\ p[2] = corpus[p[1]]
  BY <1>1 DEF Init, InstancesIn
<1> QED
  BY <1>1, <1>2, <1>3, <1>4 DEF MomentsInv, TreesOK

LEMMA PlansAreOfNow ==
  ASSUME LifecycleTypeOK
  PROVE  /\ \A d \in Decision : \A a \in DOMAIN effects_plan(d, clock + 1) :
              effects_plan(d, clock + 1)[a].at = clock + 1
         /\ \A a \in DOMAIN reconcile_plan(clock + 1) :
              reconcile_plan(clock + 1)[a].at = clock + 1
<1>1. clock + 1 \in Nat
  BY DEF LifecycleTypeOK
<1>2. ASSUME NEW d \in Decision, NEW a \in DOMAIN effects_plan(d, clock + 1)
      PROVE  effects_plan(d, clock + 1)[a].at = clock + 1
  <2>1. a \in Atom
    BY <1>1, EffectsPlanned
  <2>2. corpus[a] \in Instance
    BY <2>1 DEF LifecycleTypeOK
  <2> QED
    BY <2>2 DEF effects_plan, Instance
<1> QED
  BY <1>1, <1>2, ReconcilePlanned

(* An edit by hand puts another instance in the place of one; it is of no  *)
(* moment to come, and it moves the state only under its author's name.    *)
LEMMA HandEdited ==
  ASSUME MomentsInv, NEW a \in Atom, HandEdits(a)
  PROVE  \E i \in Instance :
           /\ corpus' = [corpus EXCEPT ![a] = i]
           /\ i.at <= clock + 1
           /\ \/ i.author = "author"
              \/ i.author = corpus[a].author /\ i.state = corpus[a].state
<1> DEFINE known == {p[2] : p \in {q \in published : q[1] = a}}
           edited(s, v, t, w, z, c) ==
             [state |-> s, version |-> v, at |-> t, author |-> w, authorized_by |-> z,
              content |-> c]
<1>1. /\ corpus[a] \in Instance /\ clock \in Nat /\ edits \in Nat
      /\ corpus[a].at <= clock
  BY DEF MomentsInv, TreesOK, LifecycleTypeOK
<1>2. known \subseteq Instance /\ \A j \in known : j.at <= clock
  BY DEF MomentsInv, TreesOK
<1>3. PICK s \in State,
           v \in {corpus[a].version, bump(corpus[a].version, FALSE)} \cup {j.version : j \in known},
           t \in {corpus[a].at, clock + 1} \cup {j.at : j \in known},
           w \in {corpus[a].author, "author"},
           z \in Decision \cup {NoOne},
           c \in {corpus[a].content, edits + 1} :
        /\ w = "reconciler" => s = corpus[a].state
        /\ corpus' = [corpus EXCEPT ![a] = edited(s, v, t, w, z, c)]
  BY DEF HandEdits
<1> HIDE DEF known
<1>4. v \in Nat \X Nat
  <2>1. corpus[a].version \in Nat \X Nat /\ \A j \in known : j.version \in Nat \X Nat
    BY <1>1, <1>2 DEF Instance
  <2>2. bump(corpus[a].version, FALSE) \in Nat \X Nat
    BY <2>1, BumpTyped
  <2> QED
    BY <1>3, <2>1, <2>2
<1>5. t \in Nat /\ t <= clock + 1
  BY <1>1, <1>2, <1>3 DEF Instance
<1>6. w \in {"author", "reconciler"} /\ c \in Nat
  BY <1>1, <1>3 DEF Instance
<1>7. /\ edited(s, v, t, w, z, c) \in Instance
      /\ edited(s, v, t, w, z, c).state = s
      /\ edited(s, v, t, w, z, c).at = t
      /\ edited(s, v, t, w, z, c).author = w
  BY <1>3, <1>4, <1>5, <1>6 DEF Instance
<1> HIDE DEF edited
<1> QED
  BY <1>3, <1>5, <1>6, <1>7

LEMMA MomentsStep == MomentsInv /\ [Next]_vars => MomentsInv'
<1> SUFFICES ASSUME MomentsInv, [Next]_vars PROVE MomentsInv'
  OBVIOUS
<1>0. /\ TreesOK /\ LifecycleTypeOK /\ clock \in Nat
      /\ \A a \in Atom : corpus[a].at \in Nat /\ committed[a].at \in Nat
      /\ \A p \in published : p \in Atom \X Instance /\ p[2].at \in Nat
  BY DEF MomentsInv, TreesOK, LifecycleTypeOK, Instance
<1>1. ASSUME [LifecycleNext]_lifecycleVars, UNCHANGED <<committed, published, edits>>
      PROVE  MomentsInv'
  <2>1. TreesOK'
    BY <1>0, <1>1, TypedStep DEF TreesOK
  <2>2. CASE (\E d \in Decision : Ceremony(d)) \/ Reconcile
    <3>1. /\ clock' = clock + 1 /\ corpus' = corpus
          /\ \/ \E d \in Decision : plan' = effects_plan(d, clock + 1)
             \/ plan' = reconcile_plan(clock + 1)
      BY <2>2 DEF Ceremony, Reconcile, Starts
    <3>2. \A a \in DOMAIN plan' : plan'[a].at = clock'
      BY <1>0, <3>1, PlansAreOfNow
    <3>3. /\ \A a \in Atom : committed'[a].at <= clock' /\ corpus'[a].at <= clock'
          /\ \A p \in published' : p[2].at <= clock'
      BY <1>0, <1>1, <3>1 DEF MomentsInv
    <3> QED
      BY <2>1, <3>2, <3>3 DEF MomentsInv
  <2>3. CASE Rewrite
    <3>1. PICK a \in NextToWrite :
            /\ corpus' = [corpus EXCEPT ![a] = plan[a]]
            /\ plan' = [b \in DOMAIN plan \ {a} |-> plan[b]]
            /\ clock' = clock
      BY <2>3 DEF Rewrite
    <3>2. a \in DOMAIN plan /\ plan[a].at = clock
      BY <3>1 DEF NextToWrite, MomentsInv
    <3>3. \A b \in Atom : corpus'[b] = IF b = a THEN plan[a] ELSE corpus[b]
      BY <1>0, <3>1 DEF LifecycleTypeOK
    <3>4. \A b \in Atom : committed'[b].at <= clock' /\ corpus'[b].at <= clock'
      BY <1>0, <1>1, <3>1, <3>2, <3>3 DEF MomentsInv
    <3>5. \A b \in DOMAIN plan' : plan'[b].at = clock'
      BY <3>1 DEF MomentsInv
    <3>6. \A p \in published' : p[2].at <= clock'
      BY <1>1, <3>1 DEF MomentsInv
    <3> QED
      BY <2>1, <3>4, <3>5, <3>6 DEF MomentsInv
  <2>4. CASE Ends \/ BreaksOff \/ CodeMoves \/ UNCHANGED lifecycleVars
    <3>1. UNCHANGED <<corpus, clock>> /\ (plan' = plan \/ DOMAIN plan' = {})
      BY <2>4 DEF Ends, BreaksOff, CodeMoves, lifecycleVars, NoPlan
    <3> QED
      BY <1>1, <2>1, <3>1 DEF MomentsInv
  <2> QED
    BY <1>1, <2>2, <2>3, <2>4 DEF LifecycleNext, ToolStep
<1>2. ASSUME NEW a \in Atom, HandEdits(a) PROVE MomentsInv'
  <2>1. PICK i \in Instance : corpus' = [corpus EXCEPT ![a] = i] /\ i.at <= clock + 1
    BY <1>2, HandEdited
  <2>2. /\ clock' = clock + 1 /\ edits' = edits + 1
        /\ UNCHANGED <<resolves, mode, plan, committed, published>> /\ Idle
    BY <1>2 DEF HandEdits
  <2>3. corpus' \in [Atom -> Instance] /\ \A b \in Atom : corpus'[b] = IF b = a THEN i ELSE corpus[b]
    BY <1>0, <2>1 DEF LifecycleTypeOK
  <2>4. TreesOK'
    BY <1>0, <2>2, <2>3 DEF TreesOK, LifecycleTypeOK, Idle
  <2>5. \A b \in Atom : committed[b].at <= clock /\ corpus[b].at <= clock
    BY DEF MomentsInv
  <2>6. \A b \in Atom : committed'[b].at <= clock' /\ corpus'[b].at <= clock'
    BY <1>0, <2>1, <2>2, <2>3, <2>5
  <2>7. \A p \in published' : p[2].at <= clock'
    BY <1>0, <2>2 DEF MomentsInv
  <2>8. DOMAIN plan' = {}
    BY <1>0, <2>2 DEF LifecycleTypeOK, NoPlan
  <2> QED
    BY <2>4, <2>6, <2>7, <2>8 DEF MomentsInv
<1>3. ASSUME Commits PROVE MomentsInv'
  <2>1. /\ committed' = corpus /\ published' = published \cup InstancesIn(corpus)
        /\ UNCHANGED <<lifecycleVars, edits>>
    BY <1>3 DEF Commits
  <2>2. \A p \in InstancesIn(corpus) : p \in Atom \X Instance /\ p[2] = corpus[p[1]]
    BY <1>0 DEF InstancesIn, LifecycleTypeOK
  <2>3. UNCHANGED <<corpus, resolves, mode, plan, clock>>
    BY <2>1 DEF lifecycleVars
  <2>4. published' \subseteq Atom \X Instance /\ \A p \in published' : p[2].at <= clock'
    BY <2>1, <2>2, <2>3 DEF MomentsInv, TreesOK
  <2>5. LifecycleTypeOK' /\ committed' \in [Atom -> Instance]
    BY <1>0, <2>1, <2>3 DEF LifecycleTypeOK, Idle
  <2> QED
    BY <2>1, <2>3, <2>4, <2>5 DEF MomentsInv, TreesOK
<1>4. ASSUME Discards PROVE MomentsInv'
  <2>1. corpus' = committed /\ UNCHANGED <<resolves, mode, plan, clock, committed, published, edits>>
    BY <1>4 DEF Discards
  <2>2. LifecycleTypeOK'
    BY <1>0, <2>1 DEF TreesOK, LifecycleTypeOK, Idle
  <2> QED
    BY <2>1, <2>2 DEF MomentsInv, TreesOK
<1>5. \/ [LifecycleNext]_lifecycleVars /\ UNCHANGED <<committed, published, edits>>
      \/ (\E a \in Atom : HandEdits(a)) \/ Commits \/ Discards
  BY DEF Next, ToolWrites, LifecycleNext, publicationVars, vars
<1> QED
  BY <1>1, <1>2, <1>3, <1>4, <1>5

-----------------------------------------------------------------------------
(* The reconciler can come to activate a claim only when some rule binds   *)
(* it (ONT-060); what a decision takes off the way to `active` is a claim  *)
(* that no rule binds.  retirement_refused shows the gate refusing the     *)
(* tool's own act without this.                                            *)
Activable(a) == a \in Claim => \E r \in Rule : Bound[r] = a

RetiresTheUnbound ==
  \A d \in Decision : \A a \in DOMAIN Effects[d] :
    Effects[d][a] \in Ordered \/ ~Activable(a)

(* How an instance that is not the committed one differs from it.          *)
Later(i, j) == j.at < i.at
Signs(i) == i.author # "reconciler"
Decided(i) == i.authorized_by # NoOne
BySomeone(a, i) == Signs(i) \/ (i.state = "active" /\ Activable(a))

(* The reconciler stands behind activations alone, and a decision behind   *)
(* whatever the tool has yet to write.                                     *)
AuthorsInv ==
  /\ \A a \in Atom : BySomeone(a, corpus[a]) /\ BySomeone(a, committed[a])
  /\ \A a \in DOMAIN plan :
       /\ Decided(plan[a])
       /\ IF mode = "effects" THEN Signs(plan[a]) ELSE plan[a].state = "active" /\ Activable(a)

(* How far a tree may be from its commit, by what wrote to it since: by    *)
(* later acts that are signed, or by later transitions and nothing more.   *)
Newer(i, j) == Later(i, j) /\ Decided(i)
BySignedActs(tree) ==
  \A a \in Atom : tree[a] = committed[a] \/ (Newer(tree[a], committed[a]) /\ Signs(tree[a]))
ByTransitions(tree) ==
  \A a \in Atom : /\ tree[a] = committed[a] \/ Newer(tree[a], committed[a])
                  /\ ~ChangedBeyondLifecycle(tree[a], committed[a])

DistanceInv ==
  /\ wrote = {} => corpus = committed
  /\ wrote \subseteq {"effects"} => BySignedActs(corpus)
  /\ wrote \subseteq {"reconcile"} =>
       /\ ByTransitions(corpus)
       /\ mode = "reconcile" =>
            \A a \in DOMAIN plan : ~ChangedBeyondLifecycle(plan[a], committed[a])

ActInv ==
  /\ MomentsInv
  /\ ~Idle => \A a \in Atom : committed[a].at < clock
  /\ AuthorsInv
  /\ DistanceInv

LEMMA ActInit == Init => ActInv
<1> SUFFICES ASSUME Init PROVE ActInv
  OBVIOUS
<1>1. /\ corpus = committed /\ DOMAIN plan = {} /\ Idle
      /\ \A a \in Atom : corpus[a].author = "author"
  BY DEF Init, LifecycleInit, NoPlan, Idle
<1>2. AuthorsInv
  BY <1>1 DEF AuthorsInv, BySomeone, Signs
<1>3. DistanceInv
  BY <1>1 DEF DistanceInv, BySignedActs, ByTransitions, ChangedBeyondLifecycle
<1> QED
  BY <1>1, <1>2, <1>3, MomentsInit DEF ActInv

(* What a ceremony plans is signed: it leaves alone what the reconciler    *)
(* activated.                                                              *)
LEMMA CeremoniesSign ==
  ASSUME RetiresTheUnbound, LifecycleTypeOK, AuthorsInv, NEW d \in Decision
  PROVE  \A a \in DOMAIN effects_plan(d, clock + 1) :
           Signs(effects_plan(d, clock + 1)[a]) /\ Decided(effects_plan(d, clock + 1)[a])
<1> SUFFICES ASSUME NEW a \in DOMAIN effects_plan(d, clock + 1)
             PROVE  Signs(effects_plan(d, clock + 1)[a]) /\ Decided(effects_plan(d, clock + 1)[a])
  OBVIOUS
<1>1. a \in DOMAIN Effects[d] /\ ~Already(corpus[a].state, Effects[d][a])
  BY DEF effects_plan
<1>2. a \in Atom /\ corpus[a] \in Instance
  BY <1>1, LifecycleAssumption DEF LifecycleTypeOK
<1>3. Signs(corpus[a])
  <2>1. corpus[a].state = "active" => Effects[d][a] \notin Ordered
    BY <1>1, NothingPassesActive
  <2> QED
    BY <1>1, <1>2, <2>1 DEF AuthorsInv, BySomeone, RetiresTheUnbound
<1>4. /\ effects_plan(d, clock + 1)[a].author = corpus[a].author
      /\ effects_plan(d, clock + 1)[a].authorized_by = d
  BY <1>2 DEF effects_plan, Instance
<1> QED
  BY <1>3, <1>4, LifecycleAssumption DEF Signs, Decided

(* What a reconciliation plans is activable, decided, and says what the    *)
(* working tree says but for its lifecycle.                                *)
LEMMA ReconciliationsActivate ==
  ASSUME LifecycleTypeOK, Green
  PROVE  \A a \in DOMAIN reconcile_plan(clock + 1) :
           /\ a \in Atom
           /\ reconcile_plan(clock + 1)[a].state = "active"
           /\ Activable(a)
           /\ Decided(reconcile_plan(clock + 1)[a])
           /\ reconcile_plan(clock + 1)[a].content = corpus[a].content
           /\ reconcile_plan(clock + 1)[a].authorized_by = corpus[a].authorized_by
<1>1. ASSUME NEW a \in DOMAIN reconcile_plan(clock + 1)
      PROVE  a \in Atom /\ Activable(a)
  <2>1. a \in Atom /\ Eligible(a, active_rule_claims)
    BY <1>1 DEF reconcile_plan, activations
  <2> QED
    BY <2>1 DEF Eligible, Activable, active_rule_claims
<1>2. clock + 1 \in Nat
  BY DEF LifecycleTypeOK
<1> QED
  BY <1>1, <1>2, ReconcilePlanned DEF Green, Decided

(* A run begins: nothing is written yet. *)
LEMMA ActStarts ==
  ASSUME RetiresTheUnbound, ActInv, Green, MomentsInv', UNCHANGED <<corpus, committed, wrote>>,
         clock' = clock + 1,
         \/ mode' = "effects" /\ \E d \in Decision : plan' = effects_plan(d, clock + 1)
         \/ mode' = "reconcile" /\ plan' = reconcile_plan(clock + 1)
  PROVE  ActInv'
<1>1. /\ LifecycleTypeOK /\ clock \in Nat
      /\ \A a \in Atom : committed[a].at \in Nat /\ corpus[a].at \in Nat
      /\ \A a \in Atom : committed[a].at <= clock
  BY DEF ActInv, MomentsInv, TreesOK, LifecycleTypeOK, Instance
<1>2. \A a \in Atom : committed'[a].at < clock'
  BY <1>1
<1>3. AuthorsInv'
  <2>1. \A a \in Atom : BySomeone(a, corpus'[a]) /\ BySomeone(a, committed'[a])
    BY DEF ActInv, AuthorsInv
  <2>2. \A a \in DOMAIN plan' :
          /\ Decided(plan'[a])
          /\ IF mode' = "effects" THEN Signs(plan'[a]) ELSE plan'[a].state = "active" /\ Activable(a)
    BY <1>1, CeremoniesSign, ReconciliationsActivate DEF ActInv
  <2> QED
    BY <2>1, <2>2 DEF AuthorsInv, BySomeone, Signs, Decided
<1>4. DistanceInv'
  <2>1. /\ wrote' = {} => corpus' = committed'
        /\ wrote' \subseteq {"effects"} => BySignedActs(corpus)'
        /\ wrote' \subseteq {"reconcile"} => ByTransitions(corpus)'
    BY DEF ActInv, DistanceInv, BySignedActs, ByTransitions, Newer, Later, Decided, Signs,
        ChangedBeyondLifecycle
  <2>2. ASSUME wrote \subseteq {"reconcile"}, mode' = "reconcile", NEW a \in DOMAIN plan'
        PROVE  ~ChangedBeyondLifecycle(plan'[a], committed'[a])
    <3>1. /\ a \in Atom
          /\ plan'[a].content = corpus[a].content
          /\ plan'[a].authorized_by = corpus[a].authorized_by
      BY <1>1, <2>2, ReconciliationsActivate
    <3>2. ~ChangedBeyondLifecycle(corpus[a], committed[a])
      BY <2>2, <3>1 DEF ActInv, DistanceInv, ByTransitions
    <3> QED
      BY <3>1, <3>2 DEF ChangedBeyondLifecycle
  <2> QED
    BY <2>1, <2>2 DEF DistanceInv, ChangedBeyondLifecycle
<1> QED
  BY <1>2, <1>3, <1>4 DEF ActInv

(* A file is written: the act of its run. *)
LEMMA ActWrites ==
  ASSUME ActInv, MomentsInv', Rewrite, committed' = committed,
         wrote' = IF corpus' # corpus THEN wrote \cup {mode} ELSE wrote
  PROVE  ActInv'
<1>1. PICK a \in NextToWrite :
        /\ corpus' = [corpus EXCEPT ![a] = plan[a]]
        /\ plan' = [b \in DOMAIN plan \ {a} |-> plan[b]]
        /\ UNCHANGED <<resolves, mode, clock>>
  BY DEF Rewrite
<1>2. /\ LifecycleTypeOK /\ MomentsInv
      /\ a \in DOMAIN plan /\ a \in Atom
  BY <1>1 DEF NextToWrite, ActInv, MomentsInv, TreesOK, LifecycleTypeOK
<1>3. mode \in {"effects", "reconcile"}
  BY <1>2 DEF LifecycleTypeOK, NoPlan, Idle
<1>4. \A b \in Atom : corpus'[b] = IF b = a THEN plan[a] ELSE corpus[b]
  BY <1>1, <1>2 DEF LifecycleTypeOK
<1>5. \A b \in DOMAIN plan' : b \in DOMAIN plan /\ plan'[b] = plan[b]
  BY <1>1
<1>6. Newer(plan[a], committed[a])
  <2>1. Later(plan[a], committed[a])
    BY <1>2, <1>3 DEF ActInv, MomentsInv, Later, Idle
  <2> QED
    BY <1>2, <2>1 DEF ActInv, AuthorsInv, Newer
<1>7. AuthorsInv'
  <2>1. BySomeone(a, plan[a])
    BY <1>2 DEF ActInv, AuthorsInv, BySomeone
  <2>2. \A b \in Atom : BySomeone(b, corpus'[b]) /\ BySomeone(b, committed'[b])
    BY <1>4, <2>1 DEF ActInv, AuthorsInv
  <2>3. \A b \in DOMAIN plan' :
          /\ Decided(plan'[b])
          /\ IF mode' = "effects" THEN Signs(plan'[b]) ELSE plan'[b].state = "active" /\ Activable(b)
    BY <1>1, <1>5 DEF ActInv, AuthorsInv
  <2> QED
    BY <2>2, <2>3 DEF AuthorsInv, BySomeone, Signs, Decided
<1>8. CASE corpus' = corpus
  BY <1>1, <1>5, <1>7, <1>8
     DEF ActInv, DistanceInv, BySignedActs, ByTransitions, Newer, Later, Decided, Signs,
        ChangedBeyondLifecycle, Idle
<1>9. CASE corpus' # corpus
  <2>1. wrote' = wrote \cup {mode}
    BY <1>9
  <2>2. ASSUME wrote' \subseteq {"effects"} PROVE BySignedActs(corpus)'
    <3>1. mode = "effects" /\ BySignedActs(corpus)
      BY <1>3, <2>1, <2>2 DEF ActInv, DistanceInv
    <3>2. Signs(plan[a])
      BY <1>2, <3>1 DEF ActInv, AuthorsInv
    <3> QED
      BY <1>4, <1>6, <3>1, <3>2 DEF BySignedActs, Newer, Later, Decided, Signs
  <2>3. ASSUME wrote' \subseteq {"reconcile"}
        PROVE  /\ ByTransitions(corpus)'
               /\ \A b \in DOMAIN plan' : ~ChangedBeyondLifecycle(plan'[b], committed'[b])
    <3>1. /\ mode = "reconcile" /\ ByTransitions(corpus)
          /\ \A b \in DOMAIN plan : ~ChangedBeyondLifecycle(plan[b], committed[b])
      BY <1>3, <2>1, <2>3 DEF ActInv, DistanceInv
    <3> QED
      BY <1>2, <1>4, <1>5, <1>6, <3>1 DEF ByTransitions, Newer, Later, Decided, ChangedBeyondLifecycle
  <2>4. DistanceInv'
    BY <2>1, <2>2, <2>3 DEF DistanceInv, ChangedBeyondLifecycle
  <2>5. ~Idle' => \A b \in Atom : committed'[b].at < clock'
    BY <1>1 DEF ActInv, Idle
  <2> QED
    BY <1>7, <2>4, <2>5 DEF ActInv
<1> QED
  BY <1>8, <1>9

LEMMA ActStep ==
  ASSUME RetiresTheUnbound
  PROVE  ActInv /\ [Next]_vars => ActInv'
<1> SUFFICES ASSUME ActInv, [Next]_vars PROVE ActInv'
  OBVIOUS
<1>0. /\ MomentsInv' /\ LifecycleTypeOK /\ TreesOK
      /\ Idle => DOMAIN plan = {}
  <2>1. MomentsInv'
    BY MomentsStep DEF ActInv
  <2> QED
    BY <2>1 DEF ActInv, MomentsInv, TreesOK, LifecycleTypeOK, NoPlan
<1>1. ASSUME UNCHANGED <<corpus, committed, clock, wrote>>,
             \/ mode' = "idle" /\ DOMAIN plan' = {}
             \/ UNCHANGED <<mode, plan>>
      PROVE  ActInv'
  BY <1>0, <1>1
     DEF ActInv, AuthorsInv, BySomeone, DistanceInv, BySignedActs, ByTransitions, Newer, Later,
         Decided, Signs, ChangedBeyondLifecycle, Idle
<1>2. ASSUME ToolWrites PROVE ActInv'
  <2>1. /\ committed' = committed
        /\ wrote' = IF corpus' # corpus THEN wrote \cup {mode} ELSE wrote
    BY <1>2 DEF ToolWrites
  <2>2. CASE (\E d \in Decision : Ceremony(d)) \/ Reconcile
    BY <1>0, <2>1, <2>2, ActStarts DEF Ceremony, Reconcile, Starts
  <2>3. CASE Rewrite
    BY <1>0, <2>1, <2>3, ActWrites
  <2>4. CASE Ends \/ BreaksOff
    BY <1>1, <2>1, <2>4 DEF Ends, BreaksOff, NoPlan
  <2> QED
    BY <1>2, <2>2, <2>3, <2>4 DEF ToolWrites, ToolStep
<1>3. ASSUME NEW a \in Atom, HandEdits(a) PROVE ActInv'
  <2>1. PICK i \in Instance :
          /\ corpus' = [corpus EXCEPT ![a] = i]
          /\ \/ i.author = "author"
             \/ i.author = corpus[a].author /\ i.state = corpus[a].state
    BY <1>3, HandEdited DEF ActInv
  <2>2. /\ UNCHANGED <<mode, plan, committed>> /\ Idle
        /\ wrote' = wrote \cup {"hand"}
    BY <1>3 DEF HandEdits
  <2>3. \A b \in Atom : corpus'[b] = IF b = a THEN i ELSE corpus[b]
    BY <1>0, <2>1 DEF LifecycleTypeOK
  <2>4. BySomeone(a, i)
    BY <2>1 DEF ActInv, AuthorsInv, BySomeone, Signs
  <2>5. \A b \in Atom : BySomeone(b, corpus'[b]) /\ BySomeone(b, committed'[b])
    BY <2>2, <2>3, <2>4 DEF ActInv, AuthorsInv
  <2>6. AuthorsInv'
    BY <1>0, <2>2, <2>5 DEF AuthorsInv, BySomeone, Signs, Decided
  <2>7. DistanceInv'
    BY <2>2 DEF DistanceInv
  <2> QED
    BY <1>0, <2>2, <2>6, <2>7 DEF ActInv, Idle
<1>4. ASSUME corpus' = committed', UNCHANGED <<mode, plan>>, Idle, wrote' = {},
             committed' \in {corpus, committed}
      PROVE  ActInv'
  <2>1. AuthorsInv'
    BY <1>4 DEF ActInv, AuthorsInv, BySomeone, Signs, Decided
  <2>2. DistanceInv'
    BY <1>0, <1>4 DEF DistanceInv, BySignedActs, ByTransitions, ChangedBeyondLifecycle
  <2> QED
    BY <1>0, <1>4, <2>1, <2>2 DEF ActInv, Idle
<1>5. ASSUME Commits \/ Discards PROVE ActInv'
  BY <1>4, <1>5 DEF Commits, Discards, lifecycleVars
<1>6. ASSUME (CodeMoves /\ UNCHANGED publicationVars) \/ UNCHANGED vars PROVE ActInv'
  BY <1>1, <1>6 DEF CodeMoves, publicationVars, vars, lifecycleVars
<1> QED
  BY <1>2, <1>3, <1>5, <1>6 DEF Next

(* A ceremony's writes, or a reconciliation's, pass the gate they are      *)
(* merged through: whole, broken off, or run again, and for any number of  *)
(* decisions, on whatever tree the edits before the commit left, be they   *)
(* of forged authority or of an identity brought back.                     *)
THEOREM ActsPassTheGate ==
  ASSUME RetiresTheUnbound
  PROVE  Spec => []OneActPassesGate
<1>1. ActInv => OneActPassesGate
  <2> SUFFICES ASSUME ActInv, wrote \in {{}, {"effects"}, {"reconcile"}}, NEW a \in Atom
               PROVE  a \notin hop_findings
    BY PublicationAssumption
       DEF OneActPassesGate, hop_findings, EditedInPlace, provenance_findings,
           acceptance_edit_findings, Atom
  <2> USE DEF hop_findings, EditedInPlace, provenance_findings, acceptance_edit_findings
  <2>1. \A i : SameContent(i, i) /\ ~ChangedBeyondLifecycle(i, i)
    BY DEF SameContent, ChangedBeyondLifecycle
  <2>2. /\ corpus[a].at \in Nat /\ committed[a].at \in Nat
    BY DEF ActInv, MomentsInv, TreesOK, LifecycleTypeOK, Instance
  <2>3. CASE corpus[a] = committed[a]
    BY <2>1, <2>3
  <2>4. CASE Newer(corpus[a], committed[a]) /\ Signs(corpus[a])
    BY <2>2, <2>4 DEF Newer, Later, Decided, Signs, Identity
  <2>5. CASE /\ Newer(corpus[a], committed[a])
             /\ ~ChangedBeyondLifecycle(corpus[a], committed[a])
    BY <2>2, <2>5 DEF Newer, Later, Decided, Identity
  <2>6. BySignedActs(corpus) \/ ByTransitions(corpus)
    BY DEF ActInv, DistanceInv
  <2> QED
    BY <2>3, <2>4, <2>5, <2>6 DEF BySignedActs, ByTransitions
<1>2. ActInv /\ [Next]_vars => ActInv'
  BY ActStep
<1> QED
  BY ActInit, <1>1, <1>2, PTL DEF Spec
=============================================================================
