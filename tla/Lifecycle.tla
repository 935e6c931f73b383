------------------------------ MODULE Lifecycle -----------------------------
(***************************************************************************)
(* The ceremony tool (platform/tools/enact.py) over a corpus: --decision   *)
(* applies one decision's effects, --reconcile activates what ONT-060 says *)
(* is complete.  A run plans from the corpus as it reads it and rewrites   *)
(* one atom's file after another; it may break off between two files.      *)
(*                                                                         *)
(* One run at a time: the tool is called by hand on one working tree.      *)
(* Decisions stand for their effects; their own instances are left out.    *)
(***************************************************************************)
EXTENDS Naturals, FiniteSets

CONSTANTS
  Claim, Rule, Control,   \* the atoms, by what activates them
  Bound,                  \* the claim each rule binds
  Rank,                   \* the order in which ids sort
  Decision,
  Effects,                \* per decision, the state each target is to reach
  NoOne,                  \* authorized_by: null
  MaxRuns                 \* bound: runs of the tool

Atom == Claim \cup Rule \cup Control
State == {"draft", "proposed", "ratified", "active", "rejected", "deprecated", "superseded"}

ASSUME LifecycleAssumption ==
  /\ Claim \cap Rule = {} /\ Claim \cap Control = {} /\ Rule \cap Control = {}
  /\ Bound \in [Rule -> Claim]
  /\ Rank \in [Atom -> Nat]
  /\ \A a, b \in Atom : Rank[a] = Rank[b] => a = b
  /\ \A d \in Decision :
       DOMAIN Effects[d] \subseteq Atom /\ \A a \in DOMAIN Effects[d] : Effects[d][a] \in State
  /\ NoOne \notin Decision
  /\ MaxRuns \in Nat

VARIABLES
  corpus,     \* the current instance of each atom, in the working tree
  resolves,   \* controls whose implementation is there
  mode,       \* what the tool is doing
  plan,       \* the instances it has yet to write
  clock       \* instants: a run's or an edit's instantiated_at

lifecycleVars == <<corpus, resolves, mode, plan, clock>>

NoPlan == [a \in {} |-> NoOne]
Idle == mode = "idle"

(* The last field stands for everything an instance says that no field     *)
(* before it holds.                                                        *)
Instance ==
  [state : State, version : Nat \X Nat, at : Nat, author : {"author", "reconciler"},
   authorized_by : Decision \cup {NoOne}, content : Nat]

LifecycleInit ==
  /\ corpus \in [Atom -> {[state |-> s, version |-> <<0, 1>>, at |-> 0, author |-> "author",
                           authorized_by |-> NoOne, content |-> 0] : s \in {"draft", "proposed"}}]
  /\ resolves \in SUBSET Control
  /\ mode = "idle"
  /\ plan = NoPlan
  /\ clock = 0

-----------------------------------------------------------------------------
STATE_ORDER == [draft |-> 0, proposed |-> 1, ratified |-> 2, active |-> 3]
Ordered == DOMAIN STATE_ORDER

(* major.minor; a first ratification takes 0.x to 1.0. *)
bump(v, first) == IF first /\ v[1] = 0 THEN <<1, 0>> ELSE <<v[1], v[2] + 1>>

(* effects_plan: the targets that still have somewhere to go.              *)
Already(here, want) ==
  here \in Ordered /\ want \in Ordered /\ STATE_ORDER[here] >= STATE_ORDER[want]

(* Defect form: the new instance keeps the moment of the old.              *)
effects_plan_undated(d, now) ==
  [a \in {x \in DOMAIN Effects[d] : ~Already(corpus[x].state, Effects[d][x])} |->
     [corpus[a] EXCEPT !.state = Effects[d][a],
                       !.version = bump(@, Effects[d][a] = "ratified"),
                       !.authorized_by = d]]

effects_plan(d, now) ==
  [a \in {x \in DOMAIN Effects[d] : ~Already(corpus[x].state, Effects[d][x])} |->
     [corpus[a] EXCEPT !.state = Effects[d][a],
                       !.version = bump(@, Effects[d][a] = "ratified"),
                       !.at = now, !.authorized_by = d]]

(* activation_eligible. *)
Eligible(a, bound) ==
  /\ a \in Claim => a \in bound
  /\ a \in Control => a \in resolves

(* Defect form: a rule binds its claim only once it is active.             *)
active_rule_claims_strict == {Bound[r] : r \in {x \in Rule : corpus[x].state = "active"}}

(* A rule this pass will activate counts already.                          *)
active_rule_claims ==
  {Bound[r] : r \in {x \in Rule : corpus[x].state \in {"active", "ratified"}}}

(* Defect form: whatever is eligible is activated, ratified or not.        *)
activations_of_any ==
  {a \in Atom : corpus[a].state \in {"proposed", "ratified"} /\ Eligible(a, active_rule_claims)}

activations ==
  {a \in Atom : corpus[a].state = "ratified" /\ Eligible(a, active_rule_claims)}

reconcile_plan(now) ==
  [a \in activations |->
     [corpus[a] EXCEPT !.state = "active", !.version = bump(@, FALSE), !.at = now,
                       !.author = "reconciler"]]

-----------------------------------------------------------------------------
(* lint's part in this: past `proposed` an instance says who authorised it. *)
Green ==
  \A a \in Atom : corpus[a].state \in {"ratified", "active", "deprecated", "superseded"}
                    => corpus[a].authorized_by # NoOne

(* main(): refuse a red corpus, then plan.                                 *)
Starts(m, p) ==
  /\ Idle /\ Green
  /\ clock < MaxRuns
  /\ clock' = clock + 1
  /\ mode' = m
  /\ plan' = p
  /\ UNCHANGED <<corpus, resolves>>

Ceremony(d) == Starts("effects", effects_plan(d, clock + 1))
Reconcile == Starts("reconcile", reconcile_plan(clock + 1))

(* Defect form: the activations are written in no order.                   *)
NextToWriteAny == DOMAIN plan

(* Effects come in the decision's order, whatever it is; activations in    *)
(* the order of their ids.                                                 *)
NextToWrite ==
  {a \in DOMAIN plan : mode = "reconcile" => \A b \in DOMAIN plan : Rank[a] <= Rank[b]}

(* rewrite: one file. *)
Rewrite ==
  \E a \in NextToWrite :
    /\ corpus' = [corpus EXCEPT ![a] = plan[a]]
    /\ plan' = [b \in DOMAIN plan \ {a} |-> plan[b]]
    /\ UNCHANGED <<resolves, mode, clock>>

Ends ==
  /\ mode # "idle" /\ DOMAIN plan = {}
  /\ mode' = "idle"
  /\ UNCHANGED <<corpus, resolves, plan, clock>>

BreaksOff ==
  /\ DOMAIN plan # {}
  /\ mode' = "idle"
  /\ plan' = NoPlan
  /\ UNCHANGED <<corpus, resolves, clock>>

(* Code lands or goes; the corpus does not notice.                         *)
CodeMoves ==
  /\ Idle
  /\ \E k \in Control : resolves' = IF k \in resolves THEN resolves \ {k} ELSE resolves \cup {k}
  /\ UNCHANGED <<corpus, mode, plan, clock>>

ToolStep == (\E d \in Decision : Ceremony(d)) \/ Reconcile \/ Rewrite \/ Ends \/ BreaksOff

LifecycleNext == ToolStep \/ CodeMoves
LifecycleSpec == LifecycleInit /\ [][LifecycleNext]_lifecycleVars

-----------------------------------------------------------------------------
LifecycleTypeOK ==
  /\ corpus \in [Atom -> Instance]
  /\ resolves \subseteq Control
  /\ mode \in {"idle", "effects", "reconcile"}
  /\ DOMAIN plan \subseteq Atom
  /\ \A a \in DOMAIN plan : plan[a] \in Instance
  /\ clock \in Nat
  /\ Idle => plan = NoPlan

(* D34, "a signature attests exactly its own effects": whoever an atom     *)
(* names as its authority enumerated the very movement that put it past    *)
(* `proposed`, also after the reconciler activated it and after any run    *)
(* broke off half-way.                                                     *)
AuthorityEnumeratedIt ==
  \A a \in Atom :
    LET i == corpus[a]
        moved == IF i.state = "active" THEN {"ratified", "active"} ELSE {i.state}
    IN i.state \notin {"draft", "proposed"} =>
         /\ i.authorized_by \in Decision
         /\ a \in DOMAIN Effects[i.authorized_by]
         /\ Effects[i.authorized_by][a] \in moved

(* ONT-031: while no decision takes a rule away, a claim is never active   *)
(* before a rule that binds it, even when a reconciliation breaks off.     *)
(* What keeps this is that RULE- sorts before SPEC-: it is claimed of the  *)
(* claims whose rules all come first.                                      *)
NoDanglingClaim ==
  \A c \in Claim :
    corpus[c].state = "active" /\ (\A r \in Rule : Bound[r] = c => Rank[r] < Rank[c])
      => \E r \in Rule : Bound[r] = c /\ corpus[r].state = "active"

(* "Otherwise reaching a stable state would take two runs" (reconcile_plan): *)
(* a reconciliation that came to its end leaves the next one nothing to do. *)
ReconcileSettles == [][mode = "reconcile" /\ Ends => activations' = {}]_lifecycleVars

-----------------------------------------------------------------------------
(* Statements of the repository that the code does not keep.               *)

(* enact.py:42 "Forward progress only (ONT-060 defines no backwards        *)
(* edge)".                                                                 *)
ForwardOnly ==
  [][\A a \in Atom :
       corpus[a].state \in {"rejected", "deprecated", "superseded"}
         => corpus'[a].state = corpus[a].state]_lifecycleVars

(* test_enact.py:175 "Re-running either mode must converge rather than     *)
(* bumping versions forever": a ceremony writes an instance only to move   *)
(* its atom.                                                               *)
CeremonyConverges ==
  [][\A a \in Atom :
       mode = "effects" /\ corpus'[a] # corpus[a]
         => corpus'[a].state # corpus[a].state]_lifecycleVars

(* DOC-0000:579 "proposed -> ratified | Decision atom with matching effects *)
(* entry", and draft -> proposed is the only edge out of draft.            *)
DraftIsSubmitted ==
  [][\A a \in Atom :
       corpus[a].state = "draft" => corpus'[a].state \in {"draft", "proposed"}]_lifecycleVars

(* DOC-0000:671-672 "ONT-060 activates a claim only when a rule binds it:  *)
(* jointly, dangling claims reads zero at every activation".               *)
DanglingReadsZero ==
  Idle => \A c \in Claim :
            corpus[c].state = "active"
              => \E r \in Rule : Bound[r] = c /\ corpus[r].state = "active"
=============================================================================
