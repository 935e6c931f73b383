-------------------------------- MODULE Chain -------------------------------
(***************************************************************************)
(* The walk from a leaf to its root (platform/base/l0/chainverify.py, walk *)
(* and verify_boot), hop by hop, again and again while time passes.        *)
(***************************************************************************)
EXTENDS Caveats

CONSTANTS
  Chains, Tokens,   \* what may be presented
  Operations,       \* what it may be presented for: [boot, leaf, facts]
  MaxNow            \* bound: hours

ASSUME ChainAssumption ==
  /\ Chains \subseteq Seq(Node)
  /\ Tokens \subseteq Token
  /\ \A o \in Operations : o.boot \in BOOLEAN /\ o.leaf \in Nat
  /\ Operations # {} /\ MaxNow \in Nat

VARIABLES
  chain, token,   \* what is presented
  operation,      \* what for
  now,            \* the verifier's clock
  at,             \* the node the walk stands at
  seen,           \* the nodes behind it
  verdict         \* "none", "walking", "accepted", "denied" (or raised)

vars == <<chain, token, operation, now, at, seen, verdict>>

(* verify_boot takes `now` from its clock; an envelope brings it along.    *)
Supplied(o) == IF o.boot THEN [o.facts EXCEPT !["now"] = now] ELSE o.facts
Facts == WalkFacts(chain, token, Supplied(operation), now)

Init ==
  /\ chain \in Chains
  /\ token \in Tokens
  /\ operation = CHOOSE o \in Operations : TRUE
  /\ now = 0
  /\ at = None
  /\ seen = {}
  /\ verdict = "none"

(* walk() up to its loop. *)
Presents(o) ==
  /\ verdict = "none"
  /\ operation' = o
  /\ seen' = {}
  /\ IF Enters(chain, token, o.leaf, Supplied(o), now)
     THEN at' = token.parent /\ verdict' = "walking"
     ELSE at' = None /\ verdict' = "denied"
  /\ UNCHANGED <<chain, token, now>>

(* What follows the loop: verify_boot wants a token bound to an audience.  *)
Concludes == IF operation.boot /\ ~declares_audience(token) THEN "denied" ELSE "accepted"

(* Defect form: the walk does not remember where it has been.              *)
HopsForgetting ==
  /\ verdict = "walking"
  /\ seen' = {}
  /\ IF at \notin seen /\ HopHolds(chain, at, Facts, now)
     THEN /\ at' = chain[at].parent
          /\ verdict' = IF at' = None THEN Concludes ELSE "walking"
     ELSE verdict' = "denied" /\ UNCHANGED at
  /\ UNCHANGED <<chain, token, operation, now>>

(* One turn of the loop. *)
Hops ==
  /\ verdict = "walking"
  /\ seen' = seen \cup {at}
  /\ IF at \notin seen /\ HopHolds(chain, at, Facts, now)
     THEN /\ at' = chain[at].parent
          /\ verdict' = IF at' = None THEN Concludes ELSE "walking"
     ELSE verdict' = "denied" /\ UNCHANGED at
  /\ UNCHANGED <<chain, token, operation, now>>

(* An hour passes, and the same token is presented anew. *)
TimePasses ==
  /\ verdict \in {"accepted", "denied"} /\ now < MaxNow
  /\ now' = now + 1
  /\ at' = None /\ seen' = {} /\ verdict' = "none"
  /\ UNCHANGED <<chain, token, operation>>

Next == (\E o \in Operations : Presents(o)) \/ Hops \/ TimePasses

Spec == Init /\ [][Next]_vars

(* walk() is one call: nothing but its own loop can keep it from its end.  *)
FairSpec == Spec /\ WF_vars(Hops)

-----------------------------------------------------------------------------
ChainTypeOK ==
  /\ chain \in Seq(Node)
  /\ token \in Token
  /\ operation \in Operations
  /\ now \in Nat
  /\ at \in Places(chain) \cup {None}
  /\ seen \subseteq Places(chain)
  /\ verdict \in {"none", "walking", "accepted", "denied"}
  /\ verdict = "walking" => at # None

DueBut(spared) ==
  /\ AuthorisedBut(chain, token, operation.leaf, Supplied(operation), now, spared)
  /\ operation.boot => declares_audience(token)

Due == DueBut({})

(* The walk accepts what it should and nothing else: for any shape of a    *)
(* chain, cycles, second roots, stray leases and nodes off the way         *)
(* included, the loop's verdict is the one its way to the root demands     *)
(* (ENT-093, ENT-094), in all but the signatures of dangling grants.  On a *)
(* chain that holds every parent its grants name, that is all.             *)
VerdictIsDue ==
  /\ verdict = "accepted" => DueBut(Dangling(chain, token))
  /\ verdict = "accepted" /\ Dangling(chain, token) = {} => Due
  /\ verdict = "denied" => ~DueBut(Dangling(chain, token))

(* The walk ends on every chain (walk's `seen`). *)
WalkEnds == (verdict = "walking") ~> (verdict # "walking")

-----------------------------------------------------------------------------
(* Statements of the repository that the code does not keep.               *)

(* chainverify.py:127 "verifying each hop", and ENT-094's fail-closed      *)
(* evaluation: what is accepted has a verified signature on every grant of *)
(* its way.  A dangling grant has none (chainverify.py:184-186).           *)
EachHopIsVerified == verdict = "accepted" => Due
=============================================================================
