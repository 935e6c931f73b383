----------------------------- MODULE ChainProofs ----------------------------
(***************************************************************************)
(* The walk is right on every chain, whatever its length and shape.  The   *)
(* reference speaks of the way to the root, the loop of the nodes behind   *)
(* it: the invariant says that those are on the way, that each has held,   *)
(* and that their parents are behind the walk as well, or where it stands. *)
(***************************************************************************)
EXTENDS Chain, TLAPS

Way == WayToRoot(chain, token)

EnteredNow == Enters(chain, token, operation.leaf, Supplied(operation), now)

Walked ==
  verdict = "walking" =>
    /\ EnteredNow
    /\ at \in Way /\ seen \subseteq Way
    /\ token.parent \in seen \cup {at}
    /\ \A n \in seen :
         chain[n].parent \in (seen \cup {at}) \ {None} /\ HopHolds(chain, n, Facts, now)

(* What the loop looks at, and that its verdict is of it. *)
Walks == /\ walk(chain, token, operation.leaf, Supplied(operation), now)
         /\ operation.boot => declares_audience(token)

VerdictIsWalk ==
  /\ verdict = "accepted" => Walks
  /\ verdict = "denied" => ~Walks

ChainInv == ChainTypeOK /\ VerdictIsWalk /\ Walked

-----------------------------------------------------------------------------
(* The way lies within every set that holds its start and its parents.     *)
LEMMA WayIsLeast ==
  ASSUME NEW c, NEW t, NEW S \in SUBSET Places(c),
         t.parent \in S, \A m \in S : c[m].parent \in S \cup {None}
  PROVE  WayToRoot(c, t) \subseteq S
  BY DEF WayToRoot

(* It starts at the token's parent.                                        *)
LEMMA WayStarts ==
  ASSUME NEW c, NEW t, t.parent \in Places(c)
  PROVE  t.parent \in WayToRoot(c, t)
  BY DEF WayToRoot

(* And goes on to the parent of every node on it.                          *)
LEMMA WayGoesOn ==
  ASSUME NEW c, NEW t, NEW n \in WayToRoot(c, t),
         c[n].parent \in Places(c)
  PROVE  c[n].parent \in WayToRoot(c, t)
<1>1. ASSUME NEW S \in SUBSET Places(c),
             t.parent \in S, \A m \in S : c[m].parent \in S \cup {None}
      PROVE  c[n].parent \in S
  <2>1. n \in S
    BY <1>1, WayIsLeast
  <2>2. c[n].parent # None
    BY DEF Places, None
  <2> QED
    BY <1>1, <2>1, <2>2
<1> QED
  BY <1>1 DEF WayToRoot

(* The union of the caveats along the way holds when each node's do.       *)
LEMMA WalkByHops ==
  ASSUME NEW c, NEW t, NEW leaf, NEW supplied, NEW moment
  PROVE  walk(c, t, leaf, supplied, moment) <=>
           /\ Enters(c, t, leaf, supplied, moment)
           /\ \A n \in WayToRoot(c, t) :
                HopHolds(c, n, WalkFacts(c, t, supplied, moment), moment)
           /\ \E n \in WayToRoot(c, t) : c[n].parent = None
<1> DEFINE way == WayToRoot(c, t)
           facts == WalkFacts(c, t, supplied, moment)
           effective == EffectiveCaveats(c, t)
           Holds(s) == s.wellFormed /\ \A p \in s.predicates : check_predicate(p, facts)
<1>1. ((\A s \in effective : s.wellFormed)
        /\ \A p \in UNION {s.predicates : s \in effective} : check_predicate(p, facts))
      <=> \A s \in effective : Holds(s)
  OBVIOUS
<1>2. (\A s \in effective : Holds(s))
      <=> Holds(t.caveats) /\ \A n \in way : c[n].granted => Holds(c[n].token.caveats)
  BY DEF EffectiveCaveats
<1>3. Enters(c, t, leaf, supplied, moment) => Holds(t.caveats)
  BY DEF Enters, verify_caveats
<1>4. \A n \in way :
        HopHolds(c, n, facts, moment) <=>
          /\ c[n].lease.held => Fresh(c[n].lease, moment)
          /\ c[n].granted => Holds(c[n].token.caveats)
          /\ c[n].granted => c[n].token.parent # Unhashable
          /\ c[n].granted /\ c[n].token.parent \in Places(c)
               => verify_detached(c[n].token, c[n].token.parent)
  BY DEF HopHolds, verify_caveats
<1>5. (\A n \in way \ Dangling(c, t) :
         c[n].granted => /\ c[n].token.parent \in Places(c)
                         /\ verify_detached(c[n].token, c[n].token.parent))
      <=> \A n \in way :
            /\ c[n].granted => c[n].token.parent # Unhashable
            /\ c[n].granted /\ c[n].token.parent \in Places(c)
                 => verify_detached(c[n].token, c[n].token.parent)
  <2>1. Unhashable \notin Places(c)
    BY DEF Unhashable, Places
  <2> QED
    BY <2>1 DEF Dangling
<1> HIDE DEF Holds, effective, facts, way
<1> QED
  BY <1>1, <1>2, <1>3, <1>4, <1>5 DEF walk, AuthorisedBut, effective, facts, way

-----------------------------------------------------------------------------
LEMMA ChainInvInit == Init => ChainInv
<1> SUFFICES ASSUME Init PROVE ChainInv
  OBVIOUS
<1>1. operation \in Operations
  BY ChainAssumption DEF Init
<1> QED
  BY <1>1, ChainAssumption DEF Init, ChainInv, ChainTypeOK, VerdictIsWalk, Walked, Places

LEMMA PresentsKeeps ==
  ASSUME ChainInv, NEW o \in Operations, Presents(o)
  PROVE  ChainInv'
<1>1. /\ chain' = chain /\ token' = token /\ now' = now /\ operation' = o /\ seen' = {}
  BY DEF Presents
<1>2. CASE Enters(chain, token, o.leaf, Supplied(o), now)
  <2>1. at' = token.parent /\ verdict' = "walking"
    BY <1>2 DEF Presents
  <2>2. EnteredNow'
    BY <1>1, <1>2 DEF EnteredNow, Supplied
  <2>3. token.parent \in Places(chain)
    BY <1>2 DEF Enters
  <2>4. Walked'
    BY <1>1, <2>1, <2>2, <2>3, WayStarts DEF Walked, Way
  <2>5. ChainTypeOK'
    BY <1>1, <2>1, <2>3 DEF ChainInv, ChainTypeOK, Places, None
  <2> QED
    BY <2>1, <2>4, <2>5 DEF ChainInv, VerdictIsWalk
<1>3. CASE ~Enters(chain, token, o.leaf, Supplied(o), now)
  <2>1. at' = None /\ verdict' = "denied"
    BY <1>3 DEF Presents
  <2>2. ~walk(chain, token, o.leaf, Supplied(o), now)
    BY <1>3 DEF walk, AuthorisedBut
  <2>3. ~Walks'
    BY <1>1, <2>2 DEF Walks, Supplied
  <2>4. ChainTypeOK'
    BY <1>1, <2>1 DEF ChainInv, ChainTypeOK
  <2> QED
    BY <2>1, <2>3, <2>4 DEF ChainInv, VerdictIsWalk, Walked
<1> QED
  BY <1>2, <1>3

(* The walk stands still on a node it has seen: the nodes behind it are    *)
(* closed, so the way is among them, and none of them is a root.           *)
LEMMA CycleIsDenied ==
  ASSUME ChainInv, verdict = "walking", at \in seen
  PROVE  ~Walks
<1>1. /\ seen \in SUBSET Places(chain)
      /\ token.parent \in seen
      /\ \A n \in seen : chain[n].parent \in seen \ {None}
  BY DEF ChainInv, ChainTypeOK, Walked
<1>2. Way \subseteq seen
  BY <1>1, WayIsLeast DEF Way
<1>3. \A n \in Way : chain[n].parent # None
  BY <1>1, <1>2
<1> QED
  BY <1>3 DEF Walks, walk, AuthorisedBut, Way

(* The walk comes to a root: what is behind it now is closed.              *)
LEMMA RootIsReached ==
  ASSUME ChainInv, verdict = "walking",
         HopHolds(chain, at, Facts, now), chain[at].parent = None
  PROVE  walk(chain, token, operation.leaf, Supplied(operation), now)
<1> DEFINE S == seen \cup {at}
<1>1. at \in Way /\ EnteredNow
  BY DEF ChainInv, Walked
<1>2. S \in SUBSET Places(chain)
  BY DEF ChainInv, ChainTypeOK, Walked, Way, WayToRoot
<1>3. token.parent \in S /\ \A m \in S : chain[m].parent \in S \cup {None}
  BY DEF ChainInv, Walked
<1>4. Way \subseteq S
  <2> HIDE DEF S
  <2> QED
    BY <1>2, <1>3, WayIsLeast DEF Way
<1>5. \A n \in S : HopHolds(chain, n, Facts, now)
  BY DEF ChainInv, Walked
<1> HIDE DEF S
<1>6. \A n \in Way : HopHolds(chain, n, Facts, now)
  BY <1>4, <1>5
<1> QED
  BY <1>1, <1>6, WalkByHops DEF Way, EnteredNow, Facts

LEMMA HopsKeep ==
  ASSUME ChainInv, Hops
  PROVE  ChainInv'
<1>1. /\ chain' = chain /\ token' = token /\ now' = now /\ operation' = operation
      /\ seen' = seen \cup {at} /\ verdict = "walking"
  BY DEF Hops
<1>2. EnteredNow /\ at \in Way /\ seen \subseteq Way
  BY <1>1 DEF ChainInv, Walked
<1>3. at \in Places(chain) /\ seen' \subseteq Places(chain)
  BY <1>1, <1>2 DEF Way, WayToRoot
<1>4. Facts' = Facts /\ EnteredNow' = EnteredNow /\ Way' = Way /\ Walks' = Walks
  BY <1>1 DEF Facts, EnteredNow, Way, Walks, Supplied
<1>5. chain[at].parent \in Places(chain) \cup {None}
  BY <1>2, <1>3 DEF EnteredNow, Enters, Stands
<1>6. CASE at \in seen
  <2>1. verdict' = "denied" /\ at' = at
    BY <1>1, <1>6 DEF Hops
  <2>2. ~Walks
    BY <1>1, <1>6, CycleIsDenied
  <2>3. ChainTypeOK'
    BY <1>1, <1>3, <2>1 DEF ChainInv, ChainTypeOK
  <2> QED
    BY <1>4, <2>1, <2>2, <2>3 DEF ChainInv, VerdictIsWalk, Walked
<1>7. CASE ~HopHolds(chain, at, Facts, now)
  <2>1. verdict' = "denied" /\ at' = at
    BY <1>1, <1>7 DEF Hops
  <2>2. ~Walks
    BY <1>2, <1>7, WalkByHops DEF Walks, Facts, Way
  <2>3. ChainTypeOK'
    BY <1>1, <1>3, <2>1 DEF ChainInv, ChainTypeOK
  <2> QED
    BY <1>4, <2>1, <2>2, <2>3 DEF ChainInv, VerdictIsWalk, Walked
<1>8. CASE at \notin seen /\ HopHolds(chain, at, Facts, now) /\ chain[at].parent = None
  <2>1. at' = None /\ verdict' = Concludes
    BY <1>1, <1>8 DEF Hops
  <2>2. walk(chain, token, operation.leaf, Supplied(operation), now)
    BY <1>1, <1>8, RootIsReached
  <2>3. /\ verdict' \in {"accepted", "denied"}
        /\ verdict' = "accepted" => Walks
        /\ verdict' = "denied" => ~Walks
    <3>1. CASE operation.boot /\ ~declares_audience(token)
      BY <2>1, <2>2, <3>1 DEF Concludes, Walks
    <3>2. CASE ~(operation.boot /\ ~declares_audience(token))
      BY <2>1, <2>2, <3>2 DEF Concludes, Walks
    <3> QED
      BY <3>1, <3>2
  <2>4. ChainTypeOK'
    BY <1>1, <1>3, <2>1, <2>3 DEF ChainInv, ChainTypeOK
  <2> QED
    BY <1>4, <2>3, <2>4 DEF ChainInv, VerdictIsWalk, Walked
<1>9. CASE at \notin seen /\ HopHolds(chain, at, Facts, now) /\ chain[at].parent # None
  <2>1. at' = chain[at].parent /\ at' # None /\ verdict' = "walking"
    BY <1>1, <1>9 DEF Hops
  <2>2. at' \in Places(chain) /\ at' \in Way
    BY <1>2, <1>5, <2>1, WayGoesOn DEF Way
  <2>3. Walked'
    <3>1. \A n \in seen : chain[n].parent \in (seen \cup {at}) \ {None}
                            /\ HopHolds(chain, n, Facts, now)
      BY <1>1 DEF ChainInv, Walked
    <3>2. token.parent \in seen \cup {at}
      BY <1>1 DEF ChainInv, Walked
    <3>3. \A n \in seen' :
            chain[n].parent \in (seen' \cup {at'}) \ {None} /\ HopHolds(chain, n, Facts, now)
      BY <1>1, <1>9, <2>1, <3>1
    <3>4. (\A n \in seen :
             chain[n].parent \in (seen \cup {at}) \ {None} /\ HopHolds(chain, n, Facts, now))'
      BY <1>1, <1>4, <3>3
    <3> QED
      BY <1>1, <1>2, <1>4, <2>2, <3>2, <3>4 DEF Walked
  <2>4. ChainTypeOK'
    BY <1>1, <1>3, <2>1, <2>2 DEF ChainInv, ChainTypeOK
  <2> QED
    BY <2>1, <2>3, <2>4 DEF ChainInv, VerdictIsWalk
<1> QED
  BY <1>6, <1>7, <1>8, <1>9

LEMMA TimeKeeps ==
  ASSUME ChainInv, TimePasses
  PROVE  ChainInv'
<1>1. ChainTypeOK'
  BY DEF ChainInv, ChainTypeOK, TimePasses
<1> QED
  BY <1>1 DEF ChainInv, TimePasses, VerdictIsWalk, Walked

LEMMA ChainInvNext == ChainInv /\ [Next]_vars => ChainInv'
<1> SUFFICES ASSUME ChainInv, [Next]_vars PROVE ChainInv'
  OBVIOUS
<1>1. CASE \E o \in Operations : Presents(o)
  BY <1>1, PresentsKeeps
<1>2. CASE Hops
  BY <1>2, HopsKeep
<1>3. CASE TimePasses
  BY <1>3, TimeKeeps
<1>4. CASE UNCHANGED vars
  BY <1>4 DEF vars, ChainInv, ChainTypeOK, VerdictIsWalk, Walked, EnteredNow, Way, Walks,
              Facts, Supplied
<1> QED
  BY <1>1, <1>2, <1>3, <1>4 DEF Next

-----------------------------------------------------------------------------
(* Type correctness of the walk over any chains, tokens and operations.    *)
THEOREM ChainTyped == Spec => []ChainTypeOK
<1>1. ChainInv => ChainTypeOK
  BY DEF ChainInv
<1> QED
  BY <1>1, ChainInvInit, ChainInvNext, PTL DEF Spec

(* On a chain that holds every parent its grants name, what the loop looks *)
(* at is all there is.                                                     *)
LEMMA NothingIsSpared ==
  ASSUME Dangling(chain, token) = {}
  PROVE  DueBut(Dangling(chain, token)) <=> Due
  BY DEF Due

(* For every chain, of any length and shape, the loop of walk() accepts    *)
(* what the union of caveats, the leases and the signatures along the way  *)
(* to a root allow, and denies what they do not; a grant that names a      *)
(* parent the chain does not hold is the one whose signature it passes     *)
(* over, so it is exactly what is due where there is none.                 *)
THEOREM WalkIsRight == Spec => []VerdictIsDue
<1>1. ChainInv => VerdictIsDue
  BY NothingIsSpared DEF ChainInv, VerdictIsWalk, VerdictIsDue, Walks, DueBut, walk
<1> QED
  BY <1>1, ChainInvInit, ChainInvNext, PTL DEF Spec
=============================================================================
