------------------------------- MODULE Caveats ------------------------------
(***************************************************************************)
(* Act tokens, their caveats and the chain they hang in: what the verifier *)
(* looks at (platform/base/l0/chainverify.py).  A chain is the sequence of *)
(* chain.pub's nodes, a node's place in it stands for its id, and a parent *)
(* is a place in it, None, or a place that is not there.                   *)
(*                                                                         *)
(* Every value of a fact is a number; a literal is the set of its members, *)
(* a scalar the set of itself.  A list or an object where the code looks   *)
(* something up is Unhashable for a parent, "unhashable" for a fact or an  *)
(* op.  Keys are left out: a signature is whose it is, and None when what  *)
(* was signed has changed since.                                           *)
(***************************************************************************)
EXTENDS Integers, Sequences

CONSTANTS
  Prefix,   \* pairs <<a, b>> of values where b begins with a
  Within    \* pairs <<a, b>> of texts where a is somewhere in b

None == 0
Unhashable == -1

FACTS == {"now", "mint_time", "lease_age", "subject", "action", "resource", "audience",
          "use_count", "depth", "parent_id", "lease_id"}

OPS == {"=", "!=", "<", "<=", ">", ">=", "in", "prefix-of"}

Predicate ==
  [fact : STRING, op : STRING, literal : SUBSET Int, list : BOOLEAN]

(* The blocks of a token taken together: each is a conjunction, and all    *)
(* must hold.  Objects, and constructs of rules, are not well formed.      *)
CaveatSet == [wellFormed : BOOLEAN, predicates : SUBSET Predicate]

Token ==
  [leaf : Nat, parent : Nat \cup {Unhashable}, signer : Nat, minted : Int, caveats : CaveatSet]

(* held: whether the node has a lease, a token. *)
Lease == [held : BOOLEAN, issued : Int, bounded : BOOLEAN, ttl : Int, id : Nat]
Node == [parent : Nat, lease : Lease, granted : BOOLEAN, token : Token]

-----------------------------------------------------------------------------
(* A list equals no value of a fact, has no order and no beginning; what   *)
(* is "in" a text is any part of it.                                       *)
Compare(p, value) ==
  LET op == p.op IN
  \/ op = "!=" /\ (p.list \/ p.literal # {value})
  \/ op = "in" /\ p.list /\ value \in p.literal
  \/ op = "in" /\ ~p.list /\ \A l \in p.literal : <<value, l>> \in Within
  \/ /\ ~p.list
     /\ \/ op = "=" /\ p.literal = {value}
        \/ op = "<"  /\ \A l \in p.literal : value < l
        \/ op = "<=" /\ \A l \in p.literal : value <= l
        \/ op = ">"  /\ \A l \in p.literal : value > l
        \/ op = ">=" /\ \A l \in p.literal : value >= l
        \/ op = "prefix-of" /\ \A l \in p.literal : <<value, l>> \in Prefix

(* check_predicate: an unknown fact or op denies, and so does a fact that  *)
(* nobody supplied (ENT-094).                                              *)
check_predicate(p, facts) ==
  /\ p.fact \in FACTS /\ p.op \in OPS /\ p.fact \in DOMAIN facts
  /\ Compare(p, facts[p.fact])

verify_caveats(c, facts) ==
  c.wellFormed /\ \A p \in c.predicates : check_predicate(p, facts)

LeaseAge(lease, now) == now - lease.issued

(* lease_age_hours: raises unless the lease has a ttl and is within it.    *)
Fresh(lease, now) == lease.bounded /\ LeaseAge(lease, now) <= lease.ttl

(* verify_detached, with the key of the node at place n. *)
verify_detached(token, n) == token.signer = n

declares_audience(token) == \E p \in token.caveats.predicates : p.fact = "audience"

-----------------------------------------------------------------------------
Places(chain) == 1 .. Len(chain)
Leased(chain) == {n \in Places(chain) : chain[n].lease.held}

(* leases[0] *)
FirstLease(chain) ==
  chain[CHOOSE n \in Leased(chain) : \A m \in Leased(chain) : n <= m].lease

(* The facts of a walk: the caller's, and the walk's own over them.        *)
WalkFacts(chain, token, supplied, now) ==
  LET own == {"depth", "parent_id", "mint_time"}
               \cup (IF Leased(chain) = {} THEN {} ELSE {"lease_age", "lease_id"})
  IN [f \in DOMAIN supplied \cup own |->
        CASE f = "depth" -> Len(chain)
          [] f = "parent_id" -> token.parent
          [] f = "mint_time" -> token.minted
          [] f = "lease_age" /\ f \in own -> LeaseAge(FirstLease(chain), now)
          [] f = "lease_id" /\ f \in own -> FirstLease(chain).id
          [] OTHER -> supplied[f]]

(* What is asked of the chain alone: a root is a node without a parent, no *)
(* parent is missing, the first lease is good.                             *)
Stands(chain, now) ==
  /\ chain # <<>>
  /\ \E n \in Places(chain) : chain[n].parent = None
  /\ \A n \in Places(chain) : chain[n].parent \in Places(chain) \cup {None}
  /\ Leased(chain) # {} => Fresh(FirstLease(chain), now)

(* Before the walk starts: the chain stands, and the token is its parent's *)
(* grant to the leaf that presents it.                                     *)
Enters(chain, token, leaf, supplied, now) ==
  /\ Stands(chain, now)
  /\ token.parent \in Places(chain)
  /\ verify_detached(token, token.parent)
  /\ token.leaf = leaf
  /\ verify_caveats(token.caveats, WalkFacts(chain, token, supplied, now))

(* Defect form: the lease was looked at when the walk began.               *)
HopHoldsLeaseOnce(chain, n, facts, now) ==
  chain[n].granted =>
    /\ verify_caveats(chain[n].token.caveats, facts)
    /\ chain[n].token.parent # Unhashable
    /\ chain[n].token.parent \in Places(chain)
         => verify_detached(chain[n].token, chain[n].token.parent)

(* One hop of the walk. *)
HopHolds(chain, n, facts, now) ==
  /\ chain[n].lease.held => Fresh(chain[n].lease, now)
  /\ chain[n].granted =>
       /\ verify_caveats(chain[n].token.caveats, facts)
       /\ chain[n].token.parent # Unhashable
       /\ chain[n].token.parent \in Places(chain)
            => verify_detached(chain[n].token, chain[n].token.parent)

-----------------------------------------------------------------------------
(* What a walk has to establish, without walking: the way from the token's *)
(* parent is the least set of nodes that holds it and their parents.       *)
WayToRoot(chain, token) ==
  {n \in Places(chain) :
     \A S \in SUBSET Places(chain) :
       token.parent \in S /\ (\A m \in S : chain[m].parent \in S \cup {None}) => n \in S}

(* The token's caveats and those of every grant along the way.             *)
EffectiveCaveats(chain, token) ==
  {token.caveats} \cup {chain[n].token.caveats :
                         n \in {m \in WayToRoot(chain, token) : chain[m].granted}}

(* The grants along the way that name a parent the chain does not hold: no *)
(* key of the chain can tell who signed them.                              *)
Dangling(chain, token) ==
  {n \in WayToRoot(chain, token) :
     chain[n].granted /\ chain[n].token.parent \notin Places(chain) \cup {Unhashable}}

(* They hold together (ES-021, ENT-093); every lease along the way is good *)
(* (ENT-072); every grant, but those of the nodes spared, is signed by the *)
(* parent it names; the way ends at a root (ENT-002).                      *)
AuthorisedBut(chain, token, leaf, supplied, now, spared) ==
  LET way == WayToRoot(chain, token)
      facts == WalkFacts(chain, token, supplied, now)
  IN /\ Enters(chain, token, leaf, supplied, now)
     /\ \A c \in EffectiveCaveats(chain, token) : c.wellFormed
     /\ \A p \in UNION {c.predicates : c \in EffectiveCaveats(chain, token)} :
          check_predicate(p, facts)
     /\ \A n \in way : chain[n].lease.held => Fresh(chain[n].lease, now)
     /\ \A n \in way \ spared :
          chain[n].granted => /\ chain[n].token.parent \in Places(chain)
                              /\ verify_detached(chain[n].token, chain[n].token.parent)
     /\ \E n \in way : chain[n].parent = None

Authorised(chain, token, leaf, supplied, now) ==
  AuthorisedBut(chain, token, leaf, supplied, now, {})

(* walk(), by what it lets through: its loop passes over the signature of  *)
(* a dangling grant (Chain walks it hop by hop).                           *)
walk(chain, token, leaf, supplied, now) ==
  AuthorisedBut(chain, token, leaf, supplied, now, Dangling(chain, token))

(* Where a walk may come upon something it cannot look up, which raises    *)
(* and is no denial: the token's parent, a grant's, a fact or an op.       *)
Odd(c) == c.wellFormed /\ \E p \in c.predicates : "unhashable" \in {p.fact, p.op}

WalkMayRaise(chain, token, leaf, now) ==
  /\ Stands(chain, now)
  /\ \/ token.parent = Unhashable
     \/ /\ token.parent \in Places(chain) /\ verify_detached(token, token.parent)
        /\ token.leaf = leaf
        /\ \/ \E c \in EffectiveCaveats(chain, token) : Odd(c)
           \/ \E n \in WayToRoot(chain, token) :
                chain[n].granted /\ chain[n].token.parent = Unhashable
=============================================================================
