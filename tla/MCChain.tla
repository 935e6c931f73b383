------------------------------- MODULE MCChain ------------------------------
(* Instances of Chain for TLC: every chain of up to two nodes over a few   *)
(* leases and grants, and of three nodes every shape, every choice of      *)
(* leases and every choice of grants.                                      *)
EXTENDS Chain, TLC

is(f, o, l) == [fact |-> f, op |-> o, literal |-> l, list |-> o = "in"]
all(P) == [wellFormed |-> TRUE, predicates |-> P]

(* What tokens ask: the audience, a lease younger than its ttl, use once,  *)
(* a depth, a list or a part of a text for the audience; an object for a   *)
(* block, a fact of no vocabulary and one that is a list.                  *)
Audience == all({is("audience", "=", {1}), is("lease_age", "<", {2})})
OldLease == all({is("lease_age", ">=", {1}), is("audience", "in", {1, 2})})
Once == all({is("use_count", "<", {1})})
Shallow == all({is("depth", "<=", {2})})
Unknown == all({is("kind", "=", {1})})
Listed == all({[is("audience", "=", {1}) EXCEPT !.list = TRUE]})
Part == all({[is("audience", "in", {2}) EXCEPT !.list = FALSE]})
List == all({is("unhashable", "=", {1})})
Object == [wellFormed |-> FALSE, predicates |-> {}]

tok(parent, signer, c) ==
  [leaf |-> 1, parent |-> parent, signer |-> signer, minted |-> 0, caveats |-> c]
Presented ==
  {tok(p, p, c) : p \in 1..2, c \in {Audience, OldLease, Once}}
    \cup {tok(1, 2, Audience), tok(4, 4, Audience), tok(1, 1, Object), tok(1, 1, Unknown),
           tok(1, 1, Listed), tok(1, 1, Part), tok(1, 1, List), tok(Unhashable, 1, Audience)}

lease(t) == [held |-> TRUE, issued |-> 0, bounded |-> TRUE, ttl |-> t, id |-> 1]
NoLease == [held |-> FALSE, issued |-> 0, bounded |-> TRUE, ttl |-> 0, id |-> 0]
Unbounded == [held |-> TRUE, issued |-> 0, bounded |-> FALSE, ttl |-> 0, id |-> 1]
MCLeases == {NoLease, lease(0), lease(2), Unbounded}
NoToken == tok(0, 0, all({}))

node(p, l, t) == [parent |-> p, lease |-> l, granted |-> t # NoToken, token |-> t]
Granted == {NoToken, tok(2, 2, Shallow), tok(2, 1, Shallow), tok(4, 1, Shallow),
            tok(2, 2, Object), tok(2, 2, OldLease), tok(Unhashable, 1, Shallow)}

Nodes(n) == {node(p, l, t) : p \in 0..(n + 1), l \in MCLeases, t \in Granted}
Line == <<2, 3, 0>>
MCChains ==
  {<<>>} \cup [1..1 -> Nodes(1)] \cup [1..2 -> {m \in Nodes(2) : m.parent < 3}]
    \cup {[n \in 1..3 |-> node(p[n], NoLease, NoToken)] : p \in [1..3 -> 0..4]}
    \cup {[n \in 1..3 |-> node(Line[n], l[n], NoToken)] : l \in [1..3 -> MCLeases]}
    \cup {[n \in 1..3 |-> node(Line[n], NoLease, t[n])] : t \in [1..3 -> Granted]}

boot(a) == [boot |-> TRUE, leaf |-> 1,
            facts |-> ("now" :> 0) @@ ("action" :> 1) @@ ("audience" :> a) @@ ("subject" :> 0)
                        @@ ("resource" :> 0) @@ ("use_count" :> 0)]
(* An envelope on acta.<citizen>.<context>.*, and on another subject. *)
acta(leaf) == [boot |-> FALSE, leaf |-> leaf,
               facts |-> ("now" :> 0) @@ ("action" :> 2) @@ ("audience" :> 1)
                           @@ ("subject" :> 1) @@ ("resource" :> 1)]
work == [boot |-> FALSE, leaf |-> 1,
         facts |-> ("now" :> 0) @@ ("action" :> 2) @@ ("subject" :> 2) @@ ("resource" :> 2)]
MCOperations == {boot(1), boot(2), acta(1), acta(2), work}
MCPrefix == {<<n, n>> : n \in 0..3}
MCWithin == MCPrefix \cup {<<1, 2>>}
=============================================================================
