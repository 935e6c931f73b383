----------------------------- MODULE MCInbound ------------------------------
(* Instances of Inbound for TLC: a chain as mint makes it, for a lease of  *)
(* one hour and of two, one whose root alone stands above the leaf, and    *)
(* one with a second lease that lapses first.                              *)
EXTENDS Inbound, TLC

(* Subjects: acta of this context and of another, this story's assignment. *)
MCSegments == 1 :> <<1, 5, 6, 8>> @@ 2 :> <<1, 6, 7, 8>> @@ 3 :> <<2, 3, 6, 4>>
                @@ 4 :> <<1, 5, 6>>
MCPrefix == {<<n, n>> : n \in 0..8}
MCWithin == MCPrefix

TwoLeases == [minted_chain(2) EXCEPT ![2].lease = minted_chain(1)[1].lease]
Rooted == <<minted_chain(1)[3]>>
MCChains == {minted_chain(1), minted_chain(2), TwoLeases, Rooted}

(* Tokens of a peer under the same lease: mint's, one that asks for        *)
(* nothing, one of two audiences, one that expires, one to be used once,   *)
(* one of this citizen, one signed further up; one that names a list for a *)
(* fact, one that does for its parent, one that asks for a list.           *)
OfPeer(P) == grant(12, 1, P)
PeerTokens ==
  {minted_token(12, 1), minted_token(12, 2), minted_token(11, 2), OfPeer({}),
   OfPeer({is("audience", "in", {6, 7})}), OfPeer({is("now", "<=", {0})}),
   OfPeer({is("use_count", "<=", {1})}), [OfPeer({}) EXCEPT !.signer = 2],
   OfPeer({is("unhashable", "=", {1})}), [OfPeer({}) EXCEPT !.parent = Unhashable],
   OfPeer({[is("audience", "=", {6}) EXCEPT !.list = TRUE]})}
MCTokens == {minted_token(11, 1), minted_token(11, 2)}

sent(t, s, at) ==
  [framed |-> TRUE, sender |-> "object", leaf |-> 12, signer |-> 12, small |-> TRUE,
   carries |-> TRUE, token |-> t, subject |-> s, sentAt |-> at]
Own == {[sent(t, s, 0) EXCEPT !.leaf = 11, !.signer = 11] : t \in MCTokens, s \in 1..3}
Whole == {sent(t, s, at) : t \in PeerTokens, s \in 0..4, at \in 0..1}
Broken ==
  LET m == sent(OfPeer({}), 1, 0) IN
  {[m EXCEPT !.framed = FALSE], [m EXCEPT !.sender = "none"], [m EXCEPT !.sender = "other"],
   [m EXCEPT !.signer = 11], [m EXCEPT !.leaf = 0], [m EXCEPT !.small = FALSE],
   [m EXCEPT !.carries = FALSE], [m EXCEPT !.leaf = 11, !.signer = 11]}
MCEnvelopes == Whole \cup Own \cup Broken
=============================================================================
