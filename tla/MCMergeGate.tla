---------------------------- MODULE MCMergeGate -----------------------------
(* An instance of MergeGate for TLC: the chains and envelopes of MCInbound; *)
(* two revisions of a branch, eight envelopes for the gate.                 *)
EXTENDS MCInbound, MergeGate

(* The session's own event about its context, and what it names. *)
own == [sent(minted_token(11, 1), 1, 0) EXCEPT !.leaf = 11, !.signer = 11]
Said(m, c, t) == [env |-> m, kind |-> TRUE, data |-> TRUE, commit |-> c, tree |-> t]

MCAttestations ==
  {Said(own, 1, 10), Said(own, 2, 20), Said(own, 2, 10),
   Said([own EXCEPT !.signer = 12], 1, 10),
   Said([own EXCEPT !.token = OfPeer({})], 2, 20),
   Said([own EXCEPT !.sender = "other"], 1, 10),
   [Said(own, 0, 0) EXCEPT !.data = FALSE], [Said(own, 0, 0) EXCEPT !.kind = FALSE]}
MCRevs == <<1, 2>>
MCBranch == 1 :> 1 @@ 2 :> 2
MCTreeOf == 1 :> 10 @@ 2 :> 20
=============================================================================
