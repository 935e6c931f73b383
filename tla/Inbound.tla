------------------------------ MODULE Inbound -------------------------------
(***************************************************************************)
(* What a citizen lets in: agentd.accept_inbound and envelope.verify       *)
(* (platform/base/l0), over the chain its boot verified and while its      *)
(* leases grow old.  accept_inbound has no await: one envelope is one      *)
(* step, and the walk in it is Chain's, by its verdict (walk).             *)
(***************************************************************************)
EXTENDS Caveats

CONSTANTS
  Chains, Tokens,   \* what the citizen may have been spawned with
  Leaf,             \* its leaf
  Context,          \* its L0_CONTEXT, and the audience of its token
  Envelopes,        \* what arrives
  Segments,         \* the words of a subject
  Acta,             \* the word acta
  Boot, Publish, Request, Deliver,   \* actions
  MaxNow,           \* bound: hours
  MaxArrivals       \* bound: envelopes

Subject == DOMAIN Segments

(* framed: a JSON object of version 1.  sender: an object, nothing, or     *)
(* something else.  signer: who signed the envelope as it is, or None.     *)
(* small: within ES-012.  carries: whether the act token is an object.     *)
Envelope ==
  [framed : BOOLEAN, sender : {"object", "none", "other"}, leaf : Nat, signer : Nat,
   small : BOOLEAN, carries : BOOLEAN, token : Token, subject : Subject \cup {None},
   sentAt : Int]

ASSUME InboundAssumption ==
  /\ Chains \subseteq Seq(Node) /\ Tokens \subseteq Token
  /\ Envelopes \subseteq Envelope
  /\ None \notin Subject /\ Subject \subseteq Int
  /\ \A s \in Subject : Segments[s] \in Seq(Int) /\ Segments[s] # <<>>
  /\ {Leaf, Context} \subseteq Nat /\ {Acta, Boot, Publish, Request, Deliver} \subseteq Int
  /\ MaxNow \in Nat /\ MaxArrivals \in Nat

VARIABLES
  chain,      \* ctx.chain
  now,        \* hours since the boot
  received,   \* envelopes that accept_inbound returned
  dropped,    \* dropped_unverified
  raised,     \* envelopes on which the subscription's callback raised
  last        \* the last of them, and what became of it

vars == <<chain, now, received, dropped, raised, last>>

-----------------------------------------------------------------------------
(* mint(): the chain of a lease over a persona over a root, and the token  *)
(* of a leaf under it.                                                     *)
is(f, o, l) == [fact |-> f, op |-> o, literal |-> l, list |-> o = "in"]
all(P) == [wellFormed |-> TRUE, predicates |-> P]
grant(leaf, parent, P) ==
  [leaf |-> leaf, parent |-> parent, signer |-> parent, minted |-> 0, caveats |-> all(P)]

minted_token(leaf, ttl) ==
  grant(leaf, 1, {is("audience", "=", {Context}), is("lease_age", "<", {ttl}),
                  is("action", "in", {Boot, Publish, Request, Deliver})})

minted_chain(ttl) ==
  LET none == [held |-> FALSE, issued |-> 0, bounded |-> TRUE, ttl |-> 0, id |-> 0]
      node(parent, lease, t) ==
        [parent |-> parent, lease |-> lease, granted |-> TRUE, token |-> t]
  IN <<node(2, [held |-> TRUE, issued |-> 0, bounded |-> TRUE, ttl |-> ttl, id |-> 1],
            grant(1, 2, {is("lease_age", "<", {ttl})})),
       node(3, none, grant(2, 3, {is("depth", "<=", {8})})),
       [node(None, none, grant(0, 0, {})) EXCEPT !.granted = FALSE]>>

(* verify_boot's facts. *)
BootFacts ==
  [f \in {"now", "action", "audience", "subject", "resource", "use_count"} |->
     CASE f = "action" -> Boot [] f = "audience" -> Context [] OTHER -> 0]

Init ==
  /\ chain \in Chains
  /\ \E t \in Tokens : walk(chain, t, Leaf, BootFacts, 0) /\ declares_audience(t)
  /\ now = 0
  /\ received = 0 /\ dropped = 0 /\ raised = 0
  /\ last = [outcome |-> "none"]

-----------------------------------------------------------------------------
(* acta.<citizen>.<context>.* *)
IsActa(s) == Len(Segments[s]) = 4 /\ Segments[s][1] = Acta

(* Defect form: the citizen's name is taken for the audience.              *)
op_facts_of_citizen(m) ==
  [f \in {"action", "now", "subject", "resource"}
           \cup (IF IsActa(m.subject) THEN {"audience"} ELSE {}) |->
     CASE f = "action" -> Deliver
       [] f = "now" -> m.sentAt
       [] f = "subject" -> m.subject
       [] f = "resource" -> Segments[m.subject][Len(Segments[m.subject])]
       [] f = "audience" -> Segments[m.subject][2]]

(* The facts of a delivery: the action is the caller's, the moment is the  *)
(* envelope's, the audience its subject's, if that has one.                *)
op_facts(m) ==
  [f \in {"action", "now", "subject", "resource"}
           \cup (IF IsActa(m.subject) THEN {"audience"} ELSE {}) |->
     CASE f = "action" -> Deliver
       [] f = "now" -> m.sentAt
       [] f = "subject" -> m.subject
       [] f = "resource" -> Segments[m.subject][Len(Segments[m.subject])]
       [] f = "audience" -> Segments[m.subject][3]]

(* ES-013 (1), what comes before it and up to the token. *)
Signed(m) == m.framed /\ m.sender = "object" /\ m.leaf # None /\ m.signer = m.leaf
Evaluable(m) == Signed(m) /\ m.small /\ m.carries

(* Defect form: leases are looked at as they were when it was sent.        *)
verify_as_sent(m) ==
  /\ Evaluable(m) /\ m.subject # None
  /\ walk(chain, m.token, m.leaf, op_facts(m), m.sentAt)

verify(m) ==
  /\ Evaluable(m) /\ m.subject # None
  /\ walk(chain, m.token, m.leaf, op_facts(m), now)

(* Neither a ValueError nor a VerificationError: a sender that is a value  *)
(* but no object, and a subject that is no text; or what the walk cannot   *)
(* look up, unless a denial comes first.                                   *)
Raises(m) == \/ m.framed /\ m.sender = "other"
             \/ Evaluable(m) /\ m.subject = None
             \/ Evaluable(m) /\ m.token.parent = Unhashable /\ Stands(chain, now)

MayRaise(m) == Evaluable(m) /\ m.subject # None /\ WalkMayRaise(chain, m.token, m.leaf, now)

Outcomes(m) == IF verify(m) THEN {"received"}
               ELSE IF Raises(m) THEN {"raised"}
               ELSE {"dropped"} \cup (IF MayRaise(m) THEN {"raised"} ELSE {})

(* accept_inbound(m) *)
Arrives(m) ==
  /\ received + dropped + raised < MaxArrivals
  /\ \E outcome \in Outcomes(m) :
       /\ received' = IF outcome = "received" THEN received + 1 ELSE received
       /\ dropped' = IF outcome = "dropped" THEN dropped + 1 ELSE dropped
       /\ raised' = IF outcome = "raised" THEN raised + 1 ELSE raised
       /\ last' = [outcome |-> outcome, envelope |-> m, at |-> now]
  /\ UNCHANGED <<chain, now>>

TimePasses ==
  /\ now < MaxNow
  /\ now' = now + 1
  /\ UNCHANGED <<chain, received, dropped, raised, last>>

Next == (\E m \in Envelopes : Arrives(m)) \/ TimePasses

Spec == Init /\ [][Next]_vars

-----------------------------------------------------------------------------
Last(m) == last.outcome # "none" /\ last.envelope = m

InboundTypeOK ==
  /\ chain \in Seq(Node)
  /\ now \in Nat
  /\ received \in Nat /\ dropped \in Nat /\ raised \in Nat
  /\ last = [outcome |-> "none"]
       \/ last \in [outcome : {"received", "dropped", "raised"}, envelope : Envelopes, at : Nat]
  /\ last.outcome = "none" <=> received + dropped + raised = 0

(* ENT-072/074, "an expired lease fails verification mesh-wide with no     *)
(* revocation event": from the hour the chain's lease lapses nothing more  *)
(* is received, whenever it was sent and however often it was received.    *)
LapsedChainIsSilent ==
  [][Leased(chain) # {} /\ ~Fresh(FirstLease(chain), now) => received' = received]_vars

(* ES-022: what a token or a grant above it says of the audience was held  *)
(* against the context in the envelope's own subject; an envelope whose    *)
(* subject has none is received only if nothing along the way asks.        *)
AudienceIsBound ==
  last.outcome = "received" =>
    LET m == last.envelope IN
    \A c \in EffectiveCaveats(chain, m.token) :
      \A p \in c.predicates :
        p.fact = "audience" => IsActa(m.subject)
                                 /\ Compare(p, Segments[m.subject][3])

(* The chain is as mint made it, and so is the token; the envelope is as   *)
(* publish() made it.                                                      *)
Conforming(m, ttl) ==
  /\ chain = minted_chain(ttl) /\ m.token = minted_token(m.leaf, ttl)
  /\ Evaluable(m) /\ m.subject # None

(* SPEC-0084, "every published envelope verifies": what a citizen of this  *)
(* chain publishes about this context is received until the lease's last   *)
(* hour, and not in it: the token says <, the lease <=.                    *)
PublishedVerifies ==
  last.outcome # "none" =>
    \A ttl \in 0..MaxNow :
      Conforming(last.envelope, ttl) /\ IsActa(last.envelope.subject)
        /\ Segments[last.envelope.subject][3] = Context
      => (last.outcome = "received" <=> last.at < ttl)

-----------------------------------------------------------------------------
(* Statements of the repository that the code does not keep.               *)

(* DOC-0004:76-77 "subscribe on work.story.<S>.assign", and envelope.py:84 *)
(* "for subjects that carry no context the caller supplies it": an         *)
(* assignment by a citizen of this chain and context is received.          *)
AssignmentIsReceived ==
  last.outcome # "none" =>
    \A ttl \in 0..MaxNow :
      Conforming(last.envelope, ttl) /\ ~IsActa(last.envelope.subject) /\ last.at < ttl
        => last.outcome = "received"

(* agentd.py:59 "an envelope failing verification is dropped, counted":    *)
(* every envelope that is not received is in dropped_unverified.           *)
DropsAreCounted == [][received' = received /\ last' # last => dropped' = dropped + 1]_vars
=============================================================================
