--------------------------- MODULE InboundProofs ----------------------------
(***************************************************************************)
(* What a citizen and the merge gate let in, for any chain, any envelopes  *)
(* and any hours.                                                          *)
(***************************************************************************)
EXTENDS MergeGate, WellFoundedInduction, TLAPS

(* Every received envelope was authorised at the hour it came: what the    *)
(* invariants of single envelopes rest on.                                 *)
ReceivedWasAuthorised ==
  last.outcome = "received" =>
    /\ last.envelope.subject # None
    /\ walk(chain, last.envelope.token, last.envelope.leaf,
                  op_facts(last.envelope), last.at)

-----------------------------------------------------------------------------
LEMMA InboundTypedInit == Init => InboundTypeOK
  BY InboundAssumption DEF Init, InboundTypeOK

LEMMA InboundTypedNext == InboundTypeOK /\ [Next]_vars => InboundTypeOK'
<1> SUFFICES ASSUME InboundTypeOK, [Next]_vars PROVE InboundTypeOK'
  OBVIOUS
<1>1. ASSUME NEW m \in Envelopes, Arrives(m) PROVE InboundTypeOK'
  <2>1. PICK o \in Outcomes(m) :
          /\ received' = IF o = "received" THEN received + 1 ELSE received
          /\ dropped' = IF o = "dropped" THEN dropped + 1 ELSE dropped
          /\ raised' = IF o = "raised" THEN raised + 1 ELSE raised
          /\ last' = [outcome |-> o, envelope |-> m, at |-> now]
    BY <1>1 DEF Arrives
  <2>0. o \in {"received", "dropped", "raised"}
    BY DEF Outcomes
  <2>2. received' \in Nat /\ dropped' \in Nat /\ raised' \in Nat
    BY <2>1 DEF InboundTypeOK
  <2>3. received' + dropped' + raised' # 0
    BY <2>0, <2>1, <2>2 DEF InboundTypeOK
  <2>4. /\ last' \in [outcome : {"received", "dropped", "raised"}, envelope : Envelopes, at : Nat]
        /\ last'.outcome # "none"
    BY <2>0, <2>1 DEF InboundTypeOK
  <2>5. chain' = chain /\ now' = now
    BY <1>1 DEF Arrives
  <2> QED
    BY <2>2, <2>3, <2>4, <2>5 DEF InboundTypeOK
<1>2. CASE TimePasses
  BY <1>2 DEF TimePasses, InboundTypeOK
<1>3. CASE UNCHANGED vars
  BY <1>3 DEF vars, InboundTypeOK
<1> QED
  BY <1>1, <1>2, <1>3 DEF Next

(* Type correctness of what is let in, for any constants.                  *)
THEOREM InboundTyped == Spec => []InboundTypeOK
  BY InboundTypedInit, InboundTypedNext, PTL DEF Spec

-----------------------------------------------------------------------------
LEMMA NothingPastALapsedLease ==
  ASSUME NEW m, verify(m), Leased(chain) # {}
  PROVE  Fresh(FirstLease(chain), now)
  BY DEF verify, walk, AuthorisedBut, Enters, Stands

(* A lapsed chain lets nothing in, whatever arrives (LapsedChainIsSilent). *)
THEOREM LapsedIsSilent == Spec => LapsedChainIsSilent
<1>1. ASSUME InboundTypeOK, [Next]_vars,
             Leased(chain) # {}, ~Fresh(FirstLease(chain), now)
      PROVE  received' = received
  <2>1. ASSUME NEW m \in Envelopes, Arrives(m) PROVE received' = received
    <3>1. ~verify(m)
      BY <1>1, NothingPastALapsedLease
    <3>2. "received" \notin Outcomes(m)
      BY <3>1 DEF Outcomes
    <3> QED
      BY <2>1, <3>2 DEF Arrives
  <2> QED
    BY <1>1, <2>1 DEF Next, TimePasses, vars
<1> QED
  BY <1>1, InboundTyped, PTL DEF Spec, LapsedChainIsSilent

-----------------------------------------------------------------------------
LEMMA AuthorisedInit == Init => ReceivedWasAuthorised
  BY DEF Init, ReceivedWasAuthorised

LEMMA AuthorisedNext ==
  ReceivedWasAuthorised /\ [Next]_vars => ReceivedWasAuthorised'
<1> SUFFICES ASSUME ReceivedWasAuthorised, [Next]_vars PROVE ReceivedWasAuthorised'
  OBVIOUS
<1>1. ASSUME NEW m \in Envelopes, Arrives(m) PROVE ReceivedWasAuthorised'
  <2>1. /\ chain' = chain
        /\ last'.outcome \in Outcomes(m) /\ last'.envelope = m /\ last'.at = now
    BY <1>1 DEF Arrives
  <2>2. "received" \in Outcomes(m) =>
          m.subject # None /\ walk(chain, m.token, m.leaf, op_facts(m), now)
    BY DEF Outcomes, verify
  <2>3. last'.outcome = "received" =>
          /\ last'.envelope.subject # None
          /\ walk(chain', last'.envelope.token, last'.envelope.leaf,
                        op_facts(last'.envelope), last'.at)
    BY <2>1, <2>2
  <2> QED
    BY <2>3 DEF ReceivedWasAuthorised, op_facts, IsActa
<1>2. CASE TimePasses \/ UNCHANGED vars
  BY <1>2 DEF TimePasses, vars, ReceivedWasAuthorised
<1> QED
  BY <1>1, <1>2 DEF Next

(* A predicate on the audience holds only where the subject has one, and   *)
(* then of that one: the walk's own facts do not touch it.                 *)
LEMMA AudienceOfSubject ==
  ASSUME NEW c, NEW m, NEW moment, NEW p, p.fact = "audience",
         check_predicate(p, WalkFacts(c, m.token, op_facts(m), moment))
  PROVE  IsActa(m.subject) /\ Compare(p, Segments[m.subject][3])
<1> DEFINE facts == WalkFacts(c, m.token, op_facts(m), moment)
<1>1. "audience" \in DOMAIN facts
  BY DEF check_predicate
<1>2. "audience" \in DOMAIN op_facts(m)
  BY <1>1 DEF WalkFacts
<1>3. IsActa(m.subject)
  BY <1>2 DEF op_facts
<1>4. facts["audience"] = op_facts(m)["audience"]
  BY <1>1 DEF WalkFacts
<1>5. op_facts(m)["audience"] = Segments[m.subject][3]
  BY <1>2 DEF op_facts
<1>6. Compare(p, facts["audience"])
  BY DEF check_predicate
<1> QED
  BY <1>3, <1>4, <1>5, <1>6

(* No envelope gets in under an audience that is not its subject's.        *)
THEOREM AudienceHeld == Spec => []AudienceIsBound
<1>1. ReceivedWasAuthorised => AudienceIsBound
  <2> SUFFICES ASSUME ReceivedWasAuthorised, last.outcome = "received",
                      NEW c \in EffectiveCaveats(chain, last.envelope.token),
                      NEW p \in c.predicates, p.fact = "audience"
               PROVE  /\ IsActa(last.envelope.subject)
                      /\ Compare(p, Segments[last.envelope.subject][3])
    BY DEF AudienceIsBound
  <2>1. check_predicate(p, WalkFacts(chain, last.envelope.token,
                                     op_facts(last.envelope), last.at))
    BY DEF ReceivedWasAuthorised, walk, AuthorisedBut
  <2> QED
    BY <2>1, AudienceOfSubject
<1> QED
  BY <1>1, AuthorisedInit, AuthorisedNext, PTL DEF Spec

-----------------------------------------------------------------------------
(* The gate holds the chain as a citizen does, so what is proved of every  *)
(* behaviour of Inbound is true of the gate's.                             *)
THEOREM GateKeepsTheChain == GateSpec => Spec
<1>1. GateInit => Init
  BY DEF GateInit
<1>2. [GateNext]_allVars => [Next]_vars
  BY DEF GateNext, Next, allVars
<1> QED
  BY <1>1, <1>2, PTL DEF GateSpec, Spec

(* What the gate's own variables hold. *)
Verdict == [commit : Commits, ok : BOOLEAN, at : Nat]

GateTyped ==
  /\ wire \in Seq(Attestations)
  /\ read \in Nat /\ read <= Len(wire)
  /\ head \in [Known -> Commits \cup {None}]
  /\ verdicts \in Seq(Verdict)

(* A verdict that passed, held against a wire. *)
Grounded(v) ==
  v.ok => /\ \E k \in DOMAIN wire : Attests(wire[k], v.commit, v.at)
          /\ Leased(chain) # {} => Fresh(FirstLease(chain), v.at)

GroundedAll == \A i \in DOMAIN verdicts : Grounded(verdicts[i])

GreenIsWhole ==
  gated = "green" => Len(verdicts) = Len(Revs) /\ \A i \in DOMAIN verdicts : verdicts[i].ok

GateInv == InboundTypeOK /\ GateTyped /\ GroundedAll /\ GreenIsWhole

LEMMA GateInvInit == GateInit => GateInv
<1> SUFFICES ASSUME GateInit PROVE GateInv
  OBVIOUS
<1>1. InboundTypeOK
  BY InboundTypedInit DEF GateInit
<1>2. GateTyped
  BY MergeAssumption DEF GateInit, GateTyped, Known
<1>3. GroundedAll /\ GreenIsWhole
  BY DEF GateInit, GroundedAll, GreenIsWhole
<1> QED
  BY <1>1, <1>2, <1>3 DEF GateInv

(* What the gate admits is on the wire, and no lease of its chain has      *)
(* lapsed at that hour.                                                    *)
LEMMA AdmittedIsGrounded ==
  ASSUME GateTyped, NEW c \in Commits, Admits(c)
  PROVE  /\ \E k \in DOMAIN wire : Attests(wire[k], c, now)
         /\ Leased(chain) # {} => Fresh(FirstLease(chain), now)
<1>1. PICK a \in attested(c) : Verified(a.env) /\ a.tree = TreeOf[c]
  BY DEF Admits
<1>2. PICK k \in Naming(c) : a = wire[k]
  BY DEF attested
<1>3. k \in DOMAIN wire /\ wire[k].kind /\ wire[k].commit = c
  BY <1>2 DEF Naming, GateTyped
<1>4. Attests(wire[k], c, now)
  BY <1>1, <1>2, <1>3 DEF Attests, Verified
<1>5. Leased(chain) # {} => Fresh(FirstLease(chain), now)
  BY <1>1 DEF Verified, walk, AuthorisedBut, Enters, Stands
<1> QED
  BY <1>3, <1>4, <1>5

(* One verdict stays grounded while the wire and the chain are as they were. *)
LEMMA GroundedKept ==
  ASSUME NEW CONSTANT v, wire' = wire, chain' = chain, Grounded(v)
  PROVE  Grounded(v)'
<1> SUFFICES ASSUME v.ok
             PROVE  /\ \E k \in DOMAIN wire' : Attests(wire[k], v.commit, v.at)'
                    /\ Leased(chain') # {} => Fresh(FirstLease(chain'), v.at)
  BY DEF Grounded
<1>1. PICK k \in DOMAIN wire : Attests(wire[k], v.commit, v.at)
  BY DEF Grounded
<1>2. k \in DOMAIN wire' /\ wire'[k] = wire[k]
  OBVIOUS
<1>3. Attests(wire[k], v.commit, v.at)'
  BY <1>1, <1>2 DEF Attests, publish_facts, op_facts, IsActa
<1>4. Leased(chain') # {} => Fresh(FirstLease(chain'), v.at)
  BY DEF Grounded
<1> QED
  BY <1>2, <1>3, <1>4

(* A verdict stays grounded while the wire only grows. *)
LEMMA GroundedStays ==
  ASSUME GroundedAll, chain' = chain, verdicts' = verdicts,
         DOMAIN wire \subseteq DOMAIN wire', \A k \in DOMAIN wire : wire'[k] = wire[k]
  PROVE  GroundedAll'
<1> SUFFICES ASSUME NEW i \in DOMAIN verdicts, verdicts[i].ok
             PROVE  Grounded(verdicts[i])'
  BY DEF GroundedAll, Grounded
<1> DEFINE v == verdicts[i]
<1>1. PICK k \in DOMAIN wire : Attests(wire[k], v.commit, v.at)
  BY DEF GroundedAll, Grounded
<1>2. k \in DOMAIN wire' /\ Attests(wire[k], v.commit, v.at)'
  BY <1>1 DEF Attests, publish_facts, op_facts, IsActa
<1> QED
  BY <1>1, <1>2 DEF GroundedAll, Grounded

LEMMA SeenKeepsInv ==
  ASSUME GateInv, NEW a \in Attestations, Seen(a), UNCHANGED vars PROVE GateInv'
<1>1. /\ GateTyped'
      /\ DOMAIN wire \subseteq DOMAIN wire'
      /\ \A k \in DOMAIN wire : wire'[k] = wire[k]
  BY DEF GateInv, GateTyped, Seen
<1>2. GroundedAll'
  BY <1>1, GroundedStays DEF GateInv, Seen, vars
<1> QED
  BY <1>1, <1>2 DEF GateInv, GreenIsWhole, InboundTypeOK, Seen, vars

LEMMA ChecksKeepsInv ==
  ASSUME GateInv, Checks, UNCHANGED vars PROVE GateInv'
<1> DEFINE n == Len(verdicts) + 1
           c == head[Revs[n]]
           v == [commit |-> c, ok |-> Admits(c), at |-> now]
<1>1. c \in Commits \cup {None}
  <2>1. n \in DOMAIN Revs
    BY MergeAssumption DEF Checks, GateInv, GateTyped
  <2> QED
    BY <2>1 DEF GateInv, GateTyped, Known
<1>2. CASE UNCHANGED verdicts
  <2>1. gated' # "green"
    BY <1>2 DEF Checks, GateInv, GateTyped
  <2>2. GroundedAll'
    BY <1>2, GroundedStays DEF GateInv, Checks, vars
  <2> QED
    BY <1>2, <2>1, <2>2
    DEF GateInv, GateTyped, GreenIsWhole, InboundTypeOK, Checks, vars
<1>3. CASE c # None /\ verdicts' = Append(verdicts, v)
  <2>1. PICK w \in Verdict :
          verdicts' = Append(verdicts, w) /\ w.commit = c /\ w.at = now /\ w.ok = Admits(c)
    <3>1. Admits(c) \in BOOLEAN /\ c \in Commits
      BY <1>1, <1>3 DEF Admits
    <3>2. v \in Verdict
      BY <3>1 DEF Verdict, GateInv, InboundTypeOK
    <3> QED
      BY <1>3, <3>2
  <2>2. GateTyped'
    BY <2>1 DEF GateInv, GateTyped, Checks
  <2>3. wire' = wire /\ chain' = chain
    BY DEF Checks, vars
  <2>4. Grounded(w)'
    <3>1. Grounded(w)
      BY <1>1, <1>3, <2>1, AdmittedIsGrounded DEF GateInv, Grounded
    <3> QED
      BY <2>3, <3>1, GroundedKept
  <2>5. ASSUME NEW i \in DOMAIN verdicts' PROVE Grounded(verdicts[i])'
    <3>1. CASE i = n
      <4>1. verdicts'[i] = w
        BY <2>1, <3>1 DEF GateInv, GateTyped
      <4> QED
        BY <2>4, <4>1 DEF Grounded
    <3>2. CASE i # n
      <4>1. i \in DOMAIN verdicts /\ verdicts'[i] = verdicts[i]
        BY <2>1, <2>5, <3>2 DEF GateInv, GateTyped
      <4>2. PICK u : u = verdicts[i]
        OBVIOUS
      <4>3. Grounded(u)
        BY <4>1, <4>2 DEF GateInv, GroundedAll
      <4>4. Grounded(u)'
        BY <2>3, <4>3, GroundedKept
      <4> HIDE DEF v, c, n
      <4> QED
        BY <4>1, <4>2, <4>4 DEF Grounded
    <3> QED
      BY <3>1, <3>2
  <2>6. gated' # "green"
    BY <1>3 DEF Checks
  <2> QED
    BY <2>2, <2>5, <2>6 DEF GateInv, GroundedAll, GreenIsWhole, InboundTypeOK, vars
<1> QED
  BY <1>2, <1>3 DEF Checks

LEMMA GateInvNext == GateInv /\ [GateNext]_allVars => GateInv'
<1> SUFFICES ASSUME GateInv, [GateNext]_allVars PROVE GateInv'
  OBVIOUS
<1>1. InboundTypeOK' /\ chain' = chain
  <2>1. [Next]_vars
    BY DEF GateNext, Next, allVars
  <2>2. chain' = chain
    BY <2>1 DEF Next, Arrives, TimePasses, vars
  <2> QED
    BY <2>1, <2>2, InboundTypedNext DEF GateInv
<1>2. CASE UNCHANGED gateVars
  <2>1. GroundedAll'
    BY <1>1, <1>2, GroundedStays DEF GateInv, gateVars
  <2> QED
    BY <1>1, <1>2, <2>1 DEF GateInv, GateTyped, GreenIsWhole, gateVars
<1>3. CASE GateStep /\ UNCHANGED vars
  <2>1. ASSUME NEW a \in Attestations, Seen(a) PROVE GateInv'
    BY <1>3, <2>1, SeenKeepsInv
  <2>2. ASSUME NEW rev \in Known, NEW c \in Commits \cup {None}, Rewritten(rev, c) PROVE GateInv'
    <3>1. GroundedAll'
      BY <1>1, <2>2, GroundedStays DEF GateInv, Rewritten
    <3> QED
      BY <1>1, <2>2, <3>1 DEF GateInv, GateTyped, GreenIsWhole, Rewritten
  <2>3. CASE Begins
    <3>1. GroundedAll'
      BY <1>1, <2>3, GroundedStays DEF GateInv, Begins
    <3>2. GateTyped'
      BY <2>3 DEF GateInv, GateTyped, Begins
    <3> QED
      BY <1>1, <2>3, <3>1, <3>2 DEF GateInv, GreenIsWhole, Begins
  <2>4. CASE Checks
    BY <1>3, <2>4, ChecksKeepsInv
  <2>5. CASE Answers
    <3>1. GroundedAll'
      BY <1>1, <2>5, GroundedStays DEF GateInv, Answers
    <3>2. GateTyped' /\ GreenIsWhole'
      BY <2>5 DEF GateInv, GateTyped, GreenIsWhole, Answers
    <3> QED
      BY <1>1, <3>1, <3>2 DEF GateInv
  <2> QED
    BY <1>3, <2>1, <2>2, <2>3, <2>4, <2>5 DEF GateStep
<1> QED
  BY <1>2, <1>3 DEF GateNext, allVars

(* Nothing passes the gate without its attestation, however the wire and   *)
(* the branch move while it works (PassedIsAttested).                      *)
THEOREM NothingPassesUnattested == GateSpec => []PassedIsAttested
<1>1. GateInv => PassedIsAttested
  BY DEF GateInv, GroundedAll, Grounded, GreenIsWhole, PassedIsAttested
<1> QED
  BY <1>1, GateInvInit, GateInvNext, PTL DEF GateSpec

-----------------------------------------------------------------------------
LEMMA LessIsRelated ==
  ASSUME NEW x \in Nat, NEW y \in Nat, y < x
  PROVE  <<y, x>> \in OpToRel(<, Nat)
  BY DEF OpToRel

(* Of what the gate read about a commit, one envelope is the last. *)
LEMMA SomethingIsLast ==
  ASSUME GateTyped, NEW c, Naming(c) # {}
  PROVE  \E j \in Naming(c) : \A k \in Naming(c) : k <= j
<1> DEFINE After == {read - k : k \in Naming(c)}
<1>1. Naming(c) \subseteq 1..read /\ read \in Nat
  BY DEF Naming, GateTyped
<1>2. After \subseteq Nat /\ After # {}
  BY <1>1
<1>3. IsWellFoundedOn(OpToRel(<, Nat), Nat)
  BY NatLessThanWellFounded
<1>4. PICK x \in After : \A y \in After : <<y, x>> \notin OpToRel(<, Nat)
  <2> HIDE DEF After
  <2> QED
    BY <1>2, <1>3, WFMin
<1>5. \A y \in After : x <= y
  <2> HIDE DEF After
  <2> SUFFICES ASSUME NEW y \in After PROVE ~(y < x)
    BY <1>2
  <2>1. x \in Nat /\ y \in Nat /\ <<y, x>> \notin OpToRel(<, Nat)
    BY <1>2, <1>4
  <2> QED
    BY <2>1, LessIsRelated
<1>6. PICK j \in Naming(c) : x = read - j
  OBVIOUS
<1>7. \A k \in Naming(c) : read - j <= read - k
  BY <1>5, <1>6
<1> QED
  BY <1>1, <1>7

(* A verdict that failed, held against what the gate read. *)
Displaced(v) ==
  ~v.ok => \A k \in Naming(v.commit) : Attests(wire[k], v.commit, v.at)
             => \E j \in Naming(v.commit) : k < j /\ ~Attests(wire[j], v.commit, v.at)

DisplacedAll == \A i \in DOMAIN verdicts : Displaced(verdicts[i])

NothingBeforeReading == gated = "idle" => verdicts = <<>>

(* What the gate does not admit was not attested by the last envelope that *)
(* names it, so one that does attest it is not the last.                   *)
LEMMA RefusedIsNotLast ==
  ASSUME GateTyped, NEW c \in Commits, ~Admits(c),
         NEW k \in Naming(c), Attests(wire[k], c, now)
  PROVE  \E j \in Naming(c) : k < j /\ ~Attests(wire[j], c, now)
<1>1. PICK j \in Naming(c) : \A i \in Naming(c) : i <= j
  BY SomethingIsLast
<1>2. wire[j] \in attested(c)
  BY <1>1 DEF attested
<1>3. ~Attests(wire[j], c, now)
  BY <1>2 DEF Admits, Attests, Verified
<1>4. k \in Int /\ j \in Int /\ k <= j /\ k # j
  BY <1>1, <1>3 DEF Naming
<1> QED
  BY <1>1, <1>3, <1>4

(* A verdict stays displaced while what the gate read stays as it is. *)
LEMMA DisplacedStays ==
  ASSUME GateTyped, chain' = chain, read' = read,
         \A k \in DOMAIN wire : wire'[k] = wire[k],
         NEW v, Displaced(v)
  PROVE  Displaced(v)'
<1>1. \A k \in 1..read : k \in DOMAIN wire
  BY DEF GateTyped
<1>2. \A k \in 1..read : wire'[k] = wire[k]
  BY <1>1
<1>3. Naming(v.commit)' = Naming(v.commit)
  BY <1>2 DEF Naming
<1>4. \A k \in Naming(v.commit) :
        Attests(wire[k], v.commit, v.at)' <=> Attests(wire[k], v.commit, v.at)
  <2> TAKE k \in Naming(v.commit)
  <2>1. PICK e : e = wire[k]
    OBVIOUS
  <2>2. wire'[k] = e
    BY <1>2, <2>1 DEF Naming
  <2>3. Attests(e, v.commit, v.at)' <=> Attests(e, v.commit, v.at)
    BY DEF Attests, publish_facts, op_facts, IsActa
  <2> QED
    BY <2>1, <2>2, <2>3 DEF Attests
<1> QED
  BY <1>3, <1>4 DEF Displaced

LEMMA DisplacedInit == GateInit => DisplacedAll /\ NothingBeforeReading
  BY DEF GateInit, DisplacedAll, NothingBeforeReading

LEMMA DisplacedNext ==
  GateInv /\ DisplacedAll /\ NothingBeforeReading /\ [GateNext]_allVars
    => DisplacedAll' /\ NothingBeforeReading'
<1> SUFFICES ASSUME GateInv, DisplacedAll, NothingBeforeReading, [GateNext]_allVars
             PROVE  DisplacedAll' /\ NothingBeforeReading'
  OBVIOUS
<1>1. GateTyped /\ chain' = chain
  BY DEF GateInv, GateNext, Next, Arrives, TimePasses, allVars, vars
<1>2. ASSUME read' = read, verdicts' = verdicts, \A k \in DOMAIN wire : wire'[k] = wire[k]
      PROVE  DisplacedAll'
  BY <1>1, <1>2, DisplacedStays DEF DisplacedAll, Displaced
<1>3. CASE UNCHANGED gateVars
  BY <1>2, <1>3 DEF gateVars, NothingBeforeReading
<1>4. CASE GateStep /\ UNCHANGED vars
  <2>1. ASSUME NEW a \in Attestations, Seen(a) PROVE DisplacedAll' /\ NothingBeforeReading'
    <3>1. \A k \in DOMAIN wire : wire'[k] = wire[k]
      BY <1>1, <2>1 DEF GateTyped, Seen
    <3> QED
      BY <1>2, <2>1, <3>1 DEF Seen, NothingBeforeReading
  <2>2. ASSUME NEW rev \in Known, NEW c \in Commits \cup {None}, Rewritten(rev, c)
        PROVE  DisplacedAll' /\ NothingBeforeReading'
    BY <1>2, <2>2 DEF Rewritten, NothingBeforeReading
  <2>3. CASE Begins
    BY <2>3 DEF Begins, NothingBeforeReading, DisplacedAll
  <2>4. CASE Checks
    <3> DEFINE n == Len(verdicts) + 1
               c == head[Revs[n]]
    <3>1. c \in Commits \cup {None}
      <4>1. n \in DOMAIN Revs
        BY <1>1, <2>4, MergeAssumption DEF Checks, GateTyped
      <4> QED
        BY <1>1, <4>1 DEF GateTyped, Known
    <3>2. gated' # "idle" /\ read' = read /\ wire' = wire
      BY <2>4 DEF Checks
    <3>3. CASE UNCHANGED verdicts
      BY <1>2, <3>2, <3>3 DEF NothingBeforeReading
    <3>4. CASE c # None /\ verdicts' = Append(verdicts, [commit |-> c, ok |-> Admits(c), at |-> now])
      <4>1. PICK w \in Verdict :
              verdicts' = Append(verdicts, w) /\ w.commit = c /\ w.at = now /\ w.ok = Admits(c)
        <5>1. Admits(c) \in BOOLEAN /\ c \in Commits
          BY <3>1, <3>4 DEF Admits
        <5>2. [commit |-> c, ok |-> Admits(c), at |-> now] \in Verdict
          BY <5>1 DEF Verdict, GateInv, InboundTypeOK
        <5> QED
          BY <3>4, <5>2
      <4>2. Displaced(w)
        <5>1. (~w.ok => ~Admits(c)) /\ c \in Commits
          BY <3>1, <3>4, <4>1
        <5> HIDE DEF c, n
        <5> QED
          BY <1>1, <4>1, <5>1, RefusedIsNotLast DEF Displaced
      <4>3. ASSUME NEW i \in DOMAIN verdicts' PROVE Displaced(verdicts[i])'
        <5>1. PICK u : u = verdicts'[i]
          OBVIOUS
        <5>2. u = w \/ (i \in DOMAIN verdicts /\ u = verdicts[i])
          BY <1>1, <4>1, <4>3, <5>1 DEF GateTyped
        <5>3. Displaced(u)
          BY <4>2, <5>2 DEF DisplacedAll
        <5>4. Displaced(u)'
          BY <1>1, <3>2, <5>3, DisplacedStays
        <5> HIDE DEF c, n
        <5> QED
          BY <5>1, <5>4 DEF Displaced
      <4> QED
        BY <3>2, <4>3 DEF DisplacedAll, NothingBeforeReading
    <3> QED
      BY <2>4, <3>3, <3>4 DEF Checks
  <2>5. CASE Answers
    BY <1>2, <2>5 DEF Answers, NothingBeforeReading
  <2> QED
    BY <1>4, <2>1, <2>2, <2>3, <2>4, <2>5 DEF GateStep
<1> QED
  BY <1>3, <1>4 DEF GateNext, allVars

(* A refusal has a reason on the wire: no attestation of the commit, or a  *)
(* later envelope that takes its place (RefusedIsDisplaced).               *)
THEOREM RefusalHasItsReason == GateSpec => []RefusedIsDisplaced
<1>1. DisplacedAll => RefusedIsDisplaced
  BY DEF DisplacedAll, Displaced, RefusedIsDisplaced
<1> QED
  BY <1>1, GateInvInit, GateInvNext, DisplacedInit, DisplacedNext, PTL DEF GateSpec

-----------------------------------------------------------------------------
(* What mint() makes: a lease over a persona over a root.                  *)
Minted(c, ttl) == c = minted_chain(ttl)

LEMMA MintedNodes ==
  ASSUME NEW ttl, NEW c, Minted(c, ttl)
  PROVE  /\ Len(c) = 3 /\ Places(c) = {1, 2, 3} /\ c # <<>>
         /\ c[1].parent = 2 /\ c[2].parent = 3 /\ c[3].parent = 0
         /\ c[1].granted /\ c[2].granted /\ ~c[3].granted
         /\ c[1].lease.held /\ ~c[2].lease.held /\ ~c[3].lease.held
         /\ c[1].lease.issued = 0 /\ c[1].lease.bounded /\ c[1].lease.ttl = ttl
<1>1. Places(c) = {1, 2, 3} /\ Len(c) = 3
  BY DEF Minted, minted_chain, Places
<1> QED
  BY <1>1 DEF Minted, minted_chain, None

LEMMA MintedGrants ==
  ASSUME NEW ttl, NEW c, Minted(c, ttl)
  PROVE  /\ c[1].token.parent = 2 /\ c[1].token.signer = 2
         /\ c[1].token.caveats = all({is("lease_age", "<", {ttl})})
         /\ c[2].token.parent = 3 /\ c[2].token.signer = 3
         /\ c[2].token.caveats = all({is("depth", "<=", {8})})
  BY DEF Minted, minted_chain, grant

(* Its only lease is the first. *)
LEMMA MintedLease ==
  ASSUME NEW ttl, NEW c, Minted(c, ttl)
  PROVE  Leased(c) = {1} /\ FirstLease(c) = c[1].lease
<1>1. Leased(c) = {1}
  BY MintedNodes DEF Leased
<1>2. (CHOOSE n \in Leased(c) : \A k \in Leased(c) : n <= k) = 1
  BY <1>1
<1> QED
  BY <1>2, <1>1 DEF FirstLease

(* The way of a token of the lease is the whole chain. *)
LEMMA MintedWay ==
  ASSUME NEW ttl, NEW c, Minted(c, ttl), NEW t, t.parent = 1
  PROVE  WayToRoot(c, t) = {1, 2, 3}
<1>1. /\ Places(c) = {1, 2, 3} /\ c[1].parent = 2 /\ c[2].parent = 3
  BY MintedNodes
<1>2. ASSUME NEW S \in SUBSET Places(c),
             t.parent \in S, \A k \in S : c[k].parent \in S \cup {None}
      PROVE  {1, 2, 3} \subseteq S
  BY <1>1, <1>2 DEF None
<1> QED
  BY <1>1, <1>2 DEF WayToRoot

(* The facts of a delivery under that chain, as far as it asks for them.   *)
LEMMA MintedFacts ==
  ASSUME NEW ttl, NEW c, Minted(c, ttl), NEW moment, NEW m,
         IsActa(m.subject), Segments[m.subject][3] = Context
  PROVE  LET facts == WalkFacts(c, m.token, op_facts(m), moment) IN
         /\ {"audience", "lease_age", "action", "depth"} \subseteq DOMAIN facts
         /\ facts["audience"] = Context /\ facts["action"] = Deliver
         /\ facts["depth"] = 3 /\ facts["lease_age"] = moment - 0
<1>1. /\ Len(c) = 3 /\ Leased(c) # {} /\ FirstLease(c).issued = 0
  <2>1. Leased(c) = {1} /\ FirstLease(c) = c[1].lease
    BY MintedLease
  <2>2. Len(c) = 3 /\ c[1].lease.issued = 0
    BY MintedNodes
  <2> QED
    BY <2>1, <2>2
<1>2. /\ {"audience", "action"} \subseteq DOMAIN op_facts(m)
      /\ op_facts(m)["audience"] = Context /\ op_facts(m)["action"] = Deliver
  BY DEF op_facts
<1>3. LET facts == WalkFacts(c, m.token, op_facts(m), moment) IN
      /\ {"audience", "lease_age", "action", "depth"} \subseteq DOMAIN facts
      /\ facts["audience"] = op_facts(m)["audience"]
      /\ facts["action"] = op_facts(m)["action"]
      /\ facts["depth"] = Len(c) /\ facts["lease_age"] = moment - FirstLease(c).issued
  BY <1>1, <1>2 DEF WalkFacts, LeaseAge
<1> QED
  BY <1>1, <1>2, <1>3

(* What a token of mint's asks for, the grants above it and the lease come *)
(* to one comparison: of the age of the lease with its hours.              *)
LEMMA MintedIsAuthorised ==
  ASSUME NEW ttl \in Nat, NEW c, Minted(c, ttl), NEW moment \in Nat,
         NEW m, m.token = minted_token(m.leaf, ttl),
         IsActa(m.subject), Segments[m.subject][3] = Context
  PROVE  walk(c, m.token, m.leaf, op_facts(m), moment) <=> moment < ttl
<1> DEFINE t == m.token
           facts == WalkFacts(c, t, op_facts(m), moment)
           lease == is("lease_age", "<", {ttl})
           deep == is("depth", "<=", {8})
           here == is("audience", "=", {Context})
           acts == is("action", "in", {Boot, Publish, Request, Deliver})
<1>1. /\ t.parent = 1 /\ t.signer = 1 /\ t.leaf = m.leaf
      /\ t.caveats = all({here, lease, acts})
  BY DEF minted_token, grant
<1>2. /\ c[1].token.parent = 2 /\ c[1].token.signer = 2
      /\ c[1].token.caveats = all({lease})
      /\ c[2].token.parent = 3 /\ c[2].token.signer = 3
      /\ c[2].token.caveats = all({deep})
  BY MintedGrants
<1>3. /\ Places(c) = {1, 2, 3} /\ c # <<>>
      /\ c[1].parent = 2 /\ c[2].parent = 3 /\ c[3].parent = 0
      /\ c[1].granted /\ c[2].granted /\ ~c[3].granted
      /\ c[1].lease.held /\ ~c[2].lease.held /\ ~c[3].lease.held
      /\ c[1].lease.issued = 0 /\ c[1].lease.bounded /\ c[1].lease.ttl = ttl
  BY MintedNodes
<1>4. Leased(c) = {1} /\ FirstLease(c) = c[1].lease
  BY MintedLease
<1>5. WayToRoot(c, t) = {1, 2, 3}
  BY <1>1, MintedWay
<1>6. /\ {"audience", "lease_age", "action", "depth"} \subseteq DOMAIN facts
      /\ facts["audience"] = Context /\ facts["action"] = Deliver
      /\ facts["depth"] = 3 /\ facts["lease_age"] = moment
  BY MintedFacts
<1>0. /\ here.fact = "audience" /\ here.op = "=" /\ here.literal = {Context} /\ ~here.list
      /\ acts.fact = "action" /\ acts.op = "in" /\ acts.list
      /\ acts.literal = {Boot, Publish, Request, Deliver}
      /\ deep.fact = "depth" /\ deep.op = "<=" /\ deep.literal = {8} /\ ~deep.list
      /\ lease.fact = "lease_age" /\ lease.op = "<" /\ lease.literal = {ttl} /\ ~lease.list
  BY DEF is
<1> HIDE DEF facts, t, here, acts, deep, lease
<1>7. check_predicate(here, facts)
  BY <1>0, <1>6 DEF check_predicate, FACTS, OPS, Compare
<1>8. check_predicate(acts, facts)
  BY <1>0, <1>6 DEF check_predicate, FACTS, OPS, Compare
<1>9. check_predicate(deep, facts)
  BY <1>0, <1>6 DEF check_predicate, FACTS, OPS, Compare
<1>10. check_predicate(lease, facts) <=> moment < ttl
  BY <1>0, <1>6 DEF check_predicate, FACTS, OPS, Compare
<1>11. EffectiveCaveats(c, t) = {all({here, lease, acts}), all({lease}), all({deep})}
  BY <1>1, <1>2, <1>3, <1>5 DEF EffectiveCaveats
<1>12. /\ \A x \in EffectiveCaveats(c, t) : x.wellFormed
       /\ UNION {x.predicates : x \in EffectiveCaveats(c, t)} = {here, lease, acts, deep}
  BY <1>11 DEF all
<1>13. Fresh(c[1].lease, moment) <=> moment <= ttl
  BY <1>3 DEF Fresh, LeaseAge
<1>14. Enters(c, t, m.leaf, op_facts(m), moment) <=> moment < ttl
  <2>1. verify_caveats(t.caveats, facts) <=> moment < ttl
    BY <1>1, <1>7, <1>8, <1>10 DEF verify_caveats, all
  <2>2. verify_detached(t, t.parent)
    BY <1>1 DEF verify_detached
  <2> QED
    BY <1>1, <1>3, <1>4, <1>13, <2>1, <2>2 DEF Enters, Stands, None, facts
<1>15. /\ \A n \in {1, 2, 3} : c[n].lease.held => (Fresh(c[n].lease, moment) <=> moment <= ttl)
       /\ \A n \in {1, 2, 3} :
            c[n].granted => /\ c[n].token.parent \in Places(c)
                            /\ verify_detached(c[n].token, c[n].token.parent)
       /\ \E n \in {1, 2, 3} : c[n].parent = None
  BY <1>2, <1>3, <1>13 DEF verify_detached, None
<1> QED
  BY <1>5, <1>7, <1>8, <1>9, <1>10, <1>12, <1>14, <1>15 DEF walk, AuthorisedBut, facts, t

(* What became of the last envelope was decided by verify at its hour.     *)
LastWasDecided ==
  last.outcome # "none" =>
    LET m == last.envelope IN
    last.outcome = "received" <=>
      /\ Evaluable(m) /\ m.subject # None
      /\ walk(chain, m.token, m.leaf, op_facts(m), last.at)

LEMMA DecidedInit == Init => LastWasDecided
  BY DEF Init, LastWasDecided

LEMMA DecidedNext == LastWasDecided /\ [Next]_vars => LastWasDecided'
<1> SUFFICES ASSUME LastWasDecided, [Next]_vars PROVE LastWasDecided'
  OBVIOUS
<1>1. ASSUME NEW m \in Envelopes, Arrives(m) PROVE LastWasDecided'
  <2>1. /\ chain' = chain
        /\ last'.outcome \in Outcomes(m) /\ last'.envelope = m /\ last'.at = now
    BY <1>1 DEF Arrives
  <2>2. /\ "received" \in Outcomes(m) <=> verify(m)
        /\ verify(m) => Outcomes(m) = {"received"}
        /\ verify(m) <=> /\ Evaluable(m) /\ m.subject # None
                         /\ walk(chain, m.token, m.leaf, op_facts(m), now)
    BY DEF Outcomes, verify
  <2> QED
    BY <2>1, <2>2 DEF LastWasDecided, op_facts, IsActa, Evaluable, Signed
<1>2. CASE TimePasses \/ UNCHANGED vars
  BY <1>2 DEF TimePasses, vars, LastWasDecided
<1> QED
  BY <1>1, <1>2 DEF Next

(* Every published envelope verifies, for any hours of a lease, until its  *)
(* last hour and not in it (PublishedVerifies).                            *)
THEOREM EveryPublishedVerifies == Spec => []PublishedVerifies
<1>1. InboundTypeOK /\ LastWasDecided => PublishedVerifies
  <2> SUFFICES ASSUME InboundTypeOK, LastWasDecided, last.outcome # "none",
                      NEW ttl \in 0..MaxNow, Conforming(last.envelope, ttl),
                      IsActa(last.envelope.subject),
                      Segments[last.envelope.subject][3] = Context
               PROVE  last.outcome = "received" <=> last.at < ttl
    BY DEF PublishedVerifies
  <2> DEFINE m == last.envelope
  <2>1. last.at \in Nat /\ ttl \in Nat
    BY InboundAssumption DEF InboundTypeOK
  <2>2. /\ Minted(chain, ttl) /\ m.token = minted_token(m.leaf, ttl)
        /\ Evaluable(m) /\ m.subject # None
    BY DEF Conforming, Minted
  <2>3. walk(chain, m.token, m.leaf, op_facts(m), last.at) <=> last.at < ttl
    BY <2>1, <2>2, MintedIsAuthorised
  <2> QED
    BY <2>2, <2>3 DEF LastWasDecided
<1> QED
  BY <1>1, InboundTyped, DecidedInit, DecidedNext, PTL DEF Spec
=============================================================================
