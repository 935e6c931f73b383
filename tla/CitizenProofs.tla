--------------------------- MODULE CitizenProofs ---------------------------
(***************************************************************************)
(* Theorems about Citizen, for any number of socket clients, any bounds    *)
(* and any grant; first, of the grant itself.                              *)
(*                                                                         *)
(* The inductive invariant is IInv: the types; the order and the grant of  *)
(* what the bus client holds; that a connection has not answered more than *)
(* it was asked; and, for each connection, that the envelope whose publish *)
(* it awaits, and the one its last ok told of, are there.  What an ok      *)
(* means is not inductive alone: the envelope it tells of was accepted     *)
(* before the await, which only PendingAccepted remembers across it.       *)
(***************************************************************************)
EXTENDS CitizenTelemetry, FunctionTheorems, FiniteSetTheorems, TLAPS

(* Whatever patterns a credential lists and whatever a payload names, the  *)
(* citizen's own reading of its grant is within the bus's (init.py         *)
(* subject_granted: "no implicit widening").                               *)
THEOREM NeverWider ==
  ASSUME NEW S, NEW allow \in SUBSET Seq(S), NEW R, NEW s \in Seq(R)
  PROVE  WithinBus(allow, s)
<1> SUFFICES ASSUME NEW p \in allow, Covers(p, s)
             PROVE  BusCovers(p, s)
  BY DEF WithinBus, subject_granted
<1>a. Len(p) \in Nat /\ Len(s) \in Nat /\ (p # <<>> => Len(p) >= 1)
  OBVIOUS
<1>1. CASE s = p
  BY <1>1 DEF BusCovers
<1>2. CASE p # <<>> /\ p[Len(p)] = ">" /\ Under(p, s)
  BY <1>2 DEF BusCovers, Under
<1>3. CASE p # <<>> /\ p[Len(p)] = "*" /\ Under(p, s) /\ Len(s) = Len(p)
  <2>1. ASSUME NEW i \in 1..Len(p) PROVE p[i] = "*" \/ p[i] = s[i]
    <3>1. CASE i = Len(p)
      BY <3>1, <1>3
    <3>2. CASE i # Len(p)
      BY <3>2, <1>3, <1>a DEF Under
    <3>3. QED
      BY <3>1, <3>2
  <2>2. QED
    BY <2>1, <1>3 DEF BusCovers
<1>4. QED
  BY <1>1, <1>2, <1>3 DEF Covers

-----------------------------------------------------------------------------

EnvelopeSet == [seq : Nat, by : Task, subject : Subject, kind : Kind, n : Nat]

(* Nothing outside the taxonomy or the grant is given to the bus (BASE-AC-5,*)
(* ES-002, ES-003): publish() refuses it.                                  *)
OutIsGranted ==
  \A i \in 1..Len(out) :
    /\ in_taxonomy(out[i].subject)
    /\ subject_granted(PublishAllow, out[i].subject)

(* What publish() and the bus client share. *)
WireOK ==
  /\ seq \in Nat
  /\ out \in Seq(EnvelopeSet)
  /\ sent \in 0..Len(out)
  /\ SeqFollowsOrder
  /\ OutIsGranted

(* The envelope c awaits is its own and has been accepted.                 *)
PendingAccepted ==
  \A c \in Client :
    client[c] = "awaiting" =>
      /\ pending[c] <= seq
      /\ \E i \in 1..Len(out) : out[i].by = c /\ out[i].seq = pending[c]

(* What a connection has answered it was asked before.                     *)
QueuedWereAsked == \A c \in Client : queued[c] <= asked[c]

AgentInv ==
  /\ AgentTypeOK
  /\ WireOK
  /\ QueuedWereAsked
  /\ PendingAccepted
  /\ OkMeansAccepted

IInv == AgentInv /\ CoroutineTypeOK

(* What no caller of publish() disturbs of the envelopes already accepted. *)
Grows ==
  /\ seq <= seq'
  /\ Len(out) <= Len(out')
  /\ \A i \in 1..Len(out) : out'[i] = out[i]

(* One call of publish(), whoever makes it, keeps the order and the grant  *)
(* and, if it ends in an await, adds exactly one envelope, the caller's.   *)
LEMMA PublishStep ==
  ASSUME WireOK,
         NEW t \in Task, NEW s \in Subject, NEW kind \in Kind, NEW n \in Nat,
         NEW r \in Outcome, publish(t, s, kind, n, r)
  PROVE  /\ WireOK'
         /\ Grows
         /\ r = "awaiting" => /\ seq' = seq + 1
                              /\ Len(out') = Len(out) + 1
                              /\ out'[Len(out')].by = t
                              /\ out'[Len(out')].seq = seq + 1
<1> DEFINE e == Envelope(t, s, kind, n)
<1>1. e \in EnvelopeSet
  BY DEF WireOK, Envelope, EnvelopeSet
<1>a. /\ Len(out) \in Nat
      /\ seq \in Nat
      /\ \A i \in 1..Len(out) : out[i].seq \in Nat
  <2>1. Len(out) \in Nat /\ seq \in Nat
    BY DEF WireOK
  <2>2. \A i \in 1..Len(out) : out[i] \in EnvelopeSet
    BY DEF WireOK
  <2>3. QED
    BY <2>1, <2>2 DEF EnvelopeSet
<1>2. CASE UNCHANGED <<seq, out, sent>>
  <2>1. r # "awaiting"
    BY <1>2 DEF publish, WireOK
  <2>2. QED
    BY <1>2, <2>1 DEF WireOK, Grows, SeqFollowsOrder, OutIsGranted
<1>3. CASE seq' = seq + 1 /\ UNCHANGED <<out, sent>> /\ r = "raised"
  <2>a. SeqFollowsOrder'
    <3>1. out' = out
      BY <1>3
    <3>2. \A i \in 1..Len(out) : out[i].seq <= seq + 1
      BY <1>a DEF WireOK, SeqFollowsOrder
    <3>3. QED
      BY <1>3, <3>1, <3>2 DEF WireOK, SeqFollowsOrder
  <2>b. OutIsGranted'
    BY <1>3 DEF WireOK, OutIsGranted
  <2>1. WireOK'
    BY <1>3, <2>a, <2>b DEF WireOK
  <2>2. Grows
    BY <1>3 DEF WireOK, Grows
  <2>3. QED
    BY <1>3, <2>1, <2>2
<1>4. CASE /\ seq' = seq + 1
           /\ out' = Append(out, e)
           /\ UNCHANGED sent
           /\ ~Refused(s)
  <2>1. /\ out' \in Seq(EnvelopeSet)
        /\ Len(out') = Len(out) + 1
        /\ \A i \in 1..Len(out) : out'[i] = out[i]
        /\ out'[Len(out')] = e
    BY <1>1, <1>4 DEF WireOK
  <2>2. SeqFollowsOrder'
    <3>1. e.seq = seq + 1
      BY DEF Envelope
    <3>2. ASSUME NEW i \in 1..Len(out')
          PROVE  out'[i].seq <= seq'
      <4>1. CASE i = Len(out')
        BY <4>1, <3>1, <2>1, <1>4 DEF WireOK
      <4>2. CASE i \in 1..Len(out)
        BY <4>2, <2>1, <1>4, <1>a DEF WireOK, SeqFollowsOrder
      <4>3. QED
        BY <4>1, <4>2, <2>1, <1>a
    <3>3. ASSUME NEW i \in 1..Len(out'), NEW j \in 1..Len(out'), i < j
          PROVE  out'[i].seq < out'[j].seq
      <4>1. i \in 1..Len(out) /\ out'[i].seq <= seq
        BY <3>3, <2>1, <1>a DEF WireOK, SeqFollowsOrder
      <4>2. CASE j = Len(out')
        BY <4>1, <4>2, <3>1, <2>1, <1>a DEF WireOK
      <4>3. CASE j \in 1..Len(out)
        BY <4>1, <4>3, <3>3, <2>1 DEF WireOK, SeqFollowsOrder
      <4>4. QED
        BY <4>2, <4>3, <2>1, <1>a
    <3>4. QED
      BY <3>2, <3>3 DEF SeqFollowsOrder
  <2>3. OutIsGranted'
    BY <1>4, <2>1 DEF WireOK, OutIsGranted, Envelope, Refused
  <2>4. QED
    BY <1>4, <2>1, <2>2, <2>3 DEF WireOK, Grows, Envelope
<1>5. QED
  BY <1>2, <1>3, <1>4 DEF publish

(* A step that leaves the accepted envelopes in place and no connection's  *)
(* state changed keeps what is known of the connections.                   *)
LEMMA SocketsKept ==
  ASSUME PendingAccepted, OkMeansAccepted, Grows, UNCHANGED socketVars,
         seq \in Nat, seq' \in Nat, Len(out) \in Nat, Len(out') \in Nat,
         pending \in [Client -> Nat]
  PROVE  PendingAccepted' /\ OkMeansAccepted'
<1>1. 1..Len(out) \subseteq 1..Len(out')
  BY DEF Grows
<1>2. PendingAccepted'
  BY <1>1 DEF PendingAccepted, Grows, socketVars
<1>3. OkMeansAccepted'
  BY <1>1 DEF OkMeansAccepted, Grows, socketVars
<1>4. QED
  BY <1>2, <1>3

-----------------------------------------------------------------------------
(* AgentInv, step by step. *)

LEMMA AgentUnchanged ==
  AgentInv /\ UNCHANGED agentVars => AgentInv'
BY DEF AgentInv, agentVars, AgentTypeOK, WireOK, QueuedWereAsked, PendingAccepted,
       OkMeansAccepted, SeqFollowsOrder, OutIsGranted

(* A publish() of the main sequence, the heartbeat or a pump.              *)
LEMMA BasePublishes ==
  ASSUME AgentInv,
         NEW t \in BaseTask, NEW s \in Subject, NEW kind \in Kind, NEW n \in Nat,
         NEW r \in Outcome, publish(t, s, kind, n, r), UNCHANGED <<bus, socketVars>>
  PROVE  AgentInv'
<1>1. WireOK' /\ Grows
  BY PublishStep DEF AgentInv, Task
<1>2. PendingAccepted' /\ OkMeansAccepted'
  <2>1. /\ seq \in Nat /\ seq' \in Nat
        /\ Len(out) \in Nat /\ Len(out') \in Nat
        /\ pending \in [Client -> Nat]
    BY <1>1 DEF AgentInv, WireOK, AgentTypeOK
  <2>2. QED
    BY <1>1, <2>1, SocketsKept DEF AgentInv
<1>3. AgentTypeOK'
  BY <1>1 DEF AgentInv, AgentTypeOK, WireOK, EnvelopeSet, socketVars
<1>4. QueuedWereAsked'
  BY DEF AgentInv, QueuedWereAsked, socketVars
<1>5. QED
  BY <1>1, <1>2, <1>3, <1>4 DEF AgentInv

(* The bus client and the drain at shutdown move sent and bus only.        *)
LEMMA BusKeeps ==
  ASSUME AgentInv, sent' \in 0..Len(out), bus' \in {"up", "down", "closed"},
         UNCHANGED <<seq, out, socketVars>>
  PROVE  AgentInv'
BY DEF AgentInv, socketVars, AgentTypeOK, WireOK, QueuedWereAsked, PendingAccepted,
       OkMeansAccepted, SeqFollowsOrder, OutIsGranted

LEMMA PeerKeeps ==
  ASSUME AgentInv, NEW c \in Client, PeerConnects(c) \/ PeerAsks(c)
  PROVE  AgentInv'
<1>1. WireOK'
  BY DEF AgentInv, WireOK, SeqFollowsOrder, OutIsGranted, PeerConnects, PeerAsks
<1>2. CASE PeerConnects(c)
  <2>1. AgentTypeOK'
    BY <1>2 DEF AgentInv, AgentTypeOK, PeerConnects
  <2>2. QueuedWereAsked'
    BY <1>2 DEF AgentInv, QueuedWereAsked, PeerConnects
  <2>3. PendingAccepted'
    BY <1>2 DEF AgentInv, AgentTypeOK, PendingAccepted, PeerConnects
  <2>4. OkMeansAccepted'
    BY <1>2 DEF AgentInv, OkMeansAccepted, PeerConnects
  <2>5. QED
    BY <1>1, <2>1, <2>2, <2>3, <2>4 DEF AgentInv
<1>3. CASE PeerAsks(c)
  <2>a. asked' \in [Client -> Nat] /\ queued' \in [Client -> Nat]
    BY <1>3 DEF AgentInv, AgentTypeOK, PeerAsks
  <2>1. AgentTypeOK'
    BY <1>3, <2>a DEF AgentInv, AgentTypeOK, PeerAsks
  <2>2. QueuedWereAsked'
    <3>1. ASSUME NEW d \in Client PROVE queued'[d] <= asked'[d]
      <4>1. queued[d] \in Nat /\ asked[d] \in Nat /\ queued[d] <= asked[d]
        BY DEF AgentInv, AgentTypeOK, QueuedWereAsked
      <4>2. queued \in [Client -> Nat] /\ asked \in [Client -> Nat]
        BY DEF AgentInv, AgentTypeOK
      <4>3. QED
        BY <1>3, <4>1, <4>2 DEF PeerAsks
    <3>2. QED
      BY <3>1 DEF QueuedWereAsked
  <2>3. PendingAccepted'
    BY <1>3 DEF AgentInv, PendingAccepted, PeerAsks
  <2>4. OkMeansAccepted'
    BY <1>3 DEF AgentInv, OkMeansAccepted, PeerAsks
  <2>5. QED
    BY <1>1, <2>1, <2>2, <2>3, <2>4 DEF AgentInv
<1>4. QED
  BY <1>2, <1>3

Replies == [result : Result, own : Nat, told : Nat]

(* Taking a request from the queue. *)
LEMMA TakesOne ==
  ASSUME AgentInv, NEW c \in Client, Take(c), asked' = asked
  PROVE  /\ queued' \in [Client -> Nat]
         /\ QueuedWereAsked'
         /\ asked[c] - queued[c] + 1 \in Nat
<1>1. /\ queued \in [Client -> Nat]
      /\ asked \in [Client -> Nat]
      /\ \A d \in Client : queued[d] <= asked[d]
  BY DEF AgentInv, AgentTypeOK, QueuedWereAsked
<1>2. queued' \in [Client -> Nat]
  BY <1>1 DEF Take
<1>3. ASSUME NEW d \in Client PROVE queued'[d] <= asked'[d]
  <2>1. queued[d] \in Nat /\ asked[d] \in Nat /\ queued[d] <= asked[d]
    BY <1>1
  <2>2. QED
    BY <1>1, <2>1 DEF Take
<1>4. asked[c] - queued[c] + 1 \in Nat
  <2>1. queued[c] \in Nat /\ asked[c] \in Nat /\ queued[c] <= asked[c]
    BY <1>1
  <2>2. QED
    BY <2>1
<1>5. QED
  BY <1>2, <1>3, <1>4 DEF QueuedWereAsked

(* An answer: the connection waits no more, and what the answer says is    *)
(* all that is new.                                                        *)
LEMMA AnswersOne ==
  ASSUME AgentInv, NEW c \in Client, NEW r \in Replies, Answer(c, r),
         Grows, WireOK', pending' \in [Client -> Nat],
         \A d \in Client \ {c} : pending'[d] = pending[d],
         r.own > 0 => /\ r.told >= r.own
                      /\ \E i \in 1..Len(out) : out[i].by = c /\ out[i].seq = r.own
  PROVE  /\ client' \in [Client -> {"unopened", "reading", "awaiting", "closed", "dropped"}]
         /\ reply' \in [Client -> Replies]
         /\ PendingAccepted'
         /\ OkMeansAccepted'
<1>1. /\ client \in [Client -> {"unopened", "reading", "awaiting", "closed", "dropped"}]
      /\ reply \in [Client -> Replies]
  BY DEF AgentInv, AgentTypeOK, Replies
<1>2. PICK next \in {"reading", "closed"} :
        /\ client' = [client EXCEPT ![c] = next]
        /\ reply' = [reply EXCEPT ![c] = r]
  BY DEF Answer
<1>3. 1..Len(out) \subseteq 1..Len(out')
  BY DEF Grows, AgentInv, WireOK
<1>4. ASSUME NEW d \in Client, client'[d] = "awaiting"
      PROVE  /\ pending'[d] <= seq'
             /\ \E i \in 1..Len(out') : out'[i].by = d /\ out'[i].seq = pending'[d]
  <2>1. d # c /\ client[d] = "awaiting" /\ pending'[d] = pending[d]
    BY <1>1, <1>2, <1>4
  <2>2. /\ pending[d] <= seq
        /\ \E i \in 1..Len(out) : out[i].by = d /\ out[i].seq = pending[d]
    BY <2>1 DEF AgentInv, PendingAccepted
  <2>3. pending[d] \in Nat /\ seq \in Nat /\ seq' \in Nat
    BY DEF AgentInv, AgentTypeOK, WireOK
  <2>4. QED
    BY <1>3, <2>1, <2>2, <2>3 DEF Grows
<1>5. ASSUME NEW d \in Client, reply'[d].own > 0
      PROVE  /\ reply'[d].told >= reply'[d].own
             /\ \E i \in 1..Len(out') : out'[i].by = d /\ out'[i].seq = reply'[d].own
  <2>1. CASE d = c
    BY <1>1, <1>2, <1>3, <1>5, <2>1 DEF Grows
  <2>2. CASE d # c
    BY <1>1, <1>2, <1>3, <1>5, <2>2 DEF Grows, AgentInv, OkMeansAccepted
  <2>3. QED
    BY <2>1, <2>2
<1>6. QED
  BY <1>1, <1>2, <1>4, <1>5 DEF PendingAccepted, OkMeansAccepted

LEMMA AskPublishKeeps ==
  ASSUME AgentInv, NEW c \in Client, NEW s \in Subject, AskPublish(c, s)
  PROVE  AgentInv'
<1>1. PICK r \in Outcome :
        /\ publish(c, s, "client", asked[c] - queued[c] + 1, r)
        /\ IF r = "awaiting"
           THEN /\ client' = [client EXCEPT ![c] = "awaiting"]
                /\ pending' = [pending EXCEPT ![c] = seq + 1]
                /\ UNCHANGED reply
           ELSE /\ UNCHANGED pending
                /\ Answer(c, [result |-> IF r = "refused" THEN r ELSE "error",
                              own |-> 0, told |-> 0])
  BY DEF AskPublish
<1>2. /\ queued' \in [Client -> Nat]
      /\ QueuedWereAsked'
      /\ asked[c] - queued[c] + 1 \in Nat
      /\ UNCHANGED <<bus, asked>>
  BY TakesOne DEF AskPublish
<1>3. /\ WireOK'
      /\ Grows
      /\ r = "awaiting" => /\ seq' = seq + 1
                           /\ Len(out') = Len(out) + 1
                           /\ out'[Len(out')].by = c
                           /\ out'[Len(out')].seq = seq + 1
  <2>1. c \in Task /\ "client" \in Kind /\ WireOK
    BY DEF Task, Kind, AgentInv
  <2>2. QED
    BY <1>1, <1>2, <2>1, PublishStep
<1>4. CASE r = "awaiting"
  <2>1. /\ seq \in Nat
        /\ Len(out) \in Nat
        /\ pending \in [Client -> Nat]
        /\ client \in [Client -> {"unopened", "reading", "awaiting", "closed", "dropped"}]
    BY DEF AgentInv, AgentTypeOK, WireOK
  <2>2. 1..Len(out) \subseteq 1..Len(out') /\ Len(out') \in 1..Len(out')
    BY <1>3, <1>4, <2>1
  <2>3. AgentTypeOK'
    <3>1. client' \in [Client -> {"unopened", "reading", "awaiting", "closed", "dropped"}]
      BY <1>1, <1>4, <2>1
    <3>2. pending' \in [Client -> Nat] /\ reply' = reply
      BY <1>1, <1>4, <2>1
    <3>3. QED
      BY <1>2, <1>3, <3>1, <3>2 DEF AgentInv, AgentTypeOK, WireOK, EnvelopeSet
  <2>4. PendingAccepted'
    <3>1. ASSUME NEW d \in Client, client'[d] = "awaiting"
          PROVE  /\ pending'[d] <= seq'
                 /\ \E i \in 1..Len(out') : out'[i].by = d /\ out'[i].seq = pending'[d]
      <4>1. CASE d = c
        <5>1. pending'[d] = seq + 1
          BY <1>1, <1>4, <2>1, <4>1
        <5>2. QED
          BY <1>3, <1>4, <2>1, <2>2, <4>1, <5>1
      <4>2. CASE d # c
        <5>1. client[d] = "awaiting" /\ pending'[d] = pending[d] /\ pending[d] \in Nat
          BY <1>1, <1>4, <2>1, <3>1, <4>2
        <5>2. /\ pending[d] <= seq
              /\ \E i \in 1..Len(out) : out[i].by = d /\ out[i].seq = pending[d]
          BY <5>1 DEF AgentInv, PendingAccepted
        <5>3. QED
          BY <1>3, <1>4, <2>1, <2>2, <5>1, <5>2 DEF Grows
      <4>3. QED
        BY <4>1, <4>2
    <3>2. QED
      BY <3>1 DEF PendingAccepted
  <2>5. OkMeansAccepted'
    <3>1. reply' = reply
      BY <1>1, <1>4
    <3>2. OkMeansAccepted
      BY DEF AgentInv
    <3>3. QED
      BY <1>3, <2>2, <3>1, <3>2 DEF OkMeansAccepted, Grows
  <2>6. QED
    BY <1>2, <1>3, <2>3, <2>4, <2>5 DEF AgentInv
<1>5. CASE r # "awaiting"
  <2> DEFINE a == [result |-> IF r = "refused" THEN r ELSE "error", own |-> 0, told |-> 0]
  <2>1. a \in Replies /\ a.own = 0
    BY DEF Replies, Result
  <2>2. Answer(c, a) /\ UNCHANGED pending
    BY <1>1, <1>5
  <2>3. pending' \in [Client -> Nat]
    BY <2>2 DEF AgentInv, AgentTypeOK
  <2> HIDE DEF a
  <2>4. /\ client' \in [Client -> {"unopened", "reading", "awaiting", "closed", "dropped"}]
        /\ reply' \in [Client -> Replies]
        /\ PendingAccepted'
        /\ OkMeansAccepted'
    BY <1>3, <2>1, <2>2, <2>3, AnswersOne
  <2>5. AgentTypeOK'
    BY <1>2, <1>3, <2>3, <2>4 DEF AgentInv, AgentTypeOK, WireOK, EnvelopeSet, Replies
  <2>6. QED
    BY <1>2, <1>3, <2>4, <2>5 DEF AgentInv
<1>6. QED
  BY <1>4, <1>5

LEMMA PublishReturnsKeeps ==
  ASSUME AgentInv, NEW c \in Client, PublishReturns(c)
  PROVE  AgentInv'
<1> DEFINE a == [result |-> "ok", own |-> pending[c], told |-> seq]
<1>1. Answer(c, a) /\ pending' = [pending EXCEPT ![c] = 0]
      /\ UNCHANGED <<seq, out, sent, bus, queued, asked>> /\ client[c] = "awaiting"
  BY DEF PublishReturns
<1>2. /\ seq \in Nat
      /\ pending \in [Client -> Nat]
      /\ pending[c] <= seq
      /\ \E i \in 1..Len(out) : out[i].by = c /\ out[i].seq = pending[c]
  BY <1>1 DEF AgentInv, AgentTypeOK, PendingAccepted
<1>3. a \in Replies /\ a.told >= a.own /\ a.own = pending[c]
  BY <1>2 DEF Replies, Result
<1>4. /\ pending' \in [Client -> Nat]
      /\ \A d \in Client \ {c} : pending'[d] = pending[d]
  BY <1>1, <1>2
<1>5. WireOK' /\ Grows
  BY <1>1, <1>2 DEF AgentInv, WireOK, Grows, SeqFollowsOrder, OutIsGranted
<1> HIDE DEF a
<1>6. /\ client' \in [Client -> {"unopened", "reading", "awaiting", "closed", "dropped"}]
      /\ reply' \in [Client -> Replies]
      /\ PendingAccepted'
      /\ OkMeansAccepted'
  BY <1>1, <1>2, <1>3, <1>4, <1>5, AnswersOne
<1>7. AgentTypeOK' /\ QueuedWereAsked'
  BY <1>1, <1>4, <1>6 DEF AgentInv, AgentTypeOK, Replies, QueuedWereAsked
<1>8. QED
  BY <1>5, <1>6, <1>7 DEF AgentInv

(* subscribe, stats, resolve, recall, an unknown op, a line that is no     *)
(* request: an answer that tells of no envelope.                           *)
LEMMA PlainAnswerKeeps ==
  ASSUME AgentInv, NEW c \in Client, NEW a \in Replies, a.own = 0,
         Take(c), Answer(c, a), UNCHANGED <<seq, out, sent, bus, asked, pending>>
  PROVE  AgentInv'
<1>1. queued' \in [Client -> Nat] /\ QueuedWereAsked'
  BY TakesOne
<1>2. WireOK' /\ Grows
  BY DEF AgentInv, WireOK, Grows, SeqFollowsOrder, OutIsGranted
<1>3. pending' \in [Client -> Nat]
  BY DEF AgentInv, AgentTypeOK
<1>4. /\ client' \in [Client -> {"unopened", "reading", "awaiting", "closed", "dropped"}]
      /\ reply' \in [Client -> Replies]
      /\ PendingAccepted'
      /\ OkMeansAccepted'
  BY <1>2, <1>3, AnswersOne
<1>5. AgentTypeOK'
  BY <1>1, <1>3, <1>4 DEF AgentInv, AgentTypeOK, Replies
<1>6. QED
  BY <1>1, <1>2, <1>4, <1>5 DEF AgentInv

LEMMA RequestTooLongKeeps ==
  ASSUME AgentInv, NEW c \in Client, RequestTooLong(c)
  PROVE  AgentInv'
<1>1. queued' \in [Client -> Nat] /\ QueuedWereAsked'
  BY TakesOne DEF RequestTooLong
<1>2. WireOK'
  BY DEF AgentInv, WireOK, SeqFollowsOrder, OutIsGranted, RequestTooLong
<1>3. AgentTypeOK'
  BY <1>1 DEF AgentInv, AgentTypeOK, RequestTooLong
<1>4. PendingAccepted'
  BY DEF AgentInv, AgentTypeOK, PendingAccepted, RequestTooLong
<1>5. OkMeansAccepted'
  BY DEF AgentInv, OkMeansAccepted, RequestTooLong
<1>6. QED
  BY <1>1, <1>2, <1>3, <1>4, <1>5 DEF AgentInv

LEMMA ClientStepKeeps ==
  ASSUME AgentInv, NEW c \in Client, ClientStep(c)
  PROVE  AgentInv'
<1>1. ASSUME NEW s \in AskedSubjects \cup {event_subject(Citizen, Context)}, AskPublish(c, s)
      PROVE  AgentInv'
  <2>1. s \in Subject
    BY DEF Subject
  <2>2. QED
    BY <1>1, <2>1, AskPublishKeeps
<1>2. CASE PublishReturns(c)
  BY <1>2, PublishReturnsKeeps
<1>3. ASSUME NEW s \in AskedSubjects, AskSubscribe(c, s)
      PROVE  AgentInv'
  <2> DEFINE a == [result |-> IF in_taxonomy(s) THEN "ok" ELSE "refused",
                   own |-> 0, told |-> 0]
  <2>1. a \in Replies /\ a.own = 0
    BY DEF Replies, Result
  <2>2. Take(c) /\ Answer(c, a) /\ UNCHANGED <<seq, out, sent, bus, asked, pending>>
    BY <1>3 DEF AskSubscribe
  <2> HIDE DEF a
  <2>3. QED
    BY <2>1, <2>2, PlainAnswerKeeps
<1>4. CASE AskOther(c)
  <2>1. seq \in Nat
    BY DEF AgentInv, AgentTypeOK
  <2>2. PICK a \in Replies : a.own = 0 /\ Answer(c, a)
    BY <1>4, <2>1 DEF AskOther, Replies, Result
  <2>3. Take(c) /\ UNCHANGED <<seq, out, sent, bus, asked, pending>>
    BY <1>4 DEF AskOther
  <2>4. QED
    BY <2>2, <2>3, PlainAnswerKeeps
<1>5. CASE RequestTooLong(c)
  BY <1>5, RequestTooLongKeeps
<1>6. QED
  BY <1>1, <1>2, <1>3, <1>4, <1>5 DEF ClientStep

-----------------------------------------------------------------------------
(* The coroutines of the citizen, its payload and the bus. *)

PipeLine == [n : Nat, len : LineKinds]

LEMMA PipesTyped ==
  /\ <<>> \in Seq(PipeLine)
  /\ \A q \in Seq(PipeLine) : \A x \in PipeLine : Append(q, x) \in Seq(PipeLine)
  /\ \A q \in Seq(PipeLine) :
       q # <<>> => Head(q) \in PipeLine /\ Tail(q) \in Seq(PipeLine)
OBVIOUS

LEMMA SubjectsTyped ==
  /\ descriptor_subject(Citizen) \in Subject
  /\ heartbeat_subject(Citizen) \in Subject
  /\ output_subject(Citizen, Context) \in Subject
  /\ event_subject(Citizen, Context) \in Subject
BY DEF Subject

LEMMA MainStepKeeps ==
  ASSUME IInv, MainStep
  PROVE  IInv'
<1> USE DEF IInv
<1>1. CASE MainDescribes
  <2>1. PICK r \in Outcome :
          publish("main", descriptor_subject(Citizen), "descriptor", 0, r)
    BY <1>1 DEF MainDescribes
  <2>2. AgentInv'
    BY <1>1, <2>1, BasePublishes, SubjectsTyped DEF MainDescribes, BaseTask, Kind
  <2>3. CoroutineTypeOK'
    BY <1>1 DEF MainDescribes, CoroutineTypeOK, procVars, Outcome
  <2>4. QED
    BY <2>2, <2>3
<1>2. CASE MainReportsExit
  <2>1. PICK r \in Outcome :
          publish("main", event_subject(Citizen, Context), "exit", status, r)
    BY <1>2 DEF MainReportsExit
  <2>2. status \in Nat
    BY DEF CoroutineTypeOK, ExitStatus
  <2>3. AgentInv'
    BY <1>2, <2>1, <2>2, BasePublishes, SubjectsTyped DEF MainReportsExit, BaseTask, Kind
  <2>4. CoroutineTypeOK'
    BY <1>2 DEF MainReportsExit, CoroutineTypeOK, procVars, Outcome
  <2>5. QED
    BY <2>3, <2>4
<1>3. CASE MainDrained
  <2>1. /\ sent' \in 0..Len(out)
        /\ bus' \in {"up", "down", "closed"}
        /\ UNCHANGED <<seq, out, socketVars>>
    BY <1>3 DEF MainDrained, AgentInv, AgentTypeOK
  <2>2. AgentInv'
    BY <2>1, BusKeeps
  <2>3. CoroutineTypeOK'
    BY <1>3 DEF MainDrained, CoroutineTypeOK, procVars
  <2>4. QED
    BY <2>2, <2>3
<1>4. CASE MainLaunches
  <2>1. AgentInv'
    BY <1>4, AgentUnchanged DEF MainLaunches
  <2>2. CoroutineTypeOK'
    BY <1>4 DEF MainLaunches, CoroutineTypeOK
  <2>3. QED
    BY <2>1, <2>2
<1>5. CASE \/ MainDescribed \/ MainLaunchFails \/ MainIdles \/ MainIdleEnds
           \/ MainGatherRaises \/ MainGathers \/ MainReported \/ MainStops
  <2>1. UNCHANGED agentVars
    BY <1>5 DEF MainDescribed, MainLaunchFails, MainIdles, MainIdleEnds,
                MainGatherRaises, MainGathers, MainReported, MainStops
  <2>2. CoroutineTypeOK'
    BY <1>5 DEF MainDescribed, MainLaunchFails, MainIdles, MainIdleEnds, procVars,
                MainGatherRaises, MainGathers, MainReported, MainStops, CoroutineTypeOK
  <2>3. QED
    BY <2>1, <2>2, AgentUnchanged
<1>6. QED
  BY <1>1, <1>2, <1>3, <1>4, <1>5 DEF MainStep

LEMMA HeartbeatKeeps ==
  ASSUME IInv, HbBeats \/ HbReturns \/ HbWakes
  PROVE  IInv'
<1> USE DEF IInv
<1>1. CASE HbBeats
  <2>1. PICK r \in Outcome :
          publish("hb", heartbeat_subject(Citizen), "beat", beats + 1, r)
    BY <1>1 DEF HbBeats
  <2>2. beats + 1 \in Nat
    BY DEF CoroutineTypeOK
  <2>3. AgentInv'
    BY <1>1, <2>1, <2>2, BasePublishes, SubjectsTyped DEF HbBeats, BaseTask, Kind
  <2>4. CoroutineTypeOK'
    <3>1. hb' \in {"sleeping", "dead", "awaiting"}
      BY <1>1 DEF HbBeats, Outcome
    <3>2. beats' \in Nat /\ UNCHANGED <<main, pump, procVars, faults>>
      BY <1>1 DEF HbBeats, CoroutineTypeOK
    <3>3. QED
      BY <3>1, <3>2 DEF CoroutineTypeOK, procVars
  <2>5. QED
    BY <2>3, <2>4
<1>2. CASE HbReturns \/ HbWakes
  <2>1. UNCHANGED agentVars /\ CoroutineTypeOK'
    BY <1>2 DEF HbReturns, HbWakes, CoroutineTypeOK, procVars
  <2>2. QED
    BY <2>1, AgentUnchanged
<1>3. QED
  BY <1>1, <1>2

LEMMA PumpKeeps ==
  ASSUME IInv, NEW s \in Stream, PumpStep(s)
  PROVE  IInv'
<1> USE DEF IInv
<1>a. /\ pipe \in [Stream -> Seq([n : Nat, len : LineKinds])]
      /\ pump \in [Stream -> {"off", "reading", "awaiting", "ended", "raised"}]
  BY DEF CoroutineTypeOK
<1>b. pipe[s] # <<>> => /\ Head(pipe[s]).n \in Nat
                        /\ Tail(pipe[s]) \in Seq([n : Nat, len : LineKinds])
  <2>1. pipe[s] \in Seq(PipeLine)
    BY <1>a DEF PipeLine
  <2>2. pipe[s] # <<>> => Head(pipe[s]) \in PipeLine /\ Tail(pipe[s]) \in Seq(PipeLine)
    BY <2>1, PipesTyped
  <2>3. QED
    BY <2>2 DEF PipeLine
<1>1. CASE PumpReads(s)
  <2>1. PICK r \in Outcome :
          /\ publish(s, output_subject(Citizen, Context), "line", Head(pipe[s]).n, r)
          /\ pump' = [pump EXCEPT ![s] = CASE r = "refused" -> "reading"
                                           [] r = "raised" -> "raised"
                                           [] r = "awaiting" -> "awaiting"]
    BY <1>1 DEF PumpReads
  <2>2. Head(pipe[s]).n \in Nat /\ s \in BaseTask
    BY <1>1, <1>b DEF PumpReads, Stream, BaseTask
  <2>3. AgentInv'
    BY <1>1, <2>1, <2>2, BasePublishes, SubjectsTyped DEF PumpReads, Kind
  <2>4. pump' \in [Stream -> {"off", "reading", "awaiting", "ended", "raised"}]
    BY <1>a, <2>1 DEF Outcome
  <2>5. pipe' \in [Stream -> Seq([n : Nat, len : LineKinds])]
    BY <1>1, <1>a, <1>b DEF PumpReads
  <2>6. CoroutineTypeOK'
    BY <1>1, <2>4, <2>5 DEF PumpReads, CoroutineTypeOK
  <2>7. QED
    BY <2>3, <2>6
<1>2. CASE PumpReadsTooLong(s)
  <2>1. UNCHANGED agentVars
    BY <1>2 DEF PumpReadsTooLong
  <2>2. CoroutineTypeOK'
    BY <1>2, <1>a, <1>b DEF PumpReadsTooLong, CoroutineTypeOK
  <2>3. QED
    BY <2>1, <2>2, AgentUnchanged
<1>3. CASE PumpReturns(s) \/ PumpEnds(s)
  <2>1. UNCHANGED agentVars
    BY <1>3 DEF PumpReturns, PumpEnds
  <2>2. CoroutineTypeOK'
    BY <1>3, <1>a DEF PumpReturns, PumpEnds, CoroutineTypeOK, procVars
  <2>3. QED
    BY <2>1, <2>2, AgentUnchanged
<1>4. QED
  BY <1>1, <1>2, <1>3 DEF PumpStep

LEMMA PayloadKeeps ==
  ASSUME IInv,
         (\E s \in Stream : PayloadWrites(s)) \/ PayloadForks \/ PayloadExits \/ OrphanExits
  PROVE  IInv'
<1> USE DEF IInv
<1>1. ASSUME NEW s \in Stream, PayloadWrites(s)
      PROVE  IInv'
  <2>1. UNCHANGED agentVars
    BY <1>1 DEF PayloadWrites
  <2>a. /\ pipe \in [Stream -> Seq([n : Nat, len : LineKinds])]
        /\ written \in [Stream -> Nat]
    BY DEF CoroutineTypeOK
  <2>2. PICK l \in LineKinds :
          pipe' = [pipe EXCEPT ![s] = Append(@, [n |-> written[s] + 1, len |-> l])]
    BY <1>1 DEF PayloadWrites
  <2>3. [n |-> written[s] + 1, len |-> l] \in PipeLine
    BY <2>a DEF PipeLine
  <2>b. pipe[s] \in Seq(PipeLine)
    BY <2>a DEF PipeLine
  <2>4. pipe' \in [Stream -> Seq([n : Nat, len : LineKinds])]
    <3>1. Append(pipe[s], [n |-> written[s] + 1, len |-> l]) \in Seq(PipeLine)
      BY <2>b, <2>3, PipesTyped
    <3>2. QED
      BY <2>a, <2>2, <3>1 DEF PipeLine
  <2>5. CoroutineTypeOK'
    <3>1. written' \in [Stream -> Nat]
      BY <1>1, <2>a DEF PayloadWrites
    <3>2. UNCHANGED <<main, hb, beats, pump, proc, status, orphan, faults>>
      BY <1>1 DEF PayloadWrites
    <3>3. QED
      BY <2>4, <3>1, <3>2 DEF CoroutineTypeOK
  <2>6. QED
    BY <2>1, <2>5, AgentUnchanged
<1>2. CASE PayloadForks \/ PayloadExits \/ OrphanExits
  <2>1. UNCHANGED agentVars /\ CoroutineTypeOK'
    BY <1>2 DEF PayloadForks, PayloadExits, OrphanExits, CoroutineTypeOK
  <2>2. QED
    BY <2>1, AgentUnchanged
<1>3. QED
  BY <1>1, <1>2

LEMMA SocketAndBusKeep ==
  ASSUME IInv, (\E c \in Client : PeerStep(c) \/ SocketStep(c)) \/ BusStep \/ BusFails
  PROVE  IInv'
<1>1. ASSUME NEW c \in Client, PeerStep(c)
      PROVE  IInv'
  <2>1. AgentInv'
    BY <1>1, PeerKeeps DEF IInv, PeerStep
  <2>2. CoroutineTypeOK'
    BY <1>1 DEF IInv, PeerStep, CoroutineTypeOK, procVars
  <2>3. QED
    BY <2>1, <2>2 DEF IInv
<1>2. ASSUME NEW c \in Client, SocketStep(c)
      PROVE  IInv'
  <2>1. AgentInv'
    BY <1>2, ClientStepKeeps DEF IInv, SocketStep
  <2>2. CoroutineTypeOK'
    BY <1>2 DEF IInv, SocketStep, CoroutineTypeOK, procVars
  <2>3. QED
    BY <2>1, <2>2 DEF IInv
<1>3. CASE BusStep \/ BusFails
  <2>1. /\ sent' \in 0..Len(out)
        /\ bus' \in {"up", "down", "closed"}
        /\ UNCHANGED <<seq, out, socketVars>>
    BY <1>3 DEF BusStep, BusFails, BusFlush, BusReconnects, BusGivesUp, BusDrops,
                socketVars, IInv, AgentInv, AgentTypeOK
  <2>2. AgentInv'
    BY <2>1, BusKeeps DEF IInv
  <2>3. CoroutineTypeOK'
    <3>1. faults' \in Nat
      BY <1>3 DEF BusStep, BusFails, CoroutineTypeOK, IInv
    <3>2. UNCHANGED <<main, hb, beats, pump, procVars>>
      BY <1>3 DEF BusStep, BusFails
    <3>3. QED
      BY <3>1, <3>2 DEF CoroutineTypeOK, procVars, IInv
  <2>4. QED
    BY <2>2, <2>3 DEF IInv
<1>4. QED
  BY <1>1, <1>2, <1>3

-----------------------------------------------------------------------------
LEMMA InitEstablishes == Init => IInv
<1> SUFFICES ASSUME Init PROVE IInv
  OBVIOUS
<1>1. AgentInit
  BY DEF Init
<1>2. AgentTypeOK
  BY <1>1 DEF AgentInit, AgentTypeOK, NoReply, Result
<1>3. WireOK
  BY <1>1 DEF AgentInit, WireOK, SeqFollowsOrder, OutIsGranted
<1>4. QueuedWereAsked /\ PendingAccepted /\ OkMeansAccepted
  BY <1>1 DEF AgentInit, QueuedWereAsked, PendingAccepted, OkMeansAccepted, NoReply
<1>5. CoroutineTypeOK
  <2>1. pipe \in [Stream -> Seq([n : Nat, len : LineKinds])]
    BY PipesTyped DEF Init, PipeLine
  <2>2. QED
    BY <2>1 DEF Init, CoroutineTypeOK, ExitStatus
<1>6. QED
  BY <1>2, <1>3, <1>4, <1>5 DEF IInv, AgentInv

LEMMA NextKeeps == IInv /\ [Next]_vars => IInv'
<1> SUFFICES ASSUME IInv, [Next]_vars PROVE IInv'
  OBVIOUS
<1>1. CASE MainStep
  BY <1>1, MainStepKeeps
<1>2. CASE HbBeats \/ HbReturns \/ HbWakes
  BY <1>2, HeartbeatKeeps
<1>3. ASSUME NEW s \in Stream, PumpStep(s)
      PROVE  IInv'
  BY <1>3, PumpKeeps
<1>4. CASE (\E s \in Stream : PayloadWrites(s)) \/ PayloadForks \/ PayloadExits \/ OrphanExits
  BY <1>4, PayloadKeeps
<1>5. CASE (\E c \in Client : PeerStep(c) \/ SocketStep(c)) \/ BusStep \/ BusFails
  BY <1>5, SocketAndBusKeep
<1>6. CASE UNCHANGED vars
  BY <1>6, AgentUnchanged DEF vars, IInv, CoroutineTypeOK
<1>7. QED
  BY <1>1, <1>2, <1>3, <1>4, <1>5, <1>6 DEF Next, Ended

LEMMA Inductive == Spec => []IInv
<1>1. Init => IInv
  BY InitEstablishes
<1>2. IInv /\ [Next]_vars => IInv'
  BY NextKeeps
<1>3. QED
  BY <1>1, <1>2, PTL DEF Spec

(* The state of every coroutine, socket connection and pipe keeps its      *)
(* type, for any number of clients and any bound.                          *)
THEOREM CitizenTyped == Spec => []TypeOK
<1>1. IInv => TypeOK
  BY DEF IInv, AgentInv, TypeOK
<1>2. QED
  BY <1>1, Inductive, PTL

(* However main, heartbeat, pumps and clients interleave in publish(), no  *)
(* two envelopes share a number and none overtakes an older one.           *)
THEOREM NumbersFollowOrder == Spec => []SeqFollowsOrder
<1>1. IInv => SeqFollowsOrder
  BY DEF IInv, AgentInv, WireOK
<1>2. QED
  BY <1>1, Inductive, PTL

LEMMA PatternsStayWithin == PatternsNotWidened
<1> SUFFICES ASSUME NEW p \in Pattern, NEW s \in Word(Literals)
             PROVE  WithinBus({p}, s) /\ WithinBus({p, <<Citizen, Context>>}, s)
  BY DEF PatternsNotWidened
<1> DEFINE S == Literals \cup {"*", ">"}
<1>1. p \in Seq(S)
  <2>1. PICK n \in 1..3 : p \in [1..n -> S]
    BY DEF Pattern, Word
  <2> QED
    BY <2>1
<1>2. s \in Seq(Literals)
  <2>1. PICK n \in 1..3 : s \in [1..n -> Literals]
    BY DEF Word
  <2> QED
    BY <2>1
<1>3. <<Citizen, Context>> \in Seq(S)
  BY DEF Literals
<1> HIDE DEF S
<1> QED
  BY <1>1, <1>2, <1>3, NeverWider

(* Every subject the model speaks of is a sequence. *)
LEMMA SubjectsAreSequences ==
  ASSUME NEW s \in Subject
  PROVE  \E S : s \in Seq(S)
<1>1. CASE s \in AskedSubjects
  BY <1>1, AgentdAssumption
<1>2. CASE s = output_subject(Citizen, Context)
  <2>1. s \in Seq({"acta", Citizen, Context, "output"})
    BY <1>2 DEF output_subject
  <2> QED
    BY <2>1
<1>3. CASE s = event_subject(Citizen, Context)
  <2>1. s \in Seq({"acta", Citizen, Context, "event"})
    BY <1>3 DEF event_subject
  <2> QED
    BY <2>1
<1>4. CASE s = descriptor_subject(Citizen)
  <2>1. s \in Seq({"mesh", "descriptor", Citizen})
    BY <1>4 DEF descriptor_subject
  <2> QED
    BY <2>1
<1>5. CASE s = heartbeat_subject(Citizen)
  <2>1. s \in Seq({"mesh", "heartbeat", Citizen})
    BY <1>5 DEF heartbeat_subject
  <2> QED
    BY <2>1
<1> QED
  BY <1>1, <1>2, <1>3, <1>4, <1>5 DEF Subject

(* The bus, by its own reading of the credential, would let through        *)
(* whatever it was given, from any coroutine and under any grant.          *)
THEOREM TheBusGrantsItToo == Spec => []GrantNotWidened
<1>1. IInv => GrantNotWidened
  <2> SUFFICES ASSUME IInv, NEW i \in DOMAIN out
               PROVE  \E p \in PublishAllow : BusCovers(p, out[i].subject)
    BY PatternsStayWithin DEF GrantNotWidened
  <2>1. out \in Seq(EnvelopeSet) /\ OutIsGranted
    BY DEF IInv, AgentInv, WireOK
  <2>2. i \in 1..Len(out) /\ out[i].subject \in Subject
    <3>1. i \in 1..Len(out) /\ out[i] \in EnvelopeSet
      BY <2>1
    <3> QED
      BY <3>1 DEF EnvelopeSet
  <2>3. WithinBus(PublishAllow, out[i].subject)
    <3>1. PICK S : out[i].subject \in Seq(S)
      BY <2>2, SubjectsAreSequences
    <3> QED
      BY <3>1, NeverWider, AgentdAssumption
  <2> QED
    BY <2>1, <2>2, <2>3 DEF OutIsGranted, WithinBus
<1> QED
  BY <1>1, Inductive, PTL

(* A payload that was told ok has an envelope of its own among those the   *)
(* bus client accepted, and was told a number at least as new.             *)
THEOREM OkIsKept == Spec => []OkMeansAccepted
<1>1. IInv => OkMeansAccepted
  BY DEF IInv, AgentInv
<1>2. QED
  BY <1>1, Inductive, PTL

-----------------------------------------------------------------------------
(* Completeness of a clean end.  A line is in the pipe or accepted as long *)
(* as its pump has not raised; main leaves gather() only behind two ended  *)
(* pumps, which end only on an empty pipe nobody can write to any more; so *)
(* what is on the bus when drain() returns is all there is.                *)

(* The grant covers what the citizen reports of its payload.               *)
ReportsGranted ==
  ~Refused(output_subject(Citizen, Context)) /\ ~Refused(event_subject(Citizen, Context))

(* The grant that a spawn mints does so, for every citizen and context     *)
(* whose names the taxonomy takes (minting.transport_grant).               *)
THEOREM MintedGrantCovers ==
  ASSUME PublishAllow = transport_grant(Citizen, Context), {Citizen, Context} \subseteq Token
  PROVE  ReportsGranted
<1>1. in_taxonomy(output_subject(Citizen, Context))
  <2>1. <<"acta", "*", "*", "output">> \in Patterns
    BY DEF Patterns
  <2>2. MatchesPattern(<<"acta", "*", "*", "output">>, output_subject(Citizen, Context))
    BY DEF MatchesPattern, FullyMatches, output_subject
  <2> QED
    BY <2>1, <2>2 DEF in_taxonomy
<1>2. in_taxonomy(event_subject(Citizen, Context))
  <2>1. <<"acta", "*", "*", "event">> \in Patterns
    BY DEF Patterns
  <2>2. MatchesPattern(<<"acta", "*", "*", "event">>, event_subject(Citizen, Context))
    BY DEF MatchesPattern, FullyMatches, event_subject
  <2> QED
    BY <2>1, <2>2 DEF in_taxonomy
<1>3. \A s \in PublishAllow : subject_granted(PublishAllow, s)
  BY DEF subject_granted, Covers
<1>4. /\ output_subject(Citizen, Context) \in PublishAllow
      /\ event_subject(Citizen, Context) \in PublishAllow
  BY DEF transport_grant
<1> QED
  BY <1>1, <1>2, <1>3, <1>4 DEF ReportsGranted, Refused

InPipe(s, k) == \E i \in 1..Len(pipe[s]) : pipe[s][i].n = k
Accepted(t, k) == \E i \in 1..Len(out) : out[i].by = t /\ out[i].n = k
ExitAccepted == \E i \in 1..Len(out) : out[i].kind = "exit" /\ out[i].n = status

AfterGather == {"wait", "exiting", "stop", "draining", "returned"}

LinesKept ==
  \A s \in Stream : pump[s] # "raised" =>
    \A k \in 1..written[s] : InPipe(s, k) \/ Accepted(s, k)

PumpsEnd ==
  /\ \A s \in Stream : pump[s] = "ended" => pipe[s] = <<>> /\ proc = "exited" /\ ~orphan
  /\ main \in AfterGather /\ proc # "none" => \A s \in Stream : pump[s] = "ended"
  /\ main \in {"describe", "describing", "launch", "idle"} =>
       proc = "none" /\ \A s \in Stream : pump[s] = "off"

ExitReported ==
  /\ main \in AfterGather \ {"wait"} /\ proc = "exited" => ExitAccepted
  /\ main = "returned" => sent = Len(out)

Complete == LinesKept /\ PumpsEnd /\ ExitReported

(* What was accepted stays. *)
Keeps == \A i \in 1..Len(out) : i \in 1..Len(out') /\ out'[i] = out[i]

LEMMA PublishKeepsOut ==
  ASSUME IInv, NEW t, NEW s, NEW kind, NEW n, NEW r, publish(t, s, kind, n, r)
  PROVE  /\ Keeps
         /\ r = "awaiting" => \E i \in 1..Len(out') :
                                out'[i].by = t /\ out'[i].kind = kind /\ out'[i].n = n
<1>1. out \in Seq(EnvelopeSet)
  BY DEF IInv, AgentInv, WireOK
<1>2. CASE out' = out /\ r # "awaiting"
  BY <1>2 DEF Keeps
<1>3. CASE out' = Append(out, Envelope(t, s, kind, n))
  <2> DEFINE e == Envelope(t, s, kind, n)
  <2>1. e.by = t /\ e.kind = kind /\ e.n = n
    BY DEF Envelope
  <2>2. Len(out') = Len(out) + 1 /\ out'[Len(out) + 1] = e
    BY <1>1, <1>3
  <2>3. \A i \in 1..Len(out) : out'[i] = out[i]
    BY <1>1, <1>3
  <2>4. Len(out) \in Nat
    BY <1>1
  <2> HIDE DEF e
  <2> QED
    BY <2>1, <2>2, <2>3, <2>4 DEF Keeps
<1> QED
  BY <1>2, <1>3 DEF publish

LEMMA ClientKeepsOut ==
  ASSUME IInv, NEW c \in Client, ClientStep(c)
  PROVE  Keeps /\ UNCHANGED sent
<1>1. ASSUME NEW s, AskPublish(c, s) PROVE Keeps /\ UNCHANGED sent
  <2>1. PICK r \in Outcome : publish(c, s, "client", asked[c] - queued[c] + 1, r)
    BY <1>1 DEF AskPublish
  <2> QED
    BY <2>1, PublishKeepsOut DEF publish
<1>2. CASE UNCHANGED <<out, sent>>
  BY <1>2 DEF Keeps
<1> QED
  BY <1>1, <1>2 DEF ClientStep, PublishReturns, AskSubscribe, AskOther, RequestTooLong

LEMMA AcceptedStays ==
  ASSUME Keeps
  PROVE  /\ \A t, k : Accepted(t, k) => Accepted(t, k)'
         /\ status' = status => (ExitAccepted => ExitAccepted')
  BY DEF Keeps, Accepted, ExitAccepted

(* A step of neither main nor the pumps nor the payload. *)
LEMMA OthersKeepComplete ==
  ASSUME Complete, Keeps, UNCHANGED <<main, pump, procVars>>, main # "returned"
  PROVE  Complete'
<1>1. LinesKept'
  BY AcceptedStays DEF Complete, LinesKept, InPipe, procVars
<1>2. PumpsEnd'
  BY DEF Complete, PumpsEnd, procVars
<1>3. ExitReported'
  BY AcceptedStays DEF Complete, ExitReported, procVars
<1> QED
  BY <1>1, <1>2, <1>3 DEF Complete

(* The first line leaves the pipe, the others stay in it. *)
LEMMA HeadLeaves ==
  ASSUME NEW q \in Seq(PipeLine), q # <<>>, NEW i \in 1..Len(q)
  PROVE  \/ q[i] = Head(q)
         \/ \E j \in 1..Len(Tail(q)) : Tail(q)[j] = q[i]
<1>1. CASE i = 1
  BY <1>1
<1>2. CASE i # 1
  <2>1. i - 1 \in 1..Len(Tail(q)) /\ Tail(q)[i - 1] = q[i]
    BY <1>2
  <2> QED
    BY <2>1
<1> QED
  BY <1>1, <1>2

LEMMA PumpKeepsComplete ==
  ASSUME ReportsGranted, IInv, Complete, NEW s \in Stream, PumpStep(s)
  PROVE  Complete'
<1>0. /\ pump \in [Stream -> {"off", "reading", "awaiting", "ended", "raised"}]
      /\ pipe \in [Stream -> Seq(PipeLine)]
      /\ main # "returned"
  BY DEF IInv, CoroutineTypeOK, PipeLine, PumpStep, PumpReads, PumpReadsTooLong, PumpReturns,
         PumpEnds, Over
<1>1. CASE PumpReads(s)
  <2>1. PICK r \in Outcome :
          /\ publish(s, output_subject(Citizen, Context), "line", Head(pipe[s]).n, r)
          /\ pump' = [pump EXCEPT ![s] = CASE r = "refused" -> "reading"
                                           [] r = "raised" -> "raised"
                                           [] r = "awaiting" -> "awaiting"]
    BY <1>1 DEF PumpReads
  <2>2. /\ pump[s] = "reading" /\ pipe[s] # <<>> /\ pipe' = [pipe EXCEPT ![s] = Tail(@)]
        /\ UNCHANGED <<main, proc, status, orphan, written>>
    BY <1>1 DEF PumpReads
  <2>h. PICK h : h = Head(pipe[s]).n
    OBVIOUS
  <2>3. /\ Keeps
        /\ r = "awaiting" => Accepted(s, h)'
    BY <2>1, <2>h, PublishKeepsOut DEF Accepted
  <2>4. r # "refused"
    BY <2>1 DEF ReportsGranted, publish
  <2>5. /\ pump'[s] = IF r = "raised" THEN "raised" ELSE "awaiting"
        /\ r # "raised" => r = "awaiting"
        /\ \A t \in Stream \ {s} : pump'[t] = pump[t] /\ pipe'[t] = pipe[t]
        /\ pipe'[s] = Tail(pipe[s])
    BY <1>0, <2>1, <2>2, <2>4 DEF Outcome
  <2>6. LinesKept'
    <3> SUFFICES ASSUME NEW t \in Stream, pump'[t] # "raised", NEW k \in 1..written[t]
                 PROVE  InPipe(t, k)' \/ Accepted(t, k)'
      BY <2>2 DEF LinesKept
    <3>1. pump[t] # "raised"
      BY <2>2, <2>5
    <3>2. CASE Accepted(t, k)
      BY <2>3, <3>2, AcceptedStays
    <3>3. CASE InPipe(t, k) /\ t # s
      BY <2>5, <3>3 DEF InPipe
    <3>4. CASE InPipe(t, k) /\ t = s
      <4>1. PICK i \in 1..Len(pipe[s]) : pipe[s][i].n = k
        BY <3>4 DEF InPipe
      <4>2. \/ pipe[s][i] = Head(pipe[s])
            \/ \E j \in 1..Len(Tail(pipe[s])) : Tail(pipe[s])[j] = pipe[s][i]
        BY <1>0, <2>2, HeadLeaves
      <4>3. CASE pipe[s][i] = Head(pipe[s])
        <5>1. h = k /\ r = "awaiting"
          BY <2>h, <2>5, <3>4, <4>1, <4>3
        <5> QED
          BY <2>3, <3>4, <5>1
      <4>4. CASE \E j \in 1..Len(Tail(pipe[s])) : Tail(pipe[s])[j] = pipe[s][i]
        BY <2>5, <3>4, <4>1, <4>4 DEF InPipe
      <4> QED
        BY <4>2, <4>3, <4>4
    <3> QED
      BY <3>1, <3>2, <3>3, <3>4 DEF Complete, LinesKept
  <2>7. PumpsEnd'
    BY <2>2, <2>5 DEF Complete, PumpsEnd
  <2>8. ExitReported'
    BY <1>0, <2>2, <2>3, AcceptedStays DEF Complete, ExitReported
  <2> QED
    BY <2>6, <2>7, <2>8 DEF Complete
<1>2. CASE PumpReadsTooLong(s)
  <2>1. /\ pump[s] = "reading" /\ pump'[s] = "raised"
        /\ \A t \in Stream \ {s} : pump'[t] = pump[t] /\ pipe'[t] = pipe[t]
        /\ UNCHANGED <<out, main, proc, status, orphan, written, sent>>
    BY <1>0, <1>2 DEF PumpReadsTooLong, agentVars
  <2>2. LinesKept'
    BY <2>1 DEF Complete, LinesKept, InPipe, Accepted
  <2>3. PumpsEnd' /\ ExitReported'
    BY <2>1 DEF Complete, PumpsEnd, ExitReported, ExitAccepted
  <2> QED
    BY <2>2, <2>3 DEF Complete
<1>3. CASE PumpReturns(s) \/ PumpEnds(s)
  <2>1. /\ pump[s] \in {"reading", "awaiting"}
        /\ \/ pump'[s] = "reading"
           \/ pump'[s] = "ended" /\ pipe[s] = <<>> /\ proc = "exited" /\ ~orphan
        /\ \A t \in Stream \ {s} : pump'[t] = pump[t]
        /\ UNCHANGED <<out, main, proc, status, orphan, written, pipe, sent>>
    BY <1>0, <1>3 DEF PumpReturns, PumpEnds, agentVars, procVars
  <2>2. LinesKept'
    BY <2>1 DEF Complete, LinesKept, InPipe, Accepted
  <2>3. PumpsEnd' /\ ExitReported'
    BY <2>1 DEF Complete, PumpsEnd, ExitReported, ExitAccepted
  <2> QED
    BY <2>2, <2>3 DEF Complete
<1> QED
  BY <1>1, <1>2, <1>3 DEF PumpStep

LEMMA MainKeepsComplete ==
  ASSUME ReportsGranted, IInv, Complete, MainStep
  PROVE  Complete'
<1>0. pump \in [Stream -> {"off", "reading", "awaiting", "ended", "raised"}]
  BY DEF IInv, CoroutineTypeOK
<1>1. CASE MainDescribes
  <2>1. PICK r \in Outcome :
          publish("main", descriptor_subject(Citizen), "descriptor", 0, r)
    BY <1>1 DEF MainDescribes
  <2>2. /\ main = "describe" /\ main' \in {"launch", "crashed", "describing"}
        /\ UNCHANGED <<pump, proc, status, orphan, written, pipe>>
    BY <1>1 DEF MainDescribes, Outcome, procVars
  <2>3. Keeps
    BY <2>1, PublishKeepsOut
  <2>4. LinesKept'
    BY <2>2, <2>3, AcceptedStays DEF Complete, LinesKept, InPipe
  <2> QED
    BY <2>2, <2>4 DEF Complete, PumpsEnd, ExitReported, AfterGather
<1>2. CASE MainReportsExit
  <2>1. PICK r \in Outcome :
          /\ publish("main", event_subject(Citizen, Context), "exit", status, r)
          /\ main' = CASE r = "refused" -> "stop"
                       [] r = "raised" -> "crashed"
                       [] r = "awaiting" -> "exiting"
    BY <1>2 DEF MainReportsExit
  <2>2. /\ main = "wait" /\ proc = "exited"
        /\ UNCHANGED <<pump, proc, status, orphan, written, pipe>>
    BY <1>2 DEF MainReportsExit, procVars
  <2>3. Keeps
    BY <2>1, PublishKeepsOut
  <2>4. r # "refused"
    BY <2>1 DEF ReportsGranted, publish
  <2>5. main' = "crashed" \/ (main' = "exiting" /\ ExitAccepted')
    <3>1. r \in {"raised", "awaiting"}
      BY <2>4 DEF Outcome
    <3>2. CASE r = "raised"
      BY <2>1, <3>2
    <3>3. CASE r = "awaiting"
      <4>1. \E i \in 1..Len(out') : out'[i].kind = "exit" /\ out'[i].n = status
        BY <2>1, <3>3, PublishKeepsOut
      <4> QED
        BY <2>1, <2>2, <3>3, <4>1 DEF ExitAccepted
    <3> QED
      BY <3>1, <3>2, <3>3
  <2>6. LinesKept'
    BY <2>2, <2>3, AcceptedStays DEF Complete, LinesKept, InPipe
  <2>7. PumpsEnd'
    BY <2>2, <2>5 DEF Complete, PumpsEnd, AfterGather
  <2>8. ExitReported'
    BY <2>5 DEF ExitReported, AfterGather
  <2> QED
    BY <2>6, <2>7, <2>8 DEF Complete
<1>3. CASE MainDrained
  <2>1. /\ main = "draining"
        /\ (main' = "returned" /\ sent' = Len(out)) \/ main' = "crashed"
        /\ UNCHANGED <<out, pump, proc, status, orphan, written, pipe>>
    BY <1>3 DEF MainDrained, procVars
  <2>2. LinesKept'
    BY <2>1 DEF Complete, LinesKept, InPipe, Accepted
  <2> QED
    BY <2>1, <2>2 DEF Complete, PumpsEnd, ExitReported, ExitAccepted, AfterGather
<1>4. CASE MainLaunches
  <2>1. /\ main' = "run" /\ proc' = "running" /\ main = "launch"
        /\ \A s \in Stream : pump'[s] = "reading"
        /\ UNCHANGED <<out, status, orphan, written, pipe>>
    BY <1>4 DEF MainLaunches, agentVars
  <2>2. proc = "none"
    BY <2>1 DEF Complete, PumpsEnd
  <2>3. \A s \in Stream : pump[s] # "raised"
    BY <2>1, <2>2 DEF Complete, PumpsEnd
  <2>4. LinesKept'
    BY <2>1, <2>3 DEF Complete, LinesKept, InPipe, Accepted
  <2> QED
    BY <2>1, <2>4 DEF Complete, PumpsEnd, ExitReported, AfterGather
<1>5. CASE MainGathers
  <2>1. /\ main' = "wait" /\ \A s \in Stream : pump[s] = "ended"
        /\ UNCHANGED <<out, pump, proc, status, orphan, written, pipe>>
    BY <1>5 DEF MainGathers, agentVars, procVars
  <2>2. LinesKept'
    BY <2>1 DEF Complete, LinesKept, InPipe, Accepted
  <2> QED
    BY <2>1, <2>2 DEF Complete, PumpsEnd, ExitReported, AfterGather
<1>6. CASE \/ MainDescribed \/ MainLaunchFails \/ MainIdles \/ MainIdleEnds
           \/ MainGatherRaises \/ MainReported \/ MainStops
  <2>1. /\ \/ main' = "crashed"
           \/ main = "describing" /\ main' = "launch"
           \/ main = "launch" /\ main' = "idle"
           \/ main = "idle" /\ main' = "stop"
           \/ main = "exiting" /\ main' = "stop"
           \/ main = "stop" /\ main' = "draining"
        /\ UNCHANGED <<out, pump, proc, status, orphan, written, pipe>>
    BY <1>6 DEF MainDescribed, MainLaunchFails, MainIdles, MainIdleEnds, MainGatherRaises,
                MainReported, MainStops, agentVars, procVars
  <2>2. LinesKept'
    BY <2>1 DEF Complete, LinesKept, InPipe, Accepted
  <2> QED
    BY <2>1, <2>2 DEF Complete, PumpsEnd, ExitReported, ExitAccepted, AfterGather
<1> QED
  BY <1>1, <1>2, <1>3, <1>4, <1>5, <1>6 DEF MainStep

LEMMA PayloadKeepsComplete ==
  ASSUME IInv, Complete,
         (\E s \in Stream : PayloadWrites(s)) \/ PayloadForks \/ PayloadExits \/ OrphanExits
  PROVE  Complete'
<1>0. /\ pipe \in [Stream -> Seq(PipeLine)]
      /\ written \in [Stream -> Nat]
  BY DEF IInv, CoroutineTypeOK, PipeLine
<1>1. ASSUME NEW s \in Stream, PayloadWrites(s) PROVE Complete'
  <2>1. PICK l \in LineKinds :
          pipe' = [pipe EXCEPT ![s] = Append(@, [n |-> written[s] + 1, len |-> l])]
    BY <1>1 DEF PayloadWrites
  <2>2. /\ Writer /\ main # "returned"
        /\ written' = [written EXCEPT ![s] = @ + 1]
        /\ UNCHANGED <<out, sent, main, pump, proc, status, orphan>>
    BY <1>1 DEF PayloadWrites, agentVars, Over
  <2>3. \A t \in Stream : pump[t] # "ended"
    BY <2>2 DEF Complete, PumpsEnd, Writer
  <2>w. PICK w \in Nat : w = written[s] + 1
    BY <1>0
  <2>4. /\ \A i \in 1..Len(pipe[s]) : i \in 1..Len(pipe'[s]) /\ pipe'[s][i] = pipe[s][i]
        /\ InPipe(s, w)'
        /\ \A t \in Stream \ {s} : pipe'[t] = pipe[t] /\ written'[t] = written[t]
    <3> DEFINE x == [n |-> written[s] + 1, len |-> l]
    <3>1. x \in PipeLine /\ x.n = written[s] + 1
      BY <1>0 DEF PipeLine
    <3>2. pipe[s] \in Seq(PipeLine) /\ pipe'[s] = Append(pipe[s], x)
      BY <1>0, <2>1
    <3> HIDE DEF x
    <3>3. /\ Len(pipe'[s]) = Len(pipe[s]) + 1 /\ pipe'[s][Len(pipe[s]) + 1] = x
          /\ Len(pipe[s]) \in Nat
          /\ \A i \in 1..Len(pipe[s]) : pipe'[s][i] = pipe[s][i]
      BY <3>1, <3>2
    <3>4. \E i \in 1..Len(pipe'[s]) : pipe'[s][i].n = w
      BY <2>w, <3>1, <3>3
    <3> QED
      BY <1>0, <2>1, <2>2, <3>3, <3>4 DEF InPipe
  <2>5. LinesKept'
    <3> SUFFICES ASSUME NEW t \in Stream, pump[t] # "raised", NEW k \in 1..written'[t]
                 PROVE  InPipe(t, k)' \/ Accepted(t, k)'
      BY <2>2 DEF LinesKept
    <3>1. CASE k \in 1..written[t]
      <4>1. InPipe(t, k) \/ Accepted(t, k)
        BY <3>1 DEF Complete, LinesKept
      <4>2. Accepted(t, k) => Accepted(t, k)'
        BY <2>2 DEF Accepted
      <4>3. InPipe(t, k) => InPipe(t, k)'
        BY <2>4 DEF InPipe
      <4> QED
        BY <4>1, <4>2, <4>3
    <3>2. CASE k \notin 1..written[t]
      <4>1. t = s /\ k = w
        <5>1. t = s
          BY <2>4, <3>2
        <5>2. written'[s] = written[s] + 1 /\ written[s] \in Nat
          BY <1>0, <2>2
        <5> QED
          BY <2>w, <3>2, <5>1, <5>2
      <4> QED
        BY <2>4, <4>1
    <3> QED
      BY <3>1, <3>2
  <2>6. PumpsEnd'
    BY <2>2, <2>3 DEF Complete, PumpsEnd
  <2>7. ExitReported'
    BY <2>2 DEF Complete, ExitReported, ExitAccepted
  <2> QED
    BY <2>5, <2>6, <2>7 DEF Complete
<1>2. CASE PayloadForks \/ PayloadExits \/ OrphanExits
  <2>1. /\ UNCHANGED <<out, sent, main, pump, written, pipe>>
        /\ \/ proc = "running" /\ UNCHANGED <<proc, status>>
           \/ proc = "running" /\ proc' = "exited" /\ UNCHANGED orphan
           \/ orphan' = FALSE /\ UNCHANGED <<proc, status>>
        /\ main # "returned"
    BY <1>2 DEF PayloadForks, PayloadExits, OrphanExits, agentVars, Over
  <2>2. LinesKept'
    BY <2>1 DEF Complete, LinesKept, InPipe, Accepted
  <2>3. "stdout" \in Stream
    BY DEF Stream
  <2>4. PumpsEnd'
    BY <2>1, <2>3 DEF Complete, PumpsEnd
  <2>5. ExitReported'
    BY <2>1, <2>3 DEF Complete, PumpsEnd, ExitReported, ExitAccepted, AfterGather
  <2> QED
    BY <2>2, <2>4, <2>5 DEF Complete
<1> QED
  BY <1>1, <1>2

LEMMA CompleteInit == Init => Complete
  BY DEF Init, Complete, LinesKept, PumpsEnd, ExitReported, AfterGather

LEMMA CompleteNext ==
  ASSUME ReportsGranted
  PROVE  IInv /\ Complete /\ [Next]_vars => Complete'
<1> SUFFICES ASSUME IInv, Complete, [Next]_vars PROVE Complete'
  OBVIOUS
<1>1. CASE MainStep
  BY <1>1, MainKeepsComplete
<1>2. CASE HbBeats \/ HbReturns \/ HbWakes
  <2>1. UNCHANGED <<main, pump, procVars>> /\ main # "returned"
    BY <1>2 DEF HbBeats, HbReturns, HbWakes, Over
  <2>2. Keeps
    <3>1. CASE HbBeats
      BY <3>1, PublishKeepsOut DEF HbBeats
    <3>2. CASE HbReturns \/ HbWakes
      BY <3>2 DEF HbReturns, HbWakes, agentVars, Keeps
    <3> QED
      BY <1>2, <3>1, <3>2
  <2> QED
    BY <2>1, <2>2, OthersKeepComplete
<1>3. ASSUME NEW s \in Stream, PumpStep(s) PROVE Complete'
  BY <1>3, PumpKeepsComplete
<1>4. CASE (\E s \in Stream : PayloadWrites(s)) \/ PayloadForks \/ PayloadExits \/ OrphanExits
  BY <1>4, PayloadKeepsComplete
<1>5. ASSUME NEW c \in Client, PeerStep(c) \/ SocketStep(c) PROVE Complete'
  <2>1. UNCHANGED <<main, pump, procVars>> /\ main # "returned"
    BY <1>5 DEF PeerStep, SocketStep, Over
  <2>2. Keeps
    BY <1>5, ClientKeepsOut DEF PeerStep, SocketStep, PeerConnects, PeerAsks, Keeps
  <2> QED
    BY <2>1, <2>2, OthersKeepComplete
<1>6. CASE BusStep \/ BusFails
  <2>1. UNCHANGED <<main, pump, procVars, out>> /\ main # "returned"
    BY <1>6 DEF BusStep, BusFails, BusFlush, BusReconnects, BusGivesUp, BusDrops, Over
  <2>2. Keeps
    BY <2>1 DEF Keeps
  <2> QED
    BY <2>1, <2>2, OthersKeepComplete
<1>7. CASE UNCHANGED vars
  BY <1>7 DEF vars, agentVars, procVars, Complete, LinesKept, PumpsEnd, ExitReported, InPipe,
              Accepted, ExitAccepted
<1> QED
  BY <1>1, <1>2, <1>3, <1>4, <1>5, <1>6, <1>7 DEF Next, Ended

(* A citizen whose grant covers its own reports and that ends in good      *)
(* order has put on the bus every line and the payload's own exit status,  *)
(* however its coroutines interleaved and the bus came and went.           *)
THEOREM CleanExitReportsAll ==
  ASSUME ReportsGranted
  PROVE  Spec => []CleanExitIsComplete
<1>1. Complete => CleanExitIsComplete
  <2> SUFFICES ASSUME Complete, main = "returned", proc = "exited"
               PROVE  /\ \A s \in Stream : \A k \in 1..written[s] :
                           \E i \in 1..sent : out[i].by = s /\ out[i].n = k
                      /\ \E i \in 1..sent : out[i].kind = "exit" /\ out[i].n = status
    BY DEF CleanExitIsComplete
  <2>1. sent = Len(out) /\ ExitAccepted
    BY DEF Complete, ExitReported, AfterGather
  <2>2. \A s \in Stream : pump[s] = "ended" /\ pipe[s] = <<>>
    BY DEF Complete, PumpsEnd, AfterGather
  <2>3. \A s \in Stream : \A k \in 1..written[s] : Accepted(s, k)
    BY <2>2 DEF Complete, LinesKept, InPipe
  <2> QED
    BY <2>1, <2>3 DEF Accepted, ExitAccepted
<1>2. Init => Complete
  BY CompleteInit
<1>3. IInv /\ Complete /\ [Next]_vars => Complete'
  BY CompleteNext
<1> QED
  BY <1>1, <1>2, <1>3, Inductive, PTL DEF Spec

-----------------------------------------------------------------------------
(* The refinement of Telemetry.  A stream's lines are numbered without a   *)
(* gap through its pipe and through what was accepted of it; the record is *)
(* as far as one flush or another came; the exit is behind every line and  *)
(* after it nothing is written.                                            *)

(* The lines of s that were accepted: a pump that raised lost one.         *)
Taken(s) == written[s] - Len(pipe[s]) - (IF pump[s] = "raised" THEN 1 ELSE 0)

PipeNumbered(s) ==
  /\ Taken(s) \in Nat
  /\ \A k \in 1..Len(pipe[s]) : pipe[s][k].n = written[s] - Len(pipe[s]) + k

LinesNumbered(s) ==
  /\ \A i \in 1..Len(out) : out[i].by = s => out[i].n \in 1..Taken(s)
  /\ \A k \in 1..Taken(s) : Accepted(s, k)
  /\ \A i, j \in 1..Len(out) : i < j /\ out[i].by = s /\ out[j].by = s => out[i].n < out[j].n

(* The numbers on record are 1..h. *)
RecordedUpTo(s, h) ==
  \A k \in Nat : k \in 1..h <=> \E i \in 1..sent : out[i].by = s /\ out[i].n = k

RecordIsPrefix(s) == \E h \in 0..Taken(s) : RecordedUpTo(s, h)

ExitIsLast ==
  \A i \in 1..Len(out) : out[i].kind = "exit" =>
    /\ main \in {"exiting", "stop", "draining", "returned", "crashed"}
    /\ proc = "exited"
    /\ out[i].n = status
    /\ \A s \in Stream : pump[s] = "ended"
    /\ \A j \in 1..Len(out) : out[j].by \in Stream => j < i

TelemetryInv ==
  /\ \A s \in Stream : PipeNumbered(s) /\ LinesNumbered(s) /\ RecordIsPrefix(s)
  /\ ExitIsLast

(* One more envelope is accepted. *)
Extends(t, kind, n) ==
  /\ Len(out') = Len(out) + 1
  /\ \A i \in 1..Len(out) : out'[i] = out[i]
  /\ out'[Len(out) + 1].by = t
  /\ out'[Len(out) + 1].kind = kind
  /\ out'[Len(out) + 1].n = n

LEMMA PublishExtends ==
  ASSUME IInv, NEW t, NEW s, NEW kind, NEW n, NEW r, publish(t, s, kind, n, r)
  PROVE  /\ sent' = sent
         /\ \/ r # "awaiting" /\ out' = out
            \/ r = "awaiting" /\ Extends(t, kind, n)
<1>1. out \in Seq(EnvelopeSet)
  BY DEF IInv, AgentInv, WireOK
<1>2. CASE out' = Append(out, Envelope(t, s, kind, n)) /\ r = "awaiting"
  <2> DEFINE e == Envelope(t, s, kind, n)
  <2>1. e.by = t /\ e.kind = kind /\ e.n = n
    BY DEF Envelope
  <2>2. Len(out') = Len(out) + 1 /\ out'[Len(out) + 1] = e
    BY <1>1, <1>2
  <2>3. \A i \in 1..Len(out) : out'[i] = out[i]
    BY <1>1, <1>2
  <2> HIDE DEF e
  <2> QED
    BY <1>2, <2>1, <2>2, <2>3 DEF Extends, publish
<1> QED
  BY <1>2 DEF publish

(* A stream is as it was when nothing of it was taken. *)
LEMMA StreamKept ==
  ASSUME IInv, NEW s \in Stream, Taken(s) \in Nat, LinesNumbered(s), RecordIsPrefix(s),
         sent' = sent, Taken(s)' = Taken(s),
         out' = out \/ \E t, kind, n : Extends(t, kind, n) /\ t # s
  PROVE  LinesNumbered(s)' /\ RecordIsPrefix(s)'
<1>1. Len(out) \in Nat /\ Len(out') \in Nat /\ sent \in 0..Len(out)
  BY DEF IInv, AgentInv, WireOK, Extends
<1>2. /\ \A i \in 1..Len(out) : i \in 1..Len(out') /\ out'[i] = out[i]
      /\ \A i \in 1..Len(out') : out'[i].by = s => i \in 1..Len(out)
  BY <1>1 DEF Extends
<1>3. LinesNumbered(s)'
  BY <1>2 DEF LinesNumbered, Accepted
<1>4. \A h : RecordedUpTo(s, h) => RecordedUpTo(s, h)'
  BY <1>1, <1>2 DEF RecordedUpTo
<1> QED
  BY <1>3, <1>4 DEF RecordIsPrefix

(* Its next line is accepted. *)
LEMMA StreamTakes ==
  ASSUME IInv, NEW s \in Stream, Taken(s) \in Nat, LinesNumbered(s), RecordIsPrefix(s),
         sent' = sent, Taken(s)' = Taken(s) + 1,
         NEW kind, Extends(s, kind, Taken(s) + 1)
  PROVE  LinesNumbered(s)' /\ RecordIsPrefix(s)'
<1>1. Len(out) \in Nat /\ Len(out') = Len(out) + 1 /\ sent \in 0..Len(out)
  BY DEF IInv, AgentInv, WireOK, Extends
<1>2. /\ \A i \in 1..Len(out) : i \in 1..Len(out') /\ out'[i] = out[i]
      /\ \A i \in 1..Len(out') : i = Len(out') \/ i \in 1..Len(out)
      /\ out'[Len(out')].by = s /\ out'[Len(out')].n = Taken(s) + 1
      /\ Len(out') \in 1..Len(out')
  BY <1>1 DEF Extends
<1> DEFINE T == Taken(s)
<1>t. T \in Nat /\ Taken(s)' = T + 1
  OBVIOUS
<1>a. /\ \A i \in 1..Len(out) : out[i].by = s => out[i].n \in 1..T
      /\ \A k \in 1..T : \E i \in 1..Len(out) : out[i].by = s /\ out[i].n = k
      /\ \A i, j \in 1..Len(out) :
           i < j /\ out[i].by = s /\ out[j].by = s => out[i].n < out[j].n
      /\ out'[Len(out')].n = T + 1
  BY <1>2 DEF LinesNumbered, Accepted
<1> HIDE DEF T
<1>3. \A i \in 1..Len(out') : out'[i].by = s => out'[i].n \in 1..(T + 1)
  BY <1>t, <1>1, <1>2, <1>a
<1>4. ASSUME NEW k \in 1..(T + 1)
      PROVE  \E i \in 1..Len(out') : out'[i].by = s /\ out'[i].n = k
  <2>1. CASE k = T + 1
    BY <1>2, <1>a, <2>1
  <2>2. CASE k # T + 1
    <3>1. k \in 1..T
      BY <1>t, <2>2
    <3>2. PICK i \in 1..Len(out) : out[i].by = s /\ out[i].n = k
      BY <1>a, <3>1
    <3> QED
      BY <1>2, <3>2
  <2> QED
    BY <2>1, <2>2
<1>5. ASSUME NEW i \in 1..Len(out'), NEW j \in 1..Len(out'), i < j,
             out'[i].by = s, out'[j].by = s
      PROVE  out'[i].n < out'[j].n
  <2>1. i \in 1..Len(out)
    BY <1>1, <1>5
  <2>2. CASE j \in 1..Len(out)
    BY <1>2, <1>5, <1>a, <2>1, <2>2
  <2>3. CASE j = Len(out')
    BY <1>t, <1>2, <1>5, <1>a, <2>1, <2>3
  <2> QED
    BY <1>2, <2>2, <2>3
<1>6. LinesNumbered(s)'
  BY <1>t, <1>3, <1>4, <1>5 DEF LinesNumbered, Accepted
<1>7. \A h : RecordedUpTo(s, h) => RecordedUpTo(s, h)'
  BY <1>1, <1>2 DEF RecordedUpTo
<1>8. PICK h \in 0..T : RecordedUpTo(s, h)
  BY DEF RecordIsPrefix, T
<1>9. h \in 0..(T + 1)
  BY <1>t
<1> QED
  BY <1>t, <1>6, <1>7, <1>8, <1>9 DEF RecordIsPrefix

(* All that was accepted comes on record. *)
LEMMA StreamRecorded ==
  ASSUME IInv, NEW s \in Stream, Taken(s) \in Nat, LinesNumbered(s),
         sent' = Len(out), out' = out, Taken(s)' = Taken(s)
  PROVE  LinesNumbered(s)' /\ RecordedUpTo(s, Taken(s))' /\ RecordIsPrefix(s)'
<1>1. LinesNumbered(s)'
  BY DEF LinesNumbered, Accepted
<1>2. RecordedUpTo(s, Taken(s))'
  BY DEF LinesNumbered, Accepted, RecordedUpTo
<1>3. Taken(s)' \in 0..Taken(s)'
  OBVIOUS
<1> QED
  BY <1>1, <1>2, <1>3 DEF RecordIsPrefix

(* The exit stays the last thing said of the payload. *)
LEMMA ExitKept ==
  ASSUME IInv, ExitIsLast,
         LET Late == {"exiting", "stop", "draining", "returned", "crashed"}
         IN main \in Late => main' \in Late,
         proc = "exited" => proc' = "exited" /\ status' = status,
         \A s \in Stream : pump[s] = "ended" => pump'[s] = "ended",
         \/ out' = out
         \/ \E t, kind, n :
              /\ Extends(t, kind, n)
              /\ kind # "exit"
              /\ t \in Stream => \A i \in 1..Len(out) : out[i].kind # "exit"
  PROVE  ExitIsLast'
<1>1. Len(out) \in Nat
  BY DEF IInv, AgentInv, WireOK
<1>2. /\ \A i \in 1..Len(out) : i \in 1..Len(out') /\ out'[i] = out[i]
      /\ \A i \in 1..Len(out') : out'[i].kind = "exit" => i \in 1..Len(out)
      /\ \A i \in 1..Len(out), j \in 1..Len(out') :
           out[i].kind = "exit" /\ out'[j].by \in Stream => j \in 1..Len(out)
  BY <1>1 DEF Extends
<1> QED
  BY <1>2 DEF ExitIsLast

-----------------------------------------------------------------------------
(* TelemetryInv, step by step. *)

(* The types those steps lean on. *)
LEMMA PlainTypes ==
  ASSUME IInv
  PROVE  /\ Len(out) \in Nat /\ sent \in 0..Len(out)
         /\ written \in [Stream -> Nat]
         /\ pump \in [Stream -> {"off", "reading", "awaiting", "ended", "raised"}]
         /\ pipe \in [Stream -> Seq(PipeLine)]
         /\ \A s \in Stream : Len(pipe[s]) \in Nat
         /\ "main" \notin Stream /\ "hb" \notin Stream /\ Client \cap Stream = {}
<1>1. pipe \in [Stream -> Seq(PipeLine)]
  BY DEF IInv, CoroutineTypeOK, PipeLine
<1>2. \A s \in Stream : pipe[s] \in Seq(PipeLine)
  BY <1>1
<1>3. \A s \in Stream : Len(pipe[s]) \in Nat
  BY <1>2
<1> QED
  BY <1>1, <1>3, AgentdAssumption
     DEF IInv, AgentInv, WireOK, CoroutineTypeOK, Stream, BaseTask

(* A step that neither writes nor reads a line nor lets a pump raise. *)
LEMMA TelemetryUnlined ==
  ASSUME IInv, TelemetryInv, UNCHANGED <<written, pipe>>,
         \A s \in Stream : pump'[s] = "raised" <=> pump[s] = "raised",
         \/ /\ sent' = sent
            /\ out' = out \/ \E t, kind, n : Extends(t, kind, n) /\ t \notin Stream
         \/ sent' = Len(out) /\ out' = out,
         ExitIsLast'
  PROVE  TelemetryInv'
<1> SUFFICES ASSUME NEW s \in Stream
             PROVE  PipeNumbered(s)' /\ LinesNumbered(s)' /\ RecordIsPrefix(s)'
  BY DEF TelemetryInv
<1>1. Taken(s)' = Taken(s)
  BY DEF Taken
<1>2. PipeNumbered(s) /\ Taken(s) \in Nat /\ LinesNumbered(s) /\ RecordIsPrefix(s)
  BY DEF TelemetryInv, PipeNumbered
<1>3. PipeNumbered(s)'
  BY <1>1, <1>2 DEF PipeNumbered
<1>4. CASE sent' = sent /\ (out' = out \/ \E t, kind, n : Extends(t, kind, n) /\ t \notin Stream)
  <2>1. out' = out \/ \E t, kind, n : Extends(t, kind, n) /\ t # s
    BY <1>4
  <2> QED
    BY <1>1, <1>2, <1>3, <1>4, <2>1, StreamKept
<1>5. CASE sent' = Len(out) /\ out' = out
  BY <1>1, <1>2, <1>3, <1>5, StreamRecorded
<1> QED
  BY <1>4, <1>5

LEMMA TelemetryInit == Init => TelemetryInv
<1> SUFFICES ASSUME Init PROVE TelemetryInv
  OBVIOUS
<1>1. /\ out = <<>> /\ sent = 0
      /\ \A s \in Stream : written[s] = 0 /\ pipe[s] = <<>> /\ pump[s] = "off"
  BY DEF Init, AgentInit
<1>2. ExitIsLast
  BY <1>1 DEF ExitIsLast
<1>3. ASSUME NEW s \in Stream PROVE PipeNumbered(s) /\ LinesNumbered(s) /\ RecordIsPrefix(s)
  <2>1. Taken(s) = 0
    BY <1>1 DEF Taken
  <2>2. PipeNumbered(s)
    BY <1>1, <2>1 DEF PipeNumbered
  <2>3. LinesNumbered(s)
    BY <1>1, <2>1 DEF LinesNumbered
  <2>4. RecordedUpTo(s, 0) /\ 0 \in 0..Taken(s)
    BY <1>1, <2>1 DEF RecordedUpTo
  <2> QED
    BY <2>2, <2>3, <2>4 DEF RecordIsPrefix
<1> QED
  BY <1>2, <1>3 DEF TelemetryInv

LEMMA MainKeepsTelemetry ==
  ASSUME IInv, Complete, TelemetryInv, MainStep
  PROVE  TelemetryInv'
<1> DEFINE Late == {"exiting", "stop", "draining", "returned", "crashed"}
<1>0. ExitIsLast
  BY DEF TelemetryInv
<1>1. CASE MainDescribes
  <2>1. PICK r \in Outcome : publish("main", descriptor_subject(Citizen), "descriptor", 0, r)
    BY <1>1 DEF MainDescribes
  <2>2. sent' = sent /\ (out' = out \/ Extends("main", "descriptor", 0))
    BY <2>1, PublishExtends
  <2>3. /\ main = "describe" /\ UNCHANGED <<pump, proc, status, written, pipe>>
    BY <1>1 DEF MainDescribes, procVars
  <2>4. out' = out \/ \E t, kind, n : Extends(t, kind, n) /\ t \notin Stream /\ kind # "exit"
    BY <2>2, PlainTypes
  <2>5. ExitIsLast'
    BY <1>0, <2>3, <2>4, ExitKept
  <2> QED
    BY <2>2, <2>3, <2>4, <2>5, TelemetryUnlined
<1>2. CASE MainReportsExit
  <2>1. PICK r \in Outcome :
          /\ publish("main", event_subject(Citizen, Context), "exit", status, r)
          /\ main' = CASE r = "refused" -> "stop"
                       [] r = "raised" -> "crashed"
                       [] r = "awaiting" -> "exiting"
    BY <1>2 DEF MainReportsExit
  <2>2. /\ sent' = sent
        /\ \/ r # "awaiting" /\ out' = out
           \/ r = "awaiting" /\ Extends("main", "exit", status)
    BY <2>1, PublishExtends
  <2>3. /\ main = "wait" /\ proc = "exited"
        /\ UNCHANGED <<pump, proc, status, written, pipe>>
    BY <1>2 DEF MainReportsExit, procVars
  <2>4. /\ \A i \in 1..Len(out) : out[i].kind # "exit"
        /\ \A s \in Stream : pump[s] = "ended"
    BY <1>0, <2>3 DEF ExitIsLast, Complete, PumpsEnd, AfterGather
  <2>5. ExitIsLast'
    <3>1. CASE out' = out
      BY <2>4, <3>1 DEF ExitIsLast
    <3>2. CASE r = "awaiting" /\ Extends("main", "exit", status)
      <4>1. main' = "exiting"
        BY <2>1, <3>2
      <4>2. /\ \A i \in 1..Len(out') : out'[i].kind = "exit" => i = Len(out')
            /\ \A j \in 1..Len(out') : out'[j].by \in Stream => j < Len(out')
            /\ out'[Len(out')].n = status
        BY <2>4, <3>2, PlainTypes DEF Extends
      <4> QED
        BY <2>3, <2>4, <4>1, <4>2 DEF ExitIsLast
    <3> QED
      BY <2>2, <3>1, <3>2
  <2>6. out' = out \/ \E t, kind, n : Extends(t, kind, n) /\ t \notin Stream
    BY <2>2, PlainTypes
  <2> QED
    BY <2>2, <2>3, <2>5, <2>6, TelemetryUnlined
<1>3. CASE MainLaunches
  <2>1. /\ main = "launch" /\ \A s \in Stream : pump'[s] = "reading"
        /\ UNCHANGED <<out, sent, written, pipe>>
    BY <1>3 DEF MainLaunches, agentVars
  <2>2. \A s \in Stream : pump[s] = "off"
    BY <2>1 DEF Complete, PumpsEnd
  <2>3. ExitIsLast'
    BY <1>0, <2>1 DEF ExitIsLast
  <2> QED
    BY <2>1, <2>2, <2>3, TelemetryUnlined
<1>4. CASE MainDrained
  <2>1. /\ main' \in Late /\ (sent' = sent \/ sent' = Len(out))
        /\ UNCHANGED <<out, pump, proc, status, written, pipe>>
    BY <1>4 DEF MainDrained, procVars
  <2>2. ExitIsLast'
    BY <1>0, <2>1, ExitKept
  <2> QED
    BY <2>1, <2>2, TelemetryUnlined
<1>5. CASE \/ MainDescribed \/ MainLaunchFails \/ MainIdles \/ MainIdleEnds
           \/ MainGatherRaises \/ MainGathers \/ MainReported \/ MainStops
  <2>1. /\ main \in Late => main' \in Late
        /\ UNCHANGED <<out, sent, pump, proc, status, written, pipe>>
    BY <1>5 DEF MainDescribed, MainLaunchFails, MainIdles, MainIdleEnds, MainGatherRaises,
                MainGathers, MainReported, MainStops, agentVars, procVars
  <2>2. ExitIsLast'
    BY <1>0, <2>1, ExitKept
  <2> QED
    BY <2>1, <2>2, TelemetryUnlined
<1> QED
  BY <1>1, <1>2, <1>3, <1>4, <1>5 DEF MainStep

(* The line a pump reads is the next one, and the rest of the pipe is      *)
(* numbered as before.                                                     *)
LEMMA NextLine ==
  ASSUME IInv, NEW s \in Stream, PipeNumbered(s), pump[s] # "raised", pipe[s] # <<>>,
         pipe'[s] = Tail(pipe[s]), written' = written
  PROVE  /\ Head(pipe[s]).n = Taken(s) + 1
         /\ Len(pipe'[s]) = Len(pipe[s]) - 1
         /\ \A k \in 1..Len(pipe'[s]) : pipe'[s][k].n = written[s] - Len(pipe'[s]) + k
<1>1. /\ pipe[s] \in Seq(PipeLine) /\ written[s] \in Nat
  BY PlainTypes
<1>2. /\ Len(pipe[s]) \in Nat \ {0} /\ Head(pipe[s]) = pipe[s][1]
      /\ Len(Tail(pipe[s])) = Len(pipe[s]) - 1
      /\ \A k \in 1..Len(Tail(pipe[s])) : Tail(pipe[s])[k] = pipe[s][k + 1]
  BY <1>1
<1>3. \A k \in 1..Len(pipe[s]) : pipe[s][k].n = written[s] - Len(pipe[s]) + k
  BY DEF PipeNumbered
<1>4. Head(pipe[s]).n = Taken(s) + 1
  <2>1. pipe[s][1].n = written[s] - Len(pipe[s]) + 1
    BY <1>2, <1>3
  <2> QED
    BY <1>1, <1>2, <2>1 DEF Taken
<1>5. Len(pipe'[s]) = Len(pipe[s]) - 1
  BY <1>2
<1>6. ASSUME NEW k \in 1..Len(pipe'[s])
      PROVE  pipe'[s][k].n = written[s] - Len(pipe'[s]) + k
  <2>1. k \in Int /\ k + 1 \in 1..Len(pipe[s])
    BY <1>2, <1>5
  <2>2. pipe'[s][k] = pipe[s][k + 1]
    BY <1>2
  <2>3. pipe[s][k + 1].n = written[s] - Len(pipe[s]) + (k + 1)
    BY <1>3, <2>1
  <2> QED
    BY <1>1, <1>2, <1>5, <2>1, <2>2, <2>3
<1> QED
  BY <1>4, <1>5, <1>6

LEMMA PumpKeepsTelemetry ==
  ASSUME ReportsGranted, IInv, TelemetryInv, NEW s \in Stream, PumpStep(s)
  PROVE  TelemetryInv'
<1>0. /\ ExitIsLast
      /\ \A t \in Stream : /\ PipeNumbered(t) /\ Taken(t) \in Nat
                           /\ LinesNumbered(t) /\ RecordIsPrefix(t)
  BY DEF TelemetryInv, PipeNumbered
<1>1. CASE PumpReads(s) \/ PumpReadsTooLong(s)
  <2>1. /\ pump[s] = "reading" /\ pipe[s] # <<>>
        /\ pipe' = [pipe EXCEPT ![s] = Tail(@)]
        /\ UNCHANGED <<main, proc, status, written>>
    BY <1>1 DEF PumpReads, PumpReadsTooLong
  <2>2. /\ pipe'[s] = Tail(pipe[s])
        /\ \A t \in Stream \ {s} : pipe'[t] = pipe[t]
    BY <2>1, PlainTypes
  <2>3. /\ Head(pipe[s]).n = Taken(s) + 1
        /\ Len(pipe'[s]) = Len(pipe[s]) - 1
        /\ \A k \in 1..Len(pipe'[s]) : pipe'[s][k].n = written[s] - Len(pipe'[s]) + k
    BY <1>0, <2>1, <2>2, NextLine
  <2>4. /\ sent' = sent
        /\ \A t \in Stream \ {s} : pump'[t] = pump[t]
        /\ \/ out' = out /\ pump'[s] = "raised"
           \/ Extends(s, "line", Taken(s) + 1) /\ pump'[s] = "awaiting"
    <3>1. CASE PumpReads(s)
      <4>1. PICK r \in Outcome :
              /\ publish(s, output_subject(Citizen, Context), "line", Head(pipe[s]).n, r)
              /\ pump' = [pump EXCEPT ![s] = CASE r = "refused" -> "reading"
                                               [] r = "raised" -> "raised"
                                               [] r = "awaiting" -> "awaiting"]
        BY <3>1 DEF PumpReads
      <4>2. r \in {"raised", "awaiting"}
        BY <4>1 DEF Outcome, ReportsGranted, publish
      <4>3. /\ sent' = sent
            /\ \/ r # "awaiting" /\ out' = out
               \/ r = "awaiting" /\ Extends(s, "line", Taken(s) + 1)
        BY <2>3, <4>1, PublishExtends
      <4>4. /\ \A t \in Stream \ {s} : pump'[t] = pump[t]
            /\ pump'[s] = IF r = "raised" THEN "raised" ELSE "awaiting"
        BY <4>1, <4>2, PlainTypes
      <4> QED
        BY <4>2, <4>3, <4>4
    <3>2. CASE PumpReadsTooLong(s)
      BY <3>2, PlainTypes DEF PumpReadsTooLong, agentVars
    <3> QED
      BY <1>1, <3>1, <3>2
  <2>5. Taken(s)' = IF pump'[s] = "raised" THEN Taken(s) ELSE Taken(s) + 1
    <3>1. written[s] \in Nat /\ Len(pipe[s]) \in Nat
      BY PlainTypes
    <3> QED
      BY <2>1, <2>3, <3>1 DEF Taken
  <2>6. PipeNumbered(s)'
    BY <1>0, <2>1, <2>3, <2>5 DEF PipeNumbered
  <2>7. LinesNumbered(s)' /\ RecordIsPrefix(s)'
    <3>1. CASE out' = out /\ pump'[s] = "raised"
      BY <1>0, <2>4, <2>5, <3>1, StreamKept
    <3>2. CASE Extends(s, "line", Taken(s) + 1) /\ pump'[s] = "awaiting"
      BY <1>0, <2>4, <2>5, <3>2, StreamTakes
    <3> QED
      BY <2>4, <3>1, <3>2
  <2>8. ASSUME NEW t \in Stream \ {s}
        PROVE  PipeNumbered(t)' /\ LinesNumbered(t)' /\ RecordIsPrefix(t)'
    <3>1. Taken(t)' = Taken(t)
      BY <2>1, <2>2, <2>4 DEF Taken
    <3>2. PipeNumbered(t)'
      BY <1>0, <2>1, <2>2, <3>1 DEF PipeNumbered
    <3>3. out' = out \/ \E u, kind, n : Extends(u, kind, n) /\ u # t
      BY <2>4
    <3> QED
      BY <1>0, <2>4, <3>1, <3>2, <3>3, StreamKept
  <2>9. ExitIsLast'
    <3>1. \A i \in 1..Len(out) : out[i].kind # "exit"
      BY <1>0, <2>1 DEF ExitIsLast
    <3>2. \A t \in Stream : pump[t] = "ended" => pump'[t] = "ended"
      BY <2>1, <2>4
    <3>3. out' = out \/ \E t, kind, n :
                          /\ Extends(t, kind, n) /\ kind # "exit"
                          /\ t \in Stream => \A i \in 1..Len(out) : out[i].kind # "exit"
      BY <2>4, <3>1
    <3> QED
      BY <1>0, <2>1, <3>2, <3>3, ExitKept
  <2> QED
    BY <2>6, <2>7, <2>8, <2>9 DEF TelemetryInv
<1>2. CASE PumpReturns(s) \/ PumpEnds(s)
  <2>1. /\ pump[s] \in {"awaiting", "reading"} /\ pump'[s] \in {"reading", "ended"}
        /\ \A t \in Stream \ {s} : pump'[t] = pump[t]
        /\ UNCHANGED <<out, sent, main, proc, status, written, pipe>>
    BY <1>2, PlainTypes DEF PumpReturns, PumpEnds, agentVars, procVars
  <2>2. ExitIsLast'
    BY <1>0, <2>1, ExitKept
  <2> QED
    BY <2>1, <2>2, TelemetryUnlined
<1> QED
  BY <1>1, <1>2 DEF PumpStep

LEMMA PayloadKeepsTelemetry ==
  ASSUME IInv, Complete, TelemetryInv,
         (\E s \in Stream : PayloadWrites(s)) \/ PayloadForks \/ PayloadExits \/ OrphanExits
  PROVE  TelemetryInv'
<1>0. /\ ExitIsLast
      /\ \A t \in Stream : /\ PipeNumbered(t) /\ Taken(t) \in Nat
                           /\ LinesNumbered(t) /\ RecordIsPrefix(t)
  BY DEF TelemetryInv, PipeNumbered
<1>1. ASSUME NEW s \in Stream, PayloadWrites(s) PROVE TelemetryInv'
  <2>1. PICK l \in LineKinds :
          pipe' = [pipe EXCEPT ![s] = Append(@, [n |-> written[s] + 1, len |-> l])]
    BY <1>1 DEF PayloadWrites
  <2>2. /\ written' = [written EXCEPT ![s] = @ + 1]
        /\ UNCHANGED <<out, sent, main, pump, proc, status>>
    BY <1>1 DEF PayloadWrites, agentVars
  <2> DEFINE x == [n |-> written[s] + 1, len |-> l]
  <2>3. /\ pipe[s] \in Seq(PipeLine) /\ written[s] \in Nat /\ Len(pipe[s]) \in Nat
        /\ pipe'[s] = Append(pipe[s], x) /\ written'[s] = written[s] + 1
        /\ \A t \in Stream \ {s} : pipe'[t] = pipe[t] /\ written'[t] = written[t]
    BY <2>1, <2>2, PlainTypes
  <2>4. x \in PipeLine /\ x.n = written[s] + 1
    BY <2>3 DEF PipeLine
  <2> HIDE DEF x
  <2>5. /\ Len(pipe'[s]) = Len(pipe[s]) + 1 /\ pipe'[s][Len(pipe[s]) + 1] = x
        /\ \A k \in 1..Len(pipe[s]) : pipe'[s][k] = pipe[s][k]
    BY <2>3, <2>4
  <2>6. \A t \in Stream : Taken(t)' = Taken(t)
    BY <2>2, <2>3, <2>5 DEF Taken
  <2>7. PipeNumbered(s)'
    <3>1. \A k \in 1..Len(pipe[s]) : pipe[s][k].n = written[s] - Len(pipe[s]) + k
      BY <1>0 DEF PipeNumbered
    <3>2. \A k \in 1..Len(pipe'[s]) : pipe'[s][k].n = written'[s] - Len(pipe'[s]) + k
      BY <2>3, <2>4, <2>5, <3>1
    <3> QED
      BY <1>0, <2>6, <3>2 DEF PipeNumbered
  <2>8. \A t \in Stream : PipeNumbered(t)'
    <3>1. ASSUME NEW t \in Stream \ {s} PROVE PipeNumbered(t)'
      <4>1. Taken(t)' = Taken(t) /\ pipe'[t] = pipe[t] /\ written'[t] = written[t]
        BY <2>3, <2>6
      <4> QED
        BY <1>0, <4>1 DEF PipeNumbered
    <3> QED
      BY <2>7, <3>1
  <2>9. \A t \in Stream : LinesNumbered(t)' /\ RecordIsPrefix(t)'
    BY <1>0, <2>2, <2>6, StreamKept
  <2>10. ExitIsLast'
    BY <1>0, <2>2, ExitKept
  <2> QED
    BY <2>8, <2>9, <2>10 DEF TelemetryInv
<1>2. CASE PayloadForks \/ PayloadExits \/ OrphanExits
  <2>1. /\ UNCHANGED <<out, sent, main, pump, written, pipe>>
        /\ proc = "exited" => proc' = "exited" /\ status' = status
    BY <1>2 DEF PayloadForks, PayloadExits, OrphanExits, agentVars
  <2>2. ExitIsLast'
    BY <1>0, <2>1, ExitKept
  <2> QED
    BY <2>1, <2>2, TelemetryUnlined
<1> QED
  BY <1>1, <1>2

(* The steps of the heartbeat, the socket and the bus. *)
LEMMA OthersKeepTelemetry ==
  ASSUME IInv, TelemetryInv, UNCHANGED <<main, pump, procVars>>,
         \/ /\ sent' = sent
            /\ \/ out' = out
               \/ \E t, kind, n : Extends(t, kind, n) /\ t \notin Stream /\ kind # "exit"
         \/ sent' = Len(out) /\ out' = out
  PROVE  TelemetryInv'
<1>1. UNCHANGED <<proc, status, written, pipe>>
  BY DEF procVars
<1>2. ExitIsLast'
  BY <1>1, ExitKept DEF TelemetryInv
<1> QED
  BY <1>1, <1>2, TelemetryUnlined

LEMMA ClientExtends ==
  ASSUME IInv, NEW c \in Client, ClientStep(c)
  PROVE  /\ sent' = sent
         /\ out' = out \/ \E n : Extends(c, "client", n)
<1>1. ASSUME NEW s, AskPublish(c, s)
      PROVE  sent' = sent /\ (out' = out \/ \E n : Extends(c, "client", n))
  <2>1. PICK r \in Outcome : publish(c, s, "client", asked[c] - queued[c] + 1, r)
    BY <1>1 DEF AskPublish
  <2> QED
    BY <2>1, PublishExtends
<1> QED
  BY <1>1 DEF ClientStep, PublishReturns, AskSubscribe, AskOther, RequestTooLong

LEMMA OthersExtend ==
  ASSUME IInv,
         \/ HbBeats \/ HbReturns \/ HbWakes
         \/ \E c \in Client : PeerStep(c) \/ SocketStep(c)
         \/ BusStep \/ BusFails
  PROVE  /\ UNCHANGED <<main, pump, procVars>>
         /\ \/ /\ sent' = sent
               /\ \/ out' = out
                  \/ \E t, kind, n : Extends(t, kind, n) /\ t \notin Stream /\ kind # "exit"
            \/ sent' = Len(out) /\ out' = out
<1>1. CASE HbBeats
  <2>1. PICK r \in Outcome : publish("hb", heartbeat_subject(Citizen), "beat", beats + 1, r)
    BY <1>1 DEF HbBeats
  <2>2. sent' = sent /\ (out' = out \/ Extends("hb", "beat", beats + 1))
    BY <2>1, PublishExtends
  <2>3. out' = out \/ \E t, kind, n : Extends(t, kind, n) /\ t \notin Stream /\ kind # "exit"
    BY <2>2, PlainTypes
  <2> QED
    BY <1>1, <2>2, <2>3 DEF HbBeats
<1>2. CASE HbReturns \/ HbWakes
  BY <1>2 DEF HbReturns, HbWakes, agentVars
<1>3. ASSUME NEW c \in Client, PeerStep(c) \/ SocketStep(c)
      PROVE  /\ UNCHANGED <<main, pump, procVars>>
             /\ sent' = sent
             /\ \/ out' = out
                \/ \E t, kind, n : Extends(t, kind, n) /\ t \notin Stream /\ kind # "exit"
  <2>1. CASE PeerStep(c)
    BY <2>1 DEF PeerStep, PeerConnects, PeerAsks
  <2>2. CASE SocketStep(c)
    <3>1. sent' = sent /\ (out' = out \/ \E n : Extends(c, "client", n))
      BY <2>2, ClientExtends DEF SocketStep
    <3>2. c \notin Stream
      BY PlainTypes
    <3> QED
      BY <2>2, <3>1, <3>2 DEF SocketStep
  <2> QED
    BY <1>3, <2>1, <2>2
<1>4. CASE BusStep \/ BusFails
  BY <1>4 DEF BusStep, BusFails, BusFlush, BusReconnects, BusGivesUp, BusDrops
<1> QED
  BY <1>1, <1>2, <1>3, <1>4

LEMMA TelemetryNext ==
  ASSUME ReportsGranted
  PROVE  IInv /\ Complete /\ TelemetryInv /\ [Next]_vars => TelemetryInv'
<1> SUFFICES ASSUME IInv, Complete, TelemetryInv, [Next]_vars PROVE TelemetryInv'
  OBVIOUS
<1>1. CASE MainStep
  BY <1>1, MainKeepsTelemetry
<1>2. ASSUME NEW s \in Stream, PumpStep(s) PROVE TelemetryInv'
  BY <1>2, PumpKeepsTelemetry
<1>3. CASE (\E s \in Stream : PayloadWrites(s)) \/ PayloadForks \/ PayloadExits \/ OrphanExits
  BY <1>3, PayloadKeepsTelemetry
<1>4. CASE \/ HbBeats \/ HbReturns \/ HbWakes
           \/ \E c \in Client : PeerStep(c) \/ SocketStep(c)
           \/ BusStep \/ BusFails
  BY <1>4, OthersExtend, OthersKeepTelemetry
<1>5. CASE UNCHANGED vars
  BY <1>5, OthersKeepTelemetry DEF vars, agentVars, procVars
<1> QED
  BY <1>1, <1>2, <1>3, <1>4, <1>5 DEF Next, Ended

-----------------------------------------------------------------------------
(* What Telemetry sees. *)

(* Where lines are numbered in order and 1..h are on record, the record    *)
(* of the stream is 1, ..., h.                                             *)
LEMMA OnRecordIs ==
  ASSUME IInv, NEW s \in Stream, Taken(s) \in Nat, LinesNumbered(s),
         NEW h \in 0..Taken(s), RecordedUpTo(s, h)
  PROVE  OnRecord(s) = Abstract!UpTo(h)
<1> DEFINE L == LinesOf(s)
           N == [i \in L |-> out[i].n]
<1>1. h \in Nat /\ Len(out) \in Nat /\ sent \in 0..Len(out)
  BY PlainTypes
<1>2. /\ L \subseteq 1..sent /\ L \subseteq 1..Len(out)
      /\ \A i \in L : out[i].by = s
  BY <1>1 DEF LinesOf
<1>3. \A i \in L : out[i].n \in 1..h
  <2> SUFFICES ASSUME NEW i \in L PROVE out[i].n \in 1..h
    OBVIOUS
  <2>1. i \in 1..sent /\ i \in 1..Len(out) /\ out[i].by = s
    BY <1>2
  <2>2. out[i].n \in Nat
    BY <2>1 DEF LinesNumbered
  <2> QED
    BY <2>1, <2>2 DEF RecordedUpTo
<1>4. ASSUME NEW k \in 1..h PROVE \E i \in L : out[i].n = k
  <2>1. PICK i \in 1..sent : out[i].by = s /\ out[i].n = k
    BY <1>1 DEF RecordedUpTo
  <2>2. i \in L
    BY <2>1 DEF LinesOf
  <2> QED
    BY <2>1, <2>2
<1>5. \A i, j \in L : i < j => out[i].n < out[j].n
  BY <1>2 DEF LinesNumbered
<1>6. \A i, j \in L : j <= i <=> out[j].n <= out[i].n
  <2> SUFFICES ASSUME NEW i \in L, NEW j \in L PROVE j <= i <=> out[j].n <= out[i].n
    OBVIOUS
  <2>1. i \in Nat /\ j \in Nat /\ out[i].n \in Nat /\ out[j].n \in Nat
    BY <1>1, <1>2, <1>3
  <2> QED
    BY <1>5, <2>1
<1>7. \A i \in L : i \in Nat
  BY <1>1, <1>2
<1> HIDE DEF L
<1>8. ASSUME NEW m \in 0..h
      PROVE  Cardinality({j \in L : out[j].n <= m}) = m
  <2> DEFINE P == {j \in L : out[j].n <= m}
             F == [k \in 1..m |-> CHOOSE j \in L : out[j].n = k]
  <2>1. \A k \in 1..m : F[k] \in L /\ out[F[k]].n = k
    BY <1>1, <1>4
  <2>2. F \in Injection(1..m, P)
    <3>1. F \in [1..m -> P]
      BY <1>1, <2>1
    <3>2. \A a, b \in 1..m : F[a] = F[b] => a = b
      BY <2>1
    <3> HIDE DEF F
    <3> QED
      BY <3>1, <3>2, Fun_IsInj
  <2>3. \A j \in P : \E k \in 1..m : F[k] = j
    <3> SUFFICES ASSUME NEW j \in P PROVE F[out[j].n] = j /\ out[j].n \in 1..m
      OBVIOUS
    <3>1. out[j].n \in 1..m /\ j \in L
      BY <1>1, <1>3
    <3>2. F[out[j].n] \in L /\ out[F[out[j].n]].n = out[j].n
      BY <2>1, <3>1
    <3>3. F[out[j].n] <= j /\ j <= F[out[j].n]
      BY <1>1, <1>3, <1>6, <3>1, <3>2
    <3> QED
      BY <1>7, <3>1, <3>2, <3>3
  <2>4. F \in Bijection(1..m, P)
    <3> HIDE DEF F, P
    <3>1. F \in Surjection(1..m, P)
      BY <2>2, <2>3, Fun_IsSurj DEF Injection
    <3> QED
      BY <2>2, <3>1 DEF Bijection
  <2> HIDE DEF F, P
  <2>5. ExistsBijection(1..m, P) /\ m \in Nat
    BY <1>1, <2>4 DEF ExistsBijection
  <2>6. Cardinality(P) = m
    BY <2>5, FS_CountingElements
  <2> QED
    BY <2>6 DEF P
<1>9. Cardinality(LinesOf(s)) = h
  <2>1. {j \in L : out[j].n <= h} = L
    BY <1>1, <1>3
  <2> QED
    BY <1>1, <1>8, <2>1 DEF L
<1>10. \A i \in L : Cardinality(Before(i, s)) = out[i].n
  <2> SUFFICES ASSUME NEW i \in L PROVE Cardinality(Before(i, s)) = out[i].n
    OBVIOUS
  <2>1. Before(i, s) = {j \in L : out[j].n <= out[i].n}
    BY <1>6 DEF Before, L
  <2>2. out[i].n \in 0..h
    BY <1>1, <1>3
  <2> QED
    BY <1>8, <2>1, <2>2
<1>11. \A k \in 1..h : out[CHOOSE i \in LinesOf(s) : Cardinality(Before(i, s)) = k].n = k
  <2> SUFFICES ASSUME NEW k \in 1..h
               PROVE  out[CHOOSE i \in L : Cardinality(Before(i, s)) = k].n = k
    BY DEF L
  <2>1. \E i \in L : Cardinality(Before(i, s)) = k
    BY <1>4, <1>10
  <2> DEFINE c == CHOOSE i \in L : Cardinality(Before(i, s)) = k
  <2>2. c \in L /\ Cardinality(Before(c, s)) = k
    BY <2>1
  <2> QED
    BY <1>10, <2>2
<1> QED
  BY <1>9, <1>11 DEF OnRecord, Abstract!UpTo

Recorded == [s \in Stream |-> OnRecord(s)]
Verdict == {out[i].n : i \in {j \in 1..sent : out[j].kind = "exit"}}

LEMMA VerdictIs ==
  ASSUME IInv, Complete, ExitIsLast, Verdict # {}
  PROVE  /\ Verdict = {status} /\ status \in ExitStatus
         /\ proc = "exited" /\ ~orphan
         /\ \A s \in Stream : pump[s] = "ended" /\ pipe[s] = <<>>
         /\ \E i \in 1..sent : \A j \in 1..Len(out) : out[j].by \in Stream => j < i
<1>1. PICK i \in 1..sent : out[i].kind = "exit"
  BY DEF Verdict
<1>2. 1..sent \subseteq 1..Len(out)
  BY PlainTypes
<1>3. /\ proc = "exited" /\ \A s \in Stream : pump[s] = "ended"
      /\ \A j \in 1..Len(out) : out[j].by \in Stream => j < i
  BY <1>1, <1>2 DEF ExitIsLast
<1>4. \A j \in 1..sent : out[j].kind = "exit" => out[j].n = status
  BY <1>2 DEF ExitIsLast
<1>5. Verdict = {status}
  BY <1>1, <1>4 DEF Verdict
<1>6. ~orphan /\ \A s \in Stream : pipe[s] = <<>>
  <2>1. "stdout" \in Stream
    BY DEF Stream
  <2> QED
    BY <1>3, <2>1 DEF Complete, PumpsEnd
<1> QED
  BY <1>1, <1>3, <1>5, <1>6 DEF IInv, CoroutineTypeOK

(* The three kinds of steps Telemetry can tell apart. *)
LEMMA WhatMoves ==
  ASSUME IInv, [Next]_vars
  PROVE  \/ Keeps /\ sent' = sent /\ written' = written
         \/ \E s \in Stream : PayloadWrites(s)
         \/ out' = out /\ sent' = Len(out) /\ written' = written
<1>0. out' = out => Keeps
  BY DEF Keeps
<1>e. ASSUME out' = out \/ \E t, kind, n : Extends(t, kind, n) PROVE Keeps
  BY <1>e, PlainTypes DEF Keeps, Extends
<1>1. CASE MainStep
  <2>1. CASE MainDescribes
    <3>1. PICK r \in Outcome : publish("main", descriptor_subject(Citizen), "descriptor", 0, r)
      BY <2>1 DEF MainDescribes
    <3> QED
      BY <1>e, <2>1, <3>1, PublishExtends DEF MainDescribes, procVars
  <2>2. CASE MainReportsExit
    <3>1. PICK r \in Outcome : publish("main", event_subject(Citizen, Context), "exit", status, r)
      BY <2>2 DEF MainReportsExit
    <3> QED
      BY <1>e, <2>2, <3>1, PublishExtends DEF MainReportsExit, procVars
  <2>3. CASE MainDrained
    BY <1>0, <2>3 DEF MainDrained, procVars
  <2>4. CASE \/ MainDescribed \/ MainLaunches \/ MainLaunchFails \/ MainIdles \/ MainIdleEnds
             \/ MainGatherRaises \/ MainGathers \/ MainReported \/ MainStops
    BY <1>0, <2>4
       DEF MainDescribed, MainLaunches, MainLaunchFails, MainIdles, MainIdleEnds,
           MainGatherRaises, MainGathers, MainReported, MainStops, agentVars, procVars
  <2> QED
    BY <1>1, <2>1, <2>2, <2>3, <2>4 DEF MainStep
<1>2. ASSUME NEW s \in Stream, PumpStep(s)
      PROVE  Keeps /\ sent' = sent /\ written' = written
  <2>1. CASE PumpReads(s)
    <3>1. PICK r \in Outcome :
            publish(s, output_subject(Citizen, Context), "line", Head(pipe[s]).n, r)
      BY <2>1 DEF PumpReads
    <3> QED
      BY <1>e, <2>1, <3>1, PublishExtends DEF PumpReads
  <2> QED
    BY <1>0, <1>2, <2>1
       DEF PumpStep, PumpReadsTooLong, PumpReturns, PumpEnds, agentVars, procVars
<1>3. CASE PayloadForks \/ PayloadExits \/ OrphanExits
  BY <1>0, <1>3 DEF PayloadForks, PayloadExits, OrphanExits, agentVars
<1>4. CASE \/ HbBeats \/ HbReturns \/ HbWakes
           \/ \E c \in Client : PeerStep(c) \/ SocketStep(c)
           \/ BusStep \/ BusFails
  BY <1>e, <1>4, OthersExtend DEF procVars
<1>5. CASE UNCHANGED vars
  BY <1>0, <1>5 DEF vars, agentVars, procVars
<1> QED
  BY <1>1, <1>2, <1>3, <1>4, <1>5 DEF Next, Ended

LEMMA RecordsAre ==
  IInv /\ TelemetryInv =>
    \A s \in Stream : \E h \in 0..Taken(s) :
      RecordedUpTo(s, h) /\ OnRecord(s) = Abstract!UpTo(h)
<1> SUFFICES ASSUME IInv, TelemetryInv, NEW s \in Stream
             PROVE  \E h \in 0..Taken(s) : RecordedUpTo(s, h) /\ OnRecord(s) = Abstract!UpTo(h)
  OBVIOUS
<1>1. Taken(s) \in Nat /\ LinesNumbered(s) /\ RecordIsPrefix(s)
  BY DEF TelemetryInv, PipeNumbered
<1>2. PICK h \in 0..Taken(s) : RecordedUpTo(s, h)
  BY <1>1 DEF RecordIsPrefix
<1> QED
  BY <1>1, <1>2, OnRecordIs

LEMMA RecordsWillBe ==
  IInv' /\ TelemetryInv' =>
    \A s \in Stream : \E h \in 0..Taken(s)' :
      RecordedUpTo(s, h)' /\ OnRecord(s)' = Abstract!UpTo(h)
<1>1. (IInv /\ TelemetryInv =>
        \A s \in Stream : \E h \in 0..Taken(s) :
          RecordedUpTo(s, h) /\ OnRecord(s) = Abstract!UpTo(h))'
  BY RecordsAre, PTL
<1> QED
  BY <1>1

(* Where nothing accepted before is lost and no line comes on record,      *)
(* Telemetry sees nothing.                                                 *)
LEMMA RecordUnmoved ==
  ASSUME IInv, TelemetryInv, IInv', TelemetryInv', Keeps, sent' \in Nat, sent' >= sent,
         \A i \in 1..sent' : i \in 1..sent \/ out'[i].by \notin Stream
  PROVE  Recorded' = Recorded
<1>1. sent \in Nat /\ \A i \in 1..sent : i \in 1..sent' /\ out'[i] = out[i]
  BY PlainTypes DEF Keeps
<1>2. ASSUME NEW s \in Stream PROVE OnRecord(s)' = OnRecord(s)
  <2>1. PICK h \in 0..Taken(s) : RecordedUpTo(s, h) /\ OnRecord(s) = Abstract!UpTo(h)
    BY RecordsAre
  <2>2. PICK g \in 0..Taken(s)' : RecordedUpTo(s, g)' /\ OnRecord(s)' = Abstract!UpTo(g)
    BY RecordsWillBe
  <2>3. \A k \in Nat : k \in 1..h <=> k \in 1..g
    BY <1>1, <2>1, <2>2 DEF RecordedUpTo
  <2>4. g \in Nat /\ h \in Nat
    BY <2>1, <2>2
  <2>5. g = h
    BY <2>3, <2>4
  <2> QED
    BY <2>1, <2>2, <2>5
<1> QED
  BY <1>2 DEF Recorded

LEMMA PipesLong == IInv => \A t \in Stream : Len(pipe[t]) \in Nat
  BY PlainTypes

(* Every step maps to a step of Telemetry or to a stutter. *)
LEMMA StepsAreTelemetrys ==
  ASSUME IInv, Complete, TelemetryInv, IInv', Complete', TelemetryInv', [Next]_vars
  PROVE  \/ UNCHANGED <<written, Recorded, Verdict>>
         \/ /\ Verdict = {}
            /\ \/ /\ \E s \in Stream : written' = [written EXCEPT ![s] = @ + 1]
                  /\ UNCHANGED <<Recorded, Verdict>>
               \/ /\ UNCHANGED written
                  /\ DOMAIN Recorded' = Stream
                  /\ \A s \in Stream :
                       /\ Len(Recorded'[s]) \in Len(Recorded[s])..written[s]
                       /\ Recorded'[s] = Abstract!UpTo(Len(Recorded'[s]))
                  /\ \/ Verdict' = {}
                     \/ /\ \E x \in ExitStatus : Verdict' = {x}
                        /\ \A s \in Stream : Len(Recorded'[s]) = written[s]
<1>0. /\ sent \in Nat /\ sent \in 0..Len(out) /\ Len(out) \in Nat
      /\ ExitIsLast /\ ExitIsLast'
  BY PlainTypes DEF TelemetryInv
<1>1. CASE Keeps /\ sent' = sent /\ written' = written
  <2>1. Recorded' = Recorded
    BY <1>0, <1>1, RecordUnmoved
  <2>2. Verdict' = Verdict
    BY <1>0, <1>1 DEF Verdict, Keeps
  <2> QED
    BY <1>1, <2>1, <2>2
<1>2. ASSUME NEW s \in Stream, PayloadWrites(s)
      PROVE  /\ Verdict = {}
             /\ written' = [written EXCEPT ![s] = @ + 1]
             /\ UNCHANGED <<Recorded, Verdict>>
  <2>1. /\ Writer /\ UNCHANGED <<out, sent>>
        /\ written' = [written EXCEPT ![s] = @ + 1]
    BY <1>2 DEF PayloadWrites, agentVars
  <2>2. Verdict = {}
    BY <1>0, <2>1, VerdictIs DEF Writer
  <2>3. Recorded' = Recorded
    BY <1>0, <2>1, RecordUnmoved DEF Keeps
  <2>4. Verdict' = Verdict
    BY <2>1 DEF Verdict
  <2> QED
    BY <2>1, <2>2, <2>3, <2>4
<1>3. CASE out' = out /\ sent' = Len(out) /\ written' = written
  <2>1. CASE Verdict # {}
    <3>1. PICK i \in 1..sent : \A j \in 1..Len(out) : out[j].by \in Stream => j < i
      BY <1>0, <2>1, VerdictIs
    <3>2. \A j \in 1..sent' : j \in 1..sent \/ out'[j].by \notin Stream
      BY <1>0, <1>3, <3>1
    <3>3. Recorded' = Recorded
      BY <1>0, <1>3, <3>2, RecordUnmoved DEF Keeps
    <3>4. Verdict' = Verdict
      <4>1. PICK k \in 1..sent : out[k].kind = "exit"
        BY <2>1 DEF Verdict
      <4>2. \A j \in 1..Len(out) : out[j].kind = "exit" => out[j].n = status
        BY <1>0 DEF ExitIsLast
      <4>3. k \in 1..sent' /\ 1..sent \subseteq 1..Len(out)
        BY <1>0, <1>3
      <4> QED
        BY <1>3, <4>1, <4>2, <4>3 DEF Verdict
    <3> QED
      BY <1>3, <3>3, <3>4
  <2>2. CASE Verdict = {}
    <3>1. ASSUME NEW s \in Stream
          PROVE  /\ Recorded'[s] = Abstract!UpTo(Len(Recorded'[s]))
                 /\ Len(Recorded'[s]) \in Len(Recorded[s])..written[s]
                 /\ pipe'[s] = <<>> /\ pump'[s] = "ended" => Len(Recorded'[s]) = written[s]
      <4>1. PICK h \in 0..Taken(s) : RecordedUpTo(s, h) /\ OnRecord(s) = Abstract!UpTo(h)
        BY RecordsAre
      <4>2. PICK g \in 0..Taken(s)' : RecordedUpTo(s, g)' /\ OnRecord(s)' = Abstract!UpTo(g)
        BY RecordsWillBe
      <4>3. /\ written[s] \in Nat /\ Len(pipe[s]) \in Nat /\ Len(pipe'[s]) \in Nat
            /\ Taken(s) \in Nat /\ Taken(s)' \in Nat /\ LinesNumbered(s)'
        <5>1. (IInv => \A t \in Stream : Len(pipe[t]) \in Nat)'
          BY PipesLong, PTL
        <5> QED
          BY <5>1, PlainTypes DEF TelemetryInv, PipeNumbered
      <4>4. Taken(s)' = written[s] - Len(pipe'[s]) - (IF pump'[s] = "raised" THEN 1 ELSE 0)
        BY <1>3 DEF Taken
      <4>5. g = Taken(s)'
        <5>1. \A k \in 1..Taken(s)' : \E i \in 1..sent' : out'[i].by = s /\ out'[i].n = k
          BY <1>3, <4>3 DEF LinesNumbered, Accepted
        <5>2. \A k \in Nat : k \in 1..g <=> \E i \in 1..sent' : out'[i].by = s /\ out'[i].n = k
          BY <4>2 DEF RecordedUpTo
        <5>3. Taken(s)' # 0 => Taken(s)' \in 1..Taken(s)'
          BY <4>3
        <5> QED
          BY <4>2, <4>3, <5>1, <5>2, <5>3
      <4>6. h <= g
        <5>1. \A k \in Nat : k \in 1..h => k \in 1..g
          BY <1>0, <1>3, <4>1, <4>2 DEF RecordedUpTo
        <5>2. h # 0 => h \in 1..h
          BY <4>1
        <5> QED
          BY <4>1, <4>2, <4>3, <5>1, <5>2
      <4>7. Recorded[s] = Abstract!UpTo(h) /\ Recorded'[s] = Abstract!UpTo(g)
        BY <4>1, <4>2 DEF Recorded
      <4>8. Len(Recorded[s]) = h /\ Len(Recorded'[s]) = g
        BY <4>1, <4>2, <4>3, <4>7 DEF Abstract!UpTo
      <4>9. pipe'[s] = <<>> /\ pump'[s] = "ended" => Taken(s)' = written[s]
        BY <4>3, <4>4
      <4> QED
        BY <4>1, <4>2, <4>3, <4>4, <4>5, <4>6, <4>7, <4>8, <4>9
    <3>2. \/ Verdict' = {}
          \/ /\ \E x \in ExitStatus : Verdict' = {x}
             /\ \A s \in Stream : pump'[s] = "ended" /\ pipe'[s] = <<>>
      <4>1. (IInv /\ Complete /\ ExitIsLast /\ Verdict # {} =>
               /\ Verdict = {status} /\ status \in ExitStatus
               /\ \A s \in Stream : pump[s] = "ended" /\ pipe[s] = <<>>)'
        BY VerdictIs, PTL
      <4> QED
        BY <1>0, <4>1
    <3>3. DOMAIN Recorded' = Stream
      BY DEF Recorded
    <3> QED
      BY <1>3, <2>2, <3>1, <3>2, <3>3
  <2> QED
    BY <2>1, <2>2
<1> QED
  BY <1>1, <1>2, <1>3, WhatMoves

(* A citizen implements Telemetry, whatever its payload writes, however    *)
(* pumps, main, clients and flusher interleave and the bus comes and goes: *)
(* by stream, the record is a prefix of what was written, and the exit is  *)
(* on record only behind all of it and is the last thing said.             *)
THEOREM CitizenImplementsTelemetry ==
  ASSUME ReportsGranted
  PROVE  Spec => ImplementsTelemetry
<1>1. Init => Abstract!Init
  <2> SUFFICES ASSUME Init PROVE Abstract!Init
    OBVIOUS
  <2>1. sent = 0 /\ written = [s \in Stream |-> 0]
    BY DEF Init, AgentInit
  <2>2. \A s \in Stream : OnRecord(s) = <<>>
    <3>1. \A s \in Stream : LinesOf(s) = {}
      BY <2>1 DEF LinesOf
    <3>2. \A s \in Stream : Cardinality(LinesOf(s)) = 0
      BY <3>1, FS_EmptySet
    <3> QED
      BY <3>2 DEF OnRecord
  <2>3. {out[i].n : i \in {j \in 1..sent : out[j].kind = "exit"}} = {}
    BY <2>1
  <2> QED
    BY <2>1, <2>2, <2>3 DEF Abstract!Init
<1>2. ASSUME IInv, Complete, TelemetryInv, IInv', Complete', TelemetryInv', [Next]_vars
      PROVE  [Abstract!Next]_(Abstract!vars)
  BY <1>2, StepsAreTelemetrys
     DEF Recorded, Verdict, Abstract!Next, Abstract!Write, Abstract!Record, Abstract!vars
<1>3. IInv /\ Complete /\ TelemetryInv /\ [Next]_vars => TelemetryInv'
  BY TelemetryNext
<1>4. IInv /\ Complete /\ [Next]_vars => Complete'
  BY CompleteNext
<1> QED
  BY <1>1, <1>2, <1>3, <1>4, CompleteInit, TelemetryInit, Inductive, PTL
     DEF Spec, ImplementsTelemetry, Abstract!Spec
=============================================================================
