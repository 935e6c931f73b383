------------------------------- MODULE Agentd -------------------------------
(***************************************************************************)
(* agentd: the one publishing path of a citizen and the local socket that  *)
(* offers it to the payload (platform/base/l0/agentd.py).                  *)
(*                                                                         *)
(* Every coroutine of the citizen that publishes goes through publish():   *)
(* the main sequence, the heartbeat task, the two output pumps and one     *)
(* coroutine per socket client.  They share `seq` and the bus connection   *)
(* and interleave at each await.                                           *)
(*                                                                         *)
(* The bus client is a library.  It takes an envelope into its buffer      *)
(* before publish() first suspends, so `out` is in the order of the calls; *)
(* a background flusher moves the buffer to the server (`sent` is how far  *)
(* it has come).  While disconnected it buffers up to a limit and raises   *)
(* beyond it; once closed it raises always.                                *)
(***************************************************************************)
EXTENDS Subjects

CONSTANTS
  Client,        \* socket connections the payload may open
  Citizen,       \* L0_CITIZEN
  Context,       \* L0_CONTEXT
  PublishAllow,  \* publish_allow of leaf.cred
  AskedSubjects, \* subjects a payload may name in a publish request
  PendingCap,    \* envelopes the bus client buffers while disconnected
  MaxRequests    \* bound: requests per connection

BaseTask == {"main", "hb", "stdout", "stderr"}
Task == Client \cup BaseTask

ASSUME AgentdAssumption ==
  /\ Client \cap BaseTask = {}
  /\ PublishAllow \subseteq Seq(STRING) /\ AskedSubjects \subseteq Seq(STRING)
  /\ PendingCap \in Nat
  /\ MaxRequests \in Nat

VARIABLES
  seq,      \* Agentd.seq
  out,      \* envelopes the bus client has accepted, oldest first
  sent,     \* how many of them have reached the server
  bus,      \* "up", "down" (reconnecting) or "closed"
  client,   \* state of each connection's _client coroutine
  queued,   \* request lines in each connection's socket buffer
  asked,    \* how many the payload has written
  pending,  \* seq of the envelope whose bus.publish the connection awaits
  reply     \* last answer written to each connection

agentVars == <<seq, out, sent, bus, client, queued, asked, pending, reply>>

Kind == {"descriptor", "beat", "line", "exit", "client"}
Envelope(t, s, kind, n) ==
  [seq |-> seq + 1, by |-> t, subject |-> s, kind |-> kind, n |-> n]

Result == {"none", "ok", "refused", "unavailable", "error"}
NoReply == [result |-> "none", own |-> 0, told |-> 0]

AgentInit ==
  /\ seq = 0
  /\ out = <<>>
  /\ sent = 0
  /\ bus = "up"
  /\ client = [c \in Client |-> "unopened"]
  /\ queued = [c \in Client |-> 0]
  /\ asked = [c \in Client |-> 0]
  /\ pending = [c \in Client |-> 0]
  /\ reply = [c \in Client |-> NoReply]

-----------------------------------------------------------------------------
(* publish() up to the await of bus.publish.  The caller is told what      *)
(* became of the call: "refused" (answered, nothing happened), "raised"    *)
(* (the bus client threw; the number is spent) or "awaiting".              *)
Outcome == {"refused", "raised", "awaiting"}

Refused(s) == ~in_taxonomy(s) \/ ~subject_granted(PublishAllow, s)

BusRaises == \/ bus = "closed"
             \/ bus = "down" /\ Len(out) - sent >= PendingCap

(* Defect form: what the bus client throws is swallowed.                   *)
publishSwallowing(t, s, kind, n, r) ==
  /\ UNCHANGED sent
  /\ \/ r = "refused" /\ Refused(s) /\ UNCHANGED <<seq, out>>
     \/ /\ r = "awaiting" /\ ~Refused(s)
        /\ seq' = seq + 1
        /\ out' = IF BusRaises THEN out ELSE Append(out, Envelope(t, s, kind, n))

publish(t, s, kind, n, r) ==
  /\ UNCHANGED sent
  /\ \/ r = "refused" /\ Refused(s) /\ UNCHANGED <<seq, out>>
     \/ /\ r = "raised" /\ ~Refused(s) /\ BusRaises
        /\ seq' = seq + 1
        /\ UNCHANGED out
     \/ /\ r = "awaiting" /\ ~Refused(s) /\ ~BusRaises
        /\ seq' = seq + 1
        /\ out' = Append(out, Envelope(t, s, kind, n))

-----------------------------------------------------------------------------
(* The bus client's own steps. *)
BusFlush ==
  /\ bus = "up"
  /\ sent < Len(out)
  /\ sent' = Len(out)
  /\ UNCHANGED <<seq, out, bus, client, queued, asked, pending, reply>>

BusDrops ==
  /\ bus = "up"
  /\ bus' = "down"
  /\ UNCHANGED <<seq, out, sent, client, queued, asked, pending, reply>>

BusReconnects ==
  /\ bus = "down"
  /\ bus' = "up"
  /\ UNCHANGED <<seq, out, sent, client, queued, asked, pending, reply>>

(* max_reconnect_attempts used up: what was buffered is gone. *)
BusGivesUp ==
  /\ bus = "down"
  /\ bus' = "closed"
  /\ UNCHANGED <<seq, out, sent, client, queued, asked, pending, reply>>

-----------------------------------------------------------------------------
(* The payload's side of the socket. *)
PeerConnects(c) ==
  /\ client[c] = "unopened"
  /\ client' = [client EXCEPT ![c] = "reading"]
  /\ UNCHANGED <<seq, out, sent, bus, queued, asked, pending, reply>>

PeerAsks(c) ==
  /\ client[c] \in {"reading", "awaiting"}
  /\ asked[c] < MaxRequests
  /\ asked' = [asked EXCEPT ![c] = @ + 1]
  /\ queued' = [queued EXCEPT ![c] = @ + 1]
  /\ UNCHANGED <<seq, out, sent, bus, client, pending, reply>>

-----------------------------------------------------------------------------
(* _client: one request line at a time, answered before the next is read.  *)
(* Writing the answer may find the peer gone, which ends the coroutine.    *)
Answer(c, r) ==
  /\ reply' = [reply EXCEPT ![c] = r]
  /\ \E next \in {"reading", "closed"} : client' = [client EXCEPT ![c] = next]

Take(c) ==
  /\ client[c] = "reading"
  /\ queued[c] > 0
  /\ queued' = [queued EXCEPT ![c] = @ - 1]

(* A publish or emit_event request.  An exception is answered, not raised. *)
AskPublish(c, s) ==
  /\ Take(c)
  /\ \E r \in Outcome :
       /\ publish(c, s, "client", asked[c] - queued[c] + 1, r)
       /\ IF r = "awaiting"
          THEN /\ client' = [client EXCEPT ![c] = "awaiting"]
               /\ pending' = [pending EXCEPT ![c] = seq + 1]
               /\ UNCHANGED reply
          ELSE /\ UNCHANGED pending
               /\ Answer(c, [result |-> IF r = "refused" THEN r ELSE "error",
                             own |-> 0, told |-> 0])
  /\ UNCHANGED <<bus, asked>>

(* Defect form: a number read before the await is stored back after it.    *)
PublishReturnsStoringBack(c) ==
  /\ client[c] = "awaiting"
  /\ seq' = pending[c]
  /\ pending' = [pending EXCEPT ![c] = 0]
  /\ Answer(c, [result |-> "ok", own |-> pending[c], told |-> seq])
  /\ UNCHANGED <<out, sent, bus, queued, asked>>

(* The await ends.  The answer carries self.seq as it is now, which may    *)
(* belong to an envelope of another coroutine.                             *)
PublishReturns(c) ==
  /\ client[c] = "awaiting"
  /\ pending' = [pending EXCEPT ![c] = 0]
  /\ Answer(c, [result |-> "ok", own |-> pending[c], told |-> seq])
  /\ UNCHANGED <<seq, out, sent, bus, queued, asked>>

(* subscribe: only the taxonomy is consulted. *)
AskSubscribe(c, s) ==
  /\ Take(c)
  /\ Answer(c, [result |-> IF in_taxonomy(s) THEN "ok" ELSE "refused",
                own |-> 0, told |-> 0])
  /\ UNCHANGED <<seq, out, sent, bus, asked, pending>>

(* stats answers; resolve and recall are stubs; an unknown op is refused;  *)
(* a line that is not a JSON object is answered as an error.               *)
AskOther(c) ==
  /\ Take(c)
  /\ \E r \in {[result |-> "ok", own |-> 0, told |-> seq],
               [result |-> "unavailable", own |-> 0, told |-> 0],
               [result |-> "refused", own |-> 0, told |-> 0],
               [result |-> "error", own |-> 0, told |-> 0]} : Answer(c, r)
  /\ UNCHANGED <<seq, out, sent, bus, asked, pending>>

(* A request line beyond the stream reader's limit makes readline() raise  *)
(* outside the inner try: the coroutine ends and the peer gets no answer.  *)
RequestTooLong(c) ==
  /\ Take(c)
  /\ client' = [client EXCEPT ![c] = "dropped"]
  /\ UNCHANGED <<seq, out, sent, bus, asked, pending, reply>>

ClientStep(c) ==
  \/ \E s \in AskedSubjects \cup {event_subject(Citizen, Context)} : AskPublish(c, s)
  \/ PublishReturns(c)
  \/ \E s \in AskedSubjects : AskSubscribe(c, s)
  \/ AskOther(c)
  \/ RequestTooLong(c)

-----------------------------------------------------------------------------
Subject == AskedSubjects
           \cup {output_subject(Citizen, Context), event_subject(Citizen, Context),
                 descriptor_subject(Citizen), heartbeat_subject(Citizen)}

AgentTypeOK ==
  /\ seq \in Nat
  /\ out \in Seq([seq : Nat, by : Task, subject : Subject, kind : Kind, n : Nat])
  /\ sent \in 0..Len(out)
  /\ bus \in {"up", "down", "closed"}
  /\ client \in [Client -> {"unopened", "reading", "awaiting", "closed", "dropped"}]
  /\ queued \in [Client -> Nat]
  /\ asked \in [Client -> Nat]
  /\ pending \in [Client -> Nat]
  /\ reply \in [Client -> [result : Result, own : Nat, told : Nat]]

(* Every envelope carries a number of its own and the numbers follow the   *)
(* order in which the bus client took them, whichever coroutines           *)
(* interleaved (agentd.py: self.seq += 1 before the await).                *)
SeqFollowsOrder ==
  /\ \A i \in 1..Len(out) : out[i].seq <= seq
  /\ \A i, j \in 1..Len(out) : i < j => out[i].seq < out[j].seq

(* Every pattern and every subject of up to three tokens. *)
Word(S) == UNION {[1..n -> S] : n \in 1..3}
Literals == {Citizen, Context}
Pattern == Word(Literals \cup {"*", ">"})

PatternsNotWidened ==
  \A p \in Pattern, s \in Word(Literals) :
    WithinBus({p}, s) /\ WithinBus({p, <<Citizen, Context>>}, s)

(* The citizen's reading of one pattern, and of a grant of two, is never   *)
(* wider than the bus's (init.py subject_granted): what it let through to  *)
(* the bus, the bus lets through.                                          *)
GrantNotWidened ==
  /\ PatternsNotWidened
  /\ \A i \in DOMAIN out : \E p \in PublishAllow : BusCovers(p, out[i].subject)

(* An ok to a publish request is given only for an envelope the bus took   *)
(* from that connection, and the number told is never older than its own.  *)
OkMeansAccepted ==
  \A c \in Client :
    reply[c].own > 0 =>
      /\ reply[c].told >= reply[c].own
      /\ \E i \in 1..Len(out) : out[i].by = c /\ out[i].seq = reply[c].own
=============================================================================
