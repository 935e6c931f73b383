---------------------------- MODULE SessionProofs ----------------------------
(***************************************************************************)
(* A supervised session and the adapter behind it, for any number of       *)
(* chunks, any pipe and any delta to interrupt at.                         *)
(***************************************************************************)
EXTENDS Session, SequenceTheorems, FiniteSetTheorems, TLAPS

(* The response of a request, read off where its handler stands.           *)
Halves(r) == {k \in Nat : k = conn[r].read \/ k + 1 = conn[r].read}

Closings(k) == {Relayed(k), Append(Relayed(k), end), Append(Relayed(k), status(BadGateway)),
                Append(Append(Relayed(k), status(BadGateway)), end)}

ConnOK(r) ==
  /\ conn[r].at \in {"idle", "open"} => conn[r].read = 0 /\ conn[r].wire = <<>>
  /\ conn[r].at = "read" => conn[r].wire = Relayed(conn[r].read)
  /\ conn[r].at = "write" => conn[r].read > 0 /\ conn[r].wire = Relayed(conn[r].read - 1)
  /\ conn[r].at = "fail" /\ conn[r].read > 0 => \E k \in Halves(r) : conn[r].wire = Relayed(k)
  /\ conn[r].at = "body" /\ conn[r].read > 0 =>
       \E k \in Halves(r) : conn[r].wire = Append(Relayed(k), status(BadGateway))
  /\ conn[r].at = "closed" /\ conn[r].read > 0 =>
       \E k \in Halves(r) : conn[r].wire \in Closings(k)

(* A request is recorded when it is closed, once, and as what it was.      *)
CallsOK ==
  \A i \in DOMAIN calls :
    LET r == calls[i][1] IN
    /\ conn[r].at = "closed"
    /\ calls[i][2] = OK => conn[r].wire = Append(Relayed(conn[r].read), end)
    /\ \A j \in DOMAIN calls : calls[j][1] = r => j = i

AdapterInv == AdapterTypeOK /\ (\A r \in Requests : ConnOK(r)) /\ CallsOK

-----------------------------------------------------------------------------
(* Operators of the adapter: what is on the wire after one more chunk.     *)
Item == [kind : {"status", "chunk", "end"}, n : Nat]

LEMMA ItemsTyped ==
  /\ \A n \in Nat : status(n) \in Item /\ chunk(n) \in Item
  /\ end \in Item /\ OK \in Nat /\ Overloaded \in Nat /\ BadGateway \in Nat
  BY DEF Item, status, chunk, end, OK, Overloaded, BadGateway

LEMMA RelayedTyped ==
  ASSUME NEW k \in Nat
  PROVE  Relayed(k) \in Seq(Item) /\ Len(Relayed(k)) = k + 1
<1>1. \A i \in 1..(k + 1) : (IF i = 1 THEN status(OK) ELSE chunk(i - 1)) \in Item
  BY ItemsTyped DEF Item, status, chunk, OK
<1> QED
  BY <1>1 DEF Relayed

LEMMA RelayedNone == Relayed(0) = <<status(OK)>>
  BY DEF Relayed

LEMMA RelayedMore ==
  ASSUME NEW k \in Nat
  PROVE  Append(Relayed(k), chunk(k + 1)) = Relayed(k + 1)
<1>1. Relayed(k) \in Seq(Item) /\ Relayed(k + 1) \in Seq(Item)
  BY RelayedTyped
<1>2. Len(Relayed(k)) = k + 1 /\ Len(Relayed(k + 1)) = k + 2
  BY RelayedTyped
<1>3. chunk(k + 1) \in Item
  BY ItemsTyped
<1>4. Append(Relayed(k), chunk(k + 1)) \in Seq(Item)
  BY <1>1, <1>3
<1>5. Len(Append(Relayed(k), chunk(k + 1))) = k + 2
  BY <1>1, <1>2, <1>3
<1>6. \A i \in 1..(k + 2) : Append(Relayed(k), chunk(k + 1))[i] = Relayed(k + 1)[i]
  <2> TAKE i \in 1..(k + 2)
  <2>1. CASE i = k + 2
    BY <2>1, <1>1, <1>2, <1>3 DEF Relayed, chunk
  <2>2. CASE i # k + 2
    BY <2>2, <1>1, <1>2, <1>3 DEF Relayed
  <2> QED BY <2>1, <2>2
<1> QED
  BY <1>1, <1>2, <1>4, <1>5, <1>6

-----------------------------------------------------------------------------
(* The adapter's steps. *)
ConnType == [at : {"idle", "open", "read", "write", "fail", "body", "closed"},
             read : Nat, gone : BOOLEAN, wire : Seq(Item)]

LEMMA AdapterTyped ==
  AdapterTypeOK <=> conn \in [Requests -> ConnType] /\ calls \in Seq(Requests \X Nat)
  BY DEF AdapterTypeOK, ConnType, Item

(* A step of one handler that records nothing. *)
LEMMA HandlerMoves ==
  ASSUME AdapterInv, NEW r \in Requests, conn[r].at # "closed",
         NEW c \in ConnType, conn' = [conn EXCEPT ![r] = c], UNCHANGED calls,
         ConnOK(r)'
  PROVE  AdapterInv'
<1>1. AdapterTypeOK'
  BY AdapterTyped DEF AdapterInv, AdapterTypeOK, ConnType, Item
<1>2. \A x \in Requests : x # r => conn'[x] = conn[x]
  BY AdapterTyped DEF AdapterInv
<1>3. \A x \in Requests : ConnOK(x)'
  <2> TAKE x \in Requests
  <2>1. CASE x = r
    BY <2>1
  <2>2. CASE x # r
    BY <2>2, <1>2 DEF AdapterInv, ConnOK, Halves
  <2> QED BY <2>1, <2>2
<1>4. CallsOK'
  <2>1. \A i \in DOMAIN calls : calls[i][1] \in Requests /\ calls[i][1] # r
    BY DEF AdapterInv, AdapterTypeOK, CallsOK
  <2> QED
    BY <2>1, <1>2 DEF AdapterInv, CallsOK
<1> QED
  BY <1>1, <1>3, <1>4 DEF AdapterInv

(* A step of one handler that records its request. *)
LEMMA HandlerRecords ==
  ASSUME AdapterInv, NEW r \in Requests, conn[r].at # "closed",
         NEW c \in ConnType, conn' = [conn EXCEPT ![r] = c],
         NEW code \in Nat, calls' = Append(calls, <<r, code>>),
         c.at = "closed", ConnOK(r)',
         code = OK => c.wire = Append(Relayed(c.read), end)
  PROVE  AdapterInv'
<1>1. AdapterTypeOK'
  BY AdapterTyped DEF AdapterInv, AdapterTypeOK, ConnType, Item
<1>2. (\A x \in Requests : x # r => conn'[x] = conn[x]) /\ conn'[r] = c
  BY AdapterTyped DEF AdapterInv
<1>3. \A x \in Requests : ConnOK(x)'
  <2> TAKE x \in Requests
  <2>1. CASE x = r
    BY <2>1
  <2>2. CASE x # r
    BY <2>2, <1>2 DEF AdapterInv, ConnOK, Halves
  <2> QED BY <2>1, <2>2
<1>4. CallsOK'
  <2> DEFINE n == Len(calls) + 1
  <2>0. calls \in Seq(Requests \X Nat) /\ n \in Nat
    BY DEF AdapterInv, AdapterTypeOK
  <2>1. \A i \in DOMAIN calls : calls[i][1] \in Requests /\ calls[i][1] # r
    BY DEF AdapterInv, AdapterTypeOK, CallsOK
  <2>2. /\ DOMAIN calls' = DOMAIN calls \cup {n} /\ n \notin DOMAIN calls
        /\ calls'[n] = <<r, code>>
        /\ \A i \in DOMAIN calls : calls'[i] = calls[i]
    BY <2>0
  <2>3. calls'[n][1] = r /\ calls'[n][2] = code
    BY <2>2
  <2> HIDE DEF n
  <2>4. SUFFICES ASSUME NEW i \in DOMAIN calls'
        PROVE  /\ conn'[calls'[i][1]].at = "closed"
               /\ calls'[i][2] = OK =>
                    conn'[calls'[i][1]].wire = Append(Relayed(conn'[calls'[i][1]].read), end)
               /\ \A j \in DOMAIN calls' : calls'[j][1] = calls'[i][1] => j = i
    BY DEF CallsOK, Relayed
  <2>5. CASE i = n
    BY <2>5, <2>1, <2>2, <2>3, <1>2
  <2>6. CASE i \in DOMAIN calls
    <3>1. calls'[i] = calls[i] /\ conn'[calls[i][1]] = conn[calls[i][1]]
      BY <2>6, <2>1, <2>2, <1>2
    <3>2. /\ conn[calls[i][1]].at = "closed"
          /\ calls[i][2] = OK =>
               conn[calls[i][1]].wire = Append(Relayed(conn[calls[i][1]].read), end)
          /\ \A j \in DOMAIN calls : calls[j][1] = calls[i][1] => j = i
      BY <2>6 DEF AdapterInv, CallsOK
    <3>3. \A j \in DOMAIN calls' : calls'[j][1] = calls[i][1] => j = i
      BY <3>2, <2>6, <2>1, <2>2, <2>3
    <3> QED BY <3>1, <3>2, <3>3
  <2> QED BY <2>5, <2>6, <2>2
<1> QED
  BY <1>1, <1>3, <1>4 DEF AdapterInv

(* One proof step per action of the handler and the upstream. *)
LEMMA Rewired ==
  ASSUME NEW c \in ConnType, NEW w, NEW next
  PROVE  [[c EXCEPT !.wire = w] EXCEPT !.at = next]
           = [at |-> next, read |-> c.read, gone |-> c.gone, wire |-> w]
<1>1. c = [at |-> c.at, read |-> c.read, gone |-> c.gone, wire |-> c.wire]
  BY DEF ConnType
<1>2. [c EXCEPT !.wire = w] = [at |-> c.at, read |-> c.read, gone |-> c.gone, wire |-> w]
  BY <1>1
<1>3. [[at |-> c.at, read |-> c.read, gone |-> c.gone, wire |-> w] EXCEPT !.at = next]
        = [at |-> next, read |-> c.read, gone |-> c.gone, wire |-> w]
  OBVIOUS
<1> QED
  BY <1>2, <1>3

LEMMA AdapterMoves ==
  ASSUME AdapterInv, NEW r \in Requests, Handler(r) \/ Upstream(r)
  PROVE  AdapterInv' /\ conn[r].at # "idle" /\ conn'[r].at # "idle"
         /\ \A x \in Requests : x # r => conn'[x] = conn[x]
<1> USE AdapterAssumption
<1> DEFINE c == conn[r]
<1>0. /\ conn \in [Requests -> ConnType] /\ calls \in Seq(Requests \X Nat)
      /\ c \in ConnType /\ ConnOK(r) /\ MaxChunks[r] \in Nat
  BY AdapterTyped DEF AdapterInv
<1>a. /\ c.at \in {"idle", "open", "read", "write", "fail", "body", "closed"}
      /\ c.read \in Nat /\ c.gone \in BOOLEAN /\ c.wire \in Seq(Item)
      /\ c = [at |-> c.at, read |-> c.read, gone |-> c.gone, wire |-> c.wire]
  BY <1>0 DEF ConnType
<1> DEFINE To(next, n, w) == [at |-> next, read |-> n, gone |-> c.gone, wire |-> w]
<1>b. ASSUME NEW next \in {"idle", "open", "read", "write", "fail", "body", "closed"},
             NEW n \in Nat, NEW w \in Seq(Item)
      PROVE  To(next, n, w) \in ConnType
  BY <1>a DEF ConnType
<1>c. ASSUME NEW i \in Item, NEW next, Writes(r, i, next)
      PROVE  conn' = [conn EXCEPT ![r] = To(next, c.read, Append(c.wire, i))]
             /\ Append(c.wire, i) \in Seq(Item)
  <2>1. [[c EXCEPT !.wire = Append(@, i)] EXCEPT !.at = next]
          = To(next, c.read, Append(c.wire, i))
    BY <1>0, Rewired
  <2>2. conn' = [conn EXCEPT ![r] = [[c EXCEPT !.wire = Append(@, i)] EXCEPT !.at = next]]
    BY <1>c, <1>0 DEF Writes
  <2>3. Append(c.wire, i) \in Seq(Item)
    BY <1>a
  <2> QED BY <2>1, <2>2, <2>3
<1>d. ASSUME NEW next, conn' = [conn EXCEPT ![r].at = next]
      PROVE  conn' = [conn EXCEPT ![r] = To(next, c.read, c.wire)]
  <2>1. [c EXCEPT !.at = next] = To(next, c.read, c.wire)
    BY <1>a
  <2>2. conn' = [conn EXCEPT ![r] = [c EXCEPT !.at = next]]
    BY <1>d
  <2> QED BY <2>1, <2>2
<1>f. 0 \in Nat /\ \A k \in Nat : k + 1 \in Nat
  OBVIOUS
<1> HIDE DEF To
<1>g. \A next, n, w : To(next, n, w).at = next /\ To(next, n, w).read = n /\ To(next, n, w).wire = w
  BY DEF To
<1>1. CASE Begin(r)
  <2>1. c.at = "open" /\ c.wire = <<>> /\ c.read = 0
    BY <1>1, <1>0 DEF Begin, ConnOK
  <2>2. CASE Writes(r, status(OK), "read")
    <3> DEFINE d == To("read", 0, Append(c.wire, status(OK)))
    <3>1. conn' = [conn EXCEPT ![r] = d] /\ d \in ConnType
      BY <2>1, <2>2, <1>b, <1>c, <1>f, ItemsTyped
    <3>e. conn'[r] = d /\ \A x \in Requests : x # r => conn'[x] = conn[x]
      BY <3>1, <1>0
    <3>2. d.at = "read" /\ d.read = 0 /\ d.wire = Relayed(0)
      BY <3>1, <1>g, <2>1, RelayedNone
    <3> HIDE DEF d
    <3>3. ConnOK(r)'
      BY <3>e, <3>2 DEF ConnOK, Relayed
    <3> QED BY <3>1, <3>2, <3>3, <3>e, <1>1, <2>1, HandlerMoves DEF Begin
  <2>3. CASE Raises(r, "fail")
    <3> DEFINE d == To("fail", 0, c.wire)
    <3>1. conn' = [conn EXCEPT ![r] = d] /\ d \in ConnType
      BY <2>1, <2>3, <1>b, <1>d, <1>f, <1>a DEF Raises
    <3>e. conn'[r] = d /\ \A x \in Requests : x # r => conn'[x] = conn[x]
      BY <3>1, <1>0
    <3>2. d.at = "fail" /\ d.read = 0
      BY <3>1, <1>g
    <3> HIDE DEF d
    <3>3. ConnOK(r)'
      BY <3>e, <3>2 DEF ConnOK
    <3> QED BY <3>1, <3>2, <3>3, <3>e, <1>1, <2>1, HandlerMoves DEF Begin
  <2> QED BY <1>1, <2>2, <2>3 DEF Begin
<1>2. CASE Refuse(r)
  <2>1. c.at = "open" /\ c.wire = <<>> /\ c.read = 0
    BY <1>2, <1>0 DEF Refuse, ConnOK
  <2>2. CASE Writes(r, status(Overloaded), "body")
    <3> DEFINE d == To("body", 0, Append(c.wire, status(Overloaded)))
    <3>1. conn' = [conn EXCEPT ![r] = d] /\ d \in ConnType
      BY <2>1, <2>2, <1>b, <1>c, <1>f, ItemsTyped
    <3>e. conn'[r] = d /\ \A x \in Requests : x # r => conn'[x] = conn[x]
      BY <3>1, <1>0
    <3>2. d.at = "body" /\ d.read = 0
      BY <3>1, <1>g
    <3> HIDE DEF d
    <3>3. ConnOK(r)'
      BY <3>e, <3>2 DEF ConnOK
    <3> QED BY <3>1, <3>2, <3>3, <3>e, <1>2, <2>1, HandlerMoves DEF Refuse
  <2>3. CASE conn' = [conn EXCEPT ![r].at = "closed"]
    <3> DEFINE d == To("closed", 0, c.wire)
    <3>1. conn' = [conn EXCEPT ![r] = d] /\ d \in ConnType
      BY <2>1, <2>3, <1>b, <1>d, <1>f, <1>a
    <3>e. conn'[r] = d /\ \A x \in Requests : x # r => conn'[x] = conn[x]
      BY <3>1, <1>0
    <3>2. d.at = "closed" /\ d.read = 0
      BY <3>1, <1>g
    <3> HIDE DEF d
    <3>3. ConnOK(r)'
      BY <3>e, <3>2 DEF ConnOK
    <3> QED BY <3>1, <3>2, <3>3, <3>e, <1>2, <2>1, HandlerMoves DEF Refuse
  <2> QED BY <1>2, <2>2, <2>3 DEF Refuse
<1>3. CASE OpenFails(r)
  <2>1. c.at = "open" /\ c.wire = <<>> /\ c.read = 0
    BY <1>3, <1>0 DEF OpenFails, ConnOK
  <2> DEFINE d == To("fail", 0, c.wire)
  <2>2. conn' = [conn EXCEPT ![r] = d] /\ d \in ConnType
    BY <2>1, <1>3, <1>b, <1>d, <1>f, <1>a DEF OpenFails
  <2>e. conn'[r] = d /\ \A x \in Requests : x # r => conn'[x] = conn[x]
    BY <2>2, <1>0
  <2>3. d.at = "fail" /\ d.read = 0
    BY <2>2, <1>g
  <2> HIDE DEF d
  <2>4. ConnOK(r)'
    BY <2>e, <2>3 DEF ConnOK
  <2> QED BY <2>1, <2>2, <2>3, <2>4, <2>e, <1>3, HandlerMoves DEF OpenFails
<1>4. CASE Read(r)
  <2>1. c.at = "read" /\ c.wire = Relayed(c.read)
    BY <1>4, <1>0 DEF Read, ConnOK
  <2> DEFINE d == To("write", c.read + 1, c.wire)
  <2>2. conn' = [conn EXCEPT ![r] = d] /\ d \in ConnType
    BY <1>4, <1>a, <1>b, <1>f, <1>0 DEF Read, To
  <2>e. conn'[r] = d /\ \A x \in Requests : x # r => conn'[x] = conn[x]
    BY <2>2, <1>0
  <2>3. d.at = "write" /\ d.read = c.read + 1 /\ d.wire = Relayed(c.read)
    BY <2>1, <2>2, <1>g
  <2> HIDE DEF d
  <2>4. ConnOK(r)'
    BY <2>e, <2>3, <1>a DEF ConnOK, Relayed
  <2> QED BY <2>1, <2>2, <2>3, <2>4, <2>e, <1>4, HandlerMoves DEF Read
<1>5. CASE ReadFails(r)
  <2>1. c.at = "read" /\ c.wire = Relayed(c.read)
    BY <1>5, <1>0 DEF ReadFails, ConnOK
  <2> DEFINE d == To("fail", c.read, c.wire)
  <2>2. conn' = [conn EXCEPT ![r] = d] /\ d \in ConnType
    BY <1>5, <1>b, <1>d, <1>a DEF ReadFails
  <2>e. conn'[r] = d /\ \A x \in Requests : x # r => conn'[x] = conn[x]
    BY <2>2, <1>0
  <2>3. d.at = "fail" /\ d.read = c.read /\ d.wire = Relayed(c.read)
    BY <2>1, <2>2, <1>g
  <2> HIDE DEF d
  <2>4. ConnOK(r)'
    BY <2>e, <2>3, <1>a DEF ConnOK, Relayed, Halves
  <2> QED BY <2>1, <2>2, <2>3, <2>4, <2>e, <1>5, HandlerMoves DEF ReadFails
<1>6. CASE Finish(r)
  <2>1. c.at = "read" /\ c.wire = Relayed(c.read)
    BY <1>6, <1>0 DEF Finish, ConnOK
  <2>2. CASE Writes(r, end, "closed") /\ Records(r, OK)
    <3> DEFINE d == To("closed", c.read, Append(c.wire, end))
    <3>1. conn' = [conn EXCEPT ![r] = d] /\ d \in ConnType
      BY <2>2, <1>a, <1>b, <1>c, ItemsTyped
    <3>e. conn'[r] = d /\ \A x \in Requests : x # r => conn'[x] = conn[x]
      BY <3>1, <1>0
    <3>2. d.at = "closed" /\ d.read = c.read /\ d.wire = Append(Relayed(c.read), end)
      BY <2>1 DEF To
    <3> HIDE DEF d
    <3>3. ConnOK(r)'
      BY <3>e, <3>2, <1>a DEF ConnOK, Relayed, Halves, Closings, end
    <3> QED BY <3>1, <3>2, <3>3, <3>e, <2>1, <2>2, HandlerRecords, ItemsTyped DEF Records
  <2>3. CASE Raises(r, "fail") /\ UNCHANGED calls
    <3> DEFINE d == To("fail", c.read, c.wire)
    <3>1. conn' = [conn EXCEPT ![r] = d] /\ d \in ConnType
      BY <2>3, <1>b, <1>d, <1>a DEF Raises
    <3>e. conn'[r] = d /\ \A x \in Requests : x # r => conn'[x] = conn[x]
      BY <3>1, <1>0
    <3>2. d.at = "fail" /\ d.read = c.read /\ d.wire = Relayed(c.read)
      BY <2>1, <3>1, <1>g
    <3> HIDE DEF d
    <3>3. ConnOK(r)'
      BY <3>e, <3>2, <1>a DEF ConnOK, Relayed, Halves
    <3> QED BY <3>1, <3>2, <3>3, <3>e, <2>1, <2>3, HandlerMoves
  <2> QED BY <1>6, <2>2, <2>3 DEF Finish
<1>7. CASE Write(r)
  <2>1. c.at = "write" /\ c.read > 0 /\ c.wire = Relayed(c.read - 1)
    BY <1>7, <1>0 DEF Write, ConnOK
  <2>2. CASE Writes(r, chunk(c.read), "read")
    <3> DEFINE d == To("read", c.read, Append(c.wire, chunk(c.read)))
    <3>1. conn' = [conn EXCEPT ![r] = d] /\ d \in ConnType
      BY <2>2, <1>a, <1>b, <1>c, ItemsTyped
    <3>3. c.read - 1 \in Nat /\ (c.read - 1) + 1 = c.read
      BY <2>1, <1>a
    <3>2. Append(Relayed(c.read - 1), chunk((c.read - 1) + 1)) = Relayed((c.read - 1) + 1)
      BY <3>3, RelayedMore
    <3>e. conn'[r] = d /\ \A x \in Requests : x # r => conn'[x] = conn[x]
      BY <3>1, <1>0
    <3>4. d.at = "read" /\ d.read = c.read /\ d.wire = Relayed(c.read)
      BY <2>1, <3>2, <3>3 DEF To
    <3> HIDE DEF d
    <3>5. ConnOK(r)'
      BY <3>e, <3>4, <1>a DEF ConnOK, Relayed
    <3> QED BY <3>1, <3>4, <3>5, <3>e, <1>7, <2>1, HandlerMoves DEF Write
  <2>3. CASE Raises(r, "fail")
    <3> DEFINE d == To("fail", c.read, c.wire)
    <3>1. conn' = [conn EXCEPT ![r] = d] /\ d \in ConnType
      BY <2>3, <1>b, <1>d, <1>a DEF Raises
    <3>e. conn'[r] = d /\ \A x \in Requests : x # r => conn'[x] = conn[x]
      BY <3>1, <1>0
    <3>2. d.at = "fail" /\ d.read = c.read /\ d.wire = Relayed(c.read - 1)
      BY <2>1, <3>1, <1>g
    <3> HIDE DEF d
    <3>3. c.read - 1 \in Nat /\ (c.read - 1) + 1 = c.read
      BY <2>1, <1>a
    <3>4. ConnOK(r)'
      BY <3>e, <3>2, <3>3 DEF ConnOK, Relayed, Halves
    <3> QED BY <3>1, <3>2, <3>4, <3>e, <1>7, <2>1, HandlerMoves DEF Write
  <2> QED BY <1>7, <2>2, <2>3 DEF Write
<1>8. CASE Answer502(r)
  <2>1. c.at = "fail" /\ (c.read > 0 => \E k \in Halves(r) : c.wire = Relayed(k))
    BY <1>8, <1>0 DEF Answer502, ConnOK
  <2>2. CASE Writes(r, status(BadGateway), "body")
    <3> DEFINE d == To("body", c.read, Append(c.wire, status(BadGateway)))
    <3>1. conn' = [conn EXCEPT ![r] = d] /\ d \in ConnType
      BY <2>2, <1>a, <1>b, <1>c, ItemsTyped
    <3>e. conn'[r] = d /\ \A x \in Requests : x # r => conn'[x] = conn[x]
      BY <3>1, <1>0
    <3>2. d.at = "body" /\ d.read = c.read /\ d.wire = Append(c.wire, status(BadGateway))
      BY DEF To
    <3> HIDE DEF d
    <3>3. ConnOK(r)'
      BY <3>e, <3>2, <2>1 DEF ConnOK, Halves
    <3> QED BY <3>1, <3>2, <3>3, <3>e, <1>8, <2>1, HandlerMoves DEF Answer502
  <2>3. CASE Raises(r, "closed")
    <3> DEFINE d == To("closed", c.read, c.wire)
    <3>1. conn' = [conn EXCEPT ![r] = d] /\ d \in ConnType
      BY <2>3, <1>b, <1>d, <1>a DEF Raises
    <3>e. conn'[r] = d /\ \A x \in Requests : x # r => conn'[x] = conn[x]
      BY <3>1, <1>0
    <3>2. d.at = "closed" /\ d.read = c.read /\ d.wire = c.wire
      BY <3>1, <1>g
    <3> HIDE DEF d
    <3>3. ConnOK(r)'
      BY <3>e, <3>2, <2>1 DEF ConnOK, Relayed, Halves, Closings
    <3> QED BY <3>1, <3>2, <3>3, <3>e, <1>8, <2>1, HandlerMoves DEF Answer502
  <2> QED BY <1>8, <2>2, <2>3 DEF Answer502
<1>9. ASSUME NEW code \in {Overloaded, BadGateway}, Body(r, code)
      PROVE  AdapterInv' /\ conn[r].at # "idle" /\ conn'[r].at # "idle"
             /\ \A x \in Requests : x # r => conn'[x] = conn[x]
  <2>1. /\ c.at = "body" /\ code \in Nat /\ code # OK
        /\ c.read > 0 => \E k \in Halves(r) : c.wire = Append(Relayed(k), status(BadGateway))
    BY <1>9, <1>0 DEF Body, ConnOK, Overloaded, BadGateway, OK
  <2>2. CASE Writes(r, end, "closed") /\ Records(r, code)
    <3> DEFINE d == To("closed", c.read, Append(c.wire, end))
    <3>1. conn' = [conn EXCEPT ![r] = d] /\ d \in ConnType
      BY <2>2, <1>a, <1>b, <1>c, ItemsTyped
    <3>e. conn'[r] = d /\ \A x \in Requests : x # r => conn'[x] = conn[x]
      BY <3>1, <1>0
    <3>2. d.at = "closed" /\ d.read = c.read /\ d.wire = Append(c.wire, end)
      BY DEF To
    <3> HIDE DEF d
    <3>3. ConnOK(r)'
      BY <3>e, <3>2, <2>1 DEF ConnOK, Relayed, Halves, Closings, end, status
    <3> QED BY <3>1, <3>2, <3>3, <3>e, <2>1, <2>2, HandlerRecords DEF Records
  <2>3. CASE Raises(r, "closed") /\ UNCHANGED calls
    <3> DEFINE d == To("closed", c.read, c.wire)
    <3>1. conn' = [conn EXCEPT ![r] = d] /\ d \in ConnType
      BY <2>3, <1>b, <1>d, <1>a DEF Raises
    <3>e. conn'[r] = d /\ \A x \in Requests : x # r => conn'[x] = conn[x]
      BY <3>1, <1>0
    <3>2. d.at = "closed" /\ d.read = c.read /\ d.wire = c.wire
      BY <3>1, <1>g
    <3> HIDE DEF d
    <3>3. ConnOK(r)'
      BY <3>e, <3>2, <2>1 DEF ConnOK, Relayed, Halves, Closings, status
    <3> QED BY <3>1, <3>2, <3>3, <3>e, <2>1, <2>3, HandlerMoves
  <2> QED BY <1>9, <2>2, <2>3 DEF Body
<1> QED
  BY <1>1, <1>2, <1>3, <1>4, <1>5, <1>6, <1>7, <1>8, <1>9 DEF Handler, Upstream

-----------------------------------------------------------------------------
(* Whether, and how often, an element is in a sequence. *)
Has(s, f) == \E i \in 1..Len(s) : s[i] = f
One(s, f) == \A i, j \in 1..Len(s) : s[i] = f /\ s[j] = f => i = j

LEMMA NoneYet ==
  ASSUME NEW f
  PROVE  ~Has(<<>>, f) /\ One(<<>>, f)
  BY DEF Has, One

LEMMA Appended ==
  ASSUME NEW S, NEW s \in Seq(S), NEW g \in S, NEW f
  PROVE  /\ Has(Append(s, g), f) <=> Has(s, f) \/ g = f
         /\ One(s, f) /\ ~(Has(s, f) /\ g = f) => One(Append(s, g), f)
<1>1. /\ Len(Append(s, g)) = Len(s) + 1 /\ Append(s, g)[Len(s) + 1] = g
      /\ \A i \in 1..Len(s) : Append(s, g)[i] = s[i]
      /\ 1..(Len(s) + 1) = 1..Len(s) \cup {Len(s) + 1} /\ Len(s) \in Nat
  OBVIOUS
<1> QED
  BY <1>1 DEF Has, One

LEMMA HeadAndTail ==
  ASSUME NEW S, NEW s \in Seq(S), s # <<>>, NEW f
  PROVE  /\ Head(s) \in S /\ Tail(s) \in Seq(S)
         /\ Has(s, f) <=> Head(s) = f \/ Has(Tail(s), f)
         /\ One(s, f) => One(Tail(s), f) /\ ~(Head(s) = f /\ Has(Tail(s), f))
<1>1. /\ Len(s) \in Nat \ {0} /\ Len(Tail(s)) = Len(s) - 1
      /\ Head(s) = s[1] /\ Head(s) \in S /\ Tail(s) \in Seq(S)
      /\ \A i \in 1..Len(Tail(s)) : Tail(s)[i] = s[i + 1]
  OBVIOUS
<1>2. Has(s, f) => Head(s) = f \/ Has(Tail(s), f)
  <2> SUFFICES ASSUME NEW i \in 1..Len(s), s[i] = f, i # 1
               PROVE  Has(Tail(s), f)
    BY <1>1 DEF Has
  <2>1. i - 1 \in 1..Len(Tail(s)) /\ Tail(s)[i - 1] = f
    BY <1>1
  <2> QED BY <2>1 DEF Has
<1>3. Has(Tail(s), f) => \E i \in 1..Len(s) : i # 1 /\ s[i] = f
  <2> SUFFICES ASSUME NEW i \in 1..Len(Tail(s)), Tail(s)[i] = f
               PROVE  \E k \in 1..Len(s) : k # 1 /\ s[k] = f
    BY DEF Has
  <2>1. i + 1 \in 1..Len(s) /\ i + 1 # 1 /\ s[i + 1] = f
    BY <1>1
  <2> QED BY <2>1
<1>4. One(s, f) => One(Tail(s), f)
  <2> SUFFICES ASSUME One(s, f), NEW i \in 1..Len(Tail(s)), NEW j \in 1..Len(Tail(s)),
                      Tail(s)[i] = f, Tail(s)[j] = f
               PROVE  i = j
    BY DEF One
  <2>1. i + 1 \in 1..Len(s) /\ j + 1 \in 1..Len(s) /\ s[i + 1] = f /\ s[j + 1] = f
    BY <1>1
  <2>2. i + 1 = j + 1
    BY <2>1 DEF One
  <2> QED BY <2>2
<1>5. 1 \in 1..Len(s)
  BY <1>1
<1> QED
  BY <1>1, <1>2, <1>3, <1>4, <1>5 DEF Has, One

LEMMA Removed ==
  ASSUME NEW S, NEW s \in Seq(S), NEW i \in 1..Len(s), NEW f, s[i] # f
  PROVE  LET t == SubSeq(s, 1, i - 1) \o SubSeq(s, i + 1, Len(s)) IN
         t \in Seq(S) /\ (Has(t, f) <=> Has(s, f)) /\ (One(s, f) => One(t, f))
<1> DEFINE a == SubSeq(s, 1, i - 1)
           b == SubSeq(s, i + 1, Len(s))
           t == a \o b
<1>1. Len(s) \in Nat /\ i \in Nat /\ 1 <= i /\ i <= Len(s)
  OBVIOUS
<1>2. a \in Seq(S) /\ Len(a) = i - 1 /\ \A k \in 1..(i - 1) : a[k] = s[k]
  BY <1>1, SubSeqProperties
<1>3. b \in Seq(S) /\ Len(b) = Len(s) - i /\ \A k \in 1..(Len(s) - i) : b[k] = s[i + k]
  BY <1>1, SubSeqProperties
<1> HIDE DEF a, b
<1>c. /\ t \in Seq(S) /\ Len(t) = Len(a) + Len(b)
      /\ \A k \in 1..(Len(a) + Len(b)) : t[k] = IF k <= Len(a) THEN a[k] ELSE b[k - Len(a)]
  BY <1>2, <1>3, ConcatProperties
<1> HIDE DEF t
<1>d. ASSUME NEW k \in 1..(Len(s) - 1)
      PROVE  t[k] = IF k < i THEN s[k] ELSE s[k + 1]
  <2>0. k \in 1..(Len(a) + Len(b)) /\ (k <= Len(a) <=> k < i) /\ k - Len(a) = k - (i - 1)
    BY <1>1, <1>2, <1>3
  <2>a. t[k] = IF k <= Len(a) THEN a[k] ELSE b[k - Len(a)]
    BY <2>0, <1>c
  <2>1. CASE k < i
    <3>1. k \in 1..(i - 1)
      BY <2>1, <1>1
    <3>2. t[k] = a[k]
      BY <2>1, <2>0, <2>a
    <3> QED BY <3>1, <3>2, <2>1, <1>2
  <2>2. CASE ~(k < i)
    <3>1. k - (i - 1) \in 1..(Len(s) - i) /\ i + (k - (i - 1)) = k + 1
      BY <2>2, <1>1
    <3>2. t[k] = b[k - (i - 1)]
      BY <2>2, <2>0, <2>a
    <3> QED BY <3>1, <3>2, <2>2, <1>3
  <2> QED BY <2>1, <2>2
<1>4. /\ t \in Seq(S) /\ Len(t) = Len(s) - 1
      /\ \A k \in 1..(Len(s) - 1) : t[k] = IF k < i THEN s[k] ELSE s[k + 1]
  BY <1>1, <1>2, <1>3, <1>c, <1>d
<1>5. Has(t, f) => Has(s, f)
  <2> SUFFICES ASSUME NEW k \in 1..Len(t), t[k] = f PROVE Has(s, f)
    BY DEF Has
  <2>1. k \in 1..Len(s) /\ k + 1 \in 1..Len(s)
    BY <1>1, <1>4
  <2> QED BY <2>1, <1>4 DEF Has
<1>6. Has(s, f) => Has(t, f)
  <2> SUFFICES ASSUME NEW k \in 1..Len(s), s[k] = f PROVE Has(t, f)
    BY DEF Has
  <2>1. CASE k < i
    <3>1. k \in 1..Len(t) /\ t[k] = s[k]
      BY <2>1, <1>1, <1>4
    <3> QED BY <3>1 DEF Has
  <2>2. CASE k > i
    <3>1. k - 1 \in 1..Len(t) /\ t[k - 1] = s[k]
      BY <2>2, <1>1, <1>4
    <3> QED BY <3>1 DEF Has
  <2> QED BY <2>1, <2>2, <1>1
<1>7. One(s, f) => One(t, f)
  <2> SUFFICES ASSUME One(s, f), NEW k \in 1..Len(t), NEW l \in 1..Len(t), t[k] = f, t[l] = f
               PROVE  k = l
    BY DEF One
  <2> DEFINE at(n) == IF n < i THEN n ELSE n + 1
  <2>1. at(k) \in 1..Len(s) /\ at(l) \in 1..Len(s) /\ s[at(k)] = f /\ s[at(l)] = f
    BY <1>1, <1>4
  <2>2. at(k) = at(l)
    BY <2>1 DEF One
  <2> QED BY <2>2, <1>1
<1> QED
  BY <1>4, <1>5, <1>6, <1>7 DEF t, a, b

-----------------------------------------------------------------------------
(* The invariant.  A turn is asked, waits in stdin, is worked on and has   *)
(* its one result, in this order; the driver's answers are results read.   *)
Messages == {user(1), user(2), interrupt}
Frames == {frame(k, t) : k \in {"user", "delta", "result"}, t \in Turns}
            \cup {frame("control", 0), frame("value", 0)}
Lines == Frames \cup {frame("noise", 0)}
result(t) == frame("result", t)

Typed ==
  /\ open \in BOOLEAN
  /\ stdin \in Seq(Messages) /\ pipe \in Seq(Lines) /\ frames \in Seq(Frames) /\ q \in Seq(Nat)
  /\ cli \in [at : {"idle", "turn", "stopping", "down"}, turn : 0..2, seen : Nat,
              code : {None, 0, 1}]
  /\ rd \in {"read", "put", "show", "dead", "end"}
  /\ fired \in Nat
  /\ drv \in [at : {"ask", "scan", "get", "close", "reap", "done", "killed", "raised"},
              turn : Turns, n : Nat, answer : Nat \X Nat, clean : BOOLEAN]

Sent(t) == drv.turn > t \/ (drv.turn = t /\ drv.at # "ask")
Asked(t) == drv.turn > t \/ (drv.turn = t /\ drv.at \notin {"ask", "raised"})
Busy(t) == cli.at \in {"turn", "stopping"} /\ cli.turn = t
Answered(t) == Has(frames, result(t)) \/ Has(pipe, result(t))

TurnOK(t) ==
  /\ One(stdin, user(t))
  /\ Has(stdin, user(t)) => Sent(t) /\ conn[t].at = "idle"
  /\ ~Sent(t) => conn[t].at = "idle"
  /\ Busy(t) => conn[t].at # "idle"
  /\ One(frames, result(t)) /\ One(pipe, result(t))
  /\ ~(Has(frames, result(t)) /\ Has(pipe, result(t)))
  /\ Answered(t) => conn[t].at # "idle" /\ ~Busy(t)
  /\ Asked(t) /\ drv.at # "killed" /\ (cli.at # "down" \/ cli.code = 0) =>
       Has(stdin, user(t)) \/ Busy(t) \/ Answered(t)

CliOK ==
  /\ cli.at \in {"turn", "stopping"} => cli.turn \in Turns
  /\ cli.code # None => cli.at = "down"
  /\ cli.code = 0 => stdin = <<>>

AnswersOK ==
  /\ drv.at \in {"close", "reap", "done", "killed"} => drv.turn = 2
  /\ drv.clean => cli.code = 0 /\ drv.at = "done"
  /\ drv.answer[1] # 0 => /\ drv.answer[1] \in 1..Len(frames) /\ drv.turn = 2
                          /\ frames[drv.answer[1]] = result(1)
  /\ drv.turn = 2 /\ drv.at \notin {"ask", "raised"} => drv.answer[1] <= drv.n
  /\ drv.answer[2] # 0 => /\ drv.answer[2] \in 1..Len(frames)
                          /\ drv.answer[2] > drv.n + 1 /\ drv.answer[1] <= drv.n
                          /\ drv.at \in {"close", "reap", "done", "killed", "raised"}
                          /\ frames[drv.answer[2]].kind = "result"

QueueOK == (rd \in {"put", "show"} => frames # <<>>) /\ NoAnswerMissed

SessionInv ==
  /\ Typed /\ AdapterInv /\ (\A t \in Turns : TurnOK(t))
  /\ CliOK /\ AnswersOK /\ QueueOK

-----------------------------------------------------------------------------
LEMMA FramesTyped ==
  /\ \A t \in Turns : /\ user(t) \in Messages /\ user(t) # interrupt
                      /\ user(t).turn = t /\ user(t).kind = "user"
                      /\ user(t) \in Frames /\ frame("delta", t) \in Frames /\ result(t) \in Frames
                      /\ result(t) # frame("control", 0) /\ result(t).turn = t
                      /\ result(t).kind = "result"
  /\ \A t, x \in Turns : /\ result(t) # user(x) /\ result(t) # frame("delta", x)
                         /\ result(t) = result(x) => t = x
                         /\ user(t) = user(x) => t = x
  /\ \A m \in Messages : m # interrupt => \E t \in Turns : m = user(t)
  /\ \A f \in Frames : f.kind # "noise" /\ (f.kind = "result" => \E t \in Turns : f = result(t))
  /\ \A f \in Lines : f.kind # "noise" => f \in Frames
  /\ frame("value", 0) \in Frames
  /\ frame("control", 0) \in Frames /\ Frames \subseteq Lines /\ interrupt \in Messages
  BY DEF Messages, Frames, Lines, frame, user, interrupt, result, Turns

LEMMA QueueKept ==
  ASSUME QueueOK, UNCHANGED <<frames, q, rd, drv>>
  PROVE  QueueOK'
  BY DEF QueueOK, NoAnswerMissed, Matches

LEMMA AdapterKept ==
  ASSUME AdapterInv, UNCHANGED <<conn, calls>>
  PROVE  AdapterInv'
<1>1. AdapterTypeOK' /\ \A r \in Requests : ConnOK(r)'
  BY DEF AdapterInv, AdapterTypeOK, ConnOK, Halves
<1>2. CallsOK'
  BY DEF AdapterInv, CallsOK
<1> QED
  BY <1>1, <1>2 DEF AdapterInv

LEMMA AnswersKept ==
  ASSUME AnswersOK, UNCHANGED <<frames, drv>>, cli.code = 0 => cli'.code = 0
  PROVE  AnswersOK'
  BY DEF AnswersOK, result, frame

(* The client hangs up: nothing else of a request is its doing. *)
LEMMA HangUp ==
  ASSUME AdapterInv, UNCHANGED calls,
         NEW g \in [Requests -> BOOLEAN],
         conn' = [r \in Requests |-> [conn[r] EXCEPT !.gone = g[r]]]
  PROVE  AdapterInv' /\ \A r \in Requests : conn'[r].at = conn[r].at
<1>0. conn \in [Requests -> ConnType] /\ calls \in Seq(Requests \X Nat)
  BY AdapterTyped DEF AdapterInv
<1>1. ASSUME NEW r \in Requests
      PROVE  /\ conn'[r] = [conn[r] EXCEPT !.gone = g[r]] /\ conn'[r] \in ConnType
             /\ conn'[r].at = conn[r].at /\ conn'[r].read = conn[r].read
             /\ conn'[r].wire = conn[r].wire
  BY <1>0 DEF ConnType
<1>2. AdapterTypeOK'
  <2>1. conn' \in [Requests -> ConnType]
    BY <1>1
  <2> QED BY <2>1, <1>0 DEF AdapterTypeOK, ConnType, Item
<1>3. \A r \in Requests : ConnOK(r)'
  BY <1>1 DEF AdapterInv, ConnOK, Halves
<1>4. CallsOK'
  <2>1. \A i \in DOMAIN calls : calls[i][1] \in Requests
    BY <1>0
  <2> QED BY <2>1, <1>1 DEF AdapterInv, CallsOK
<1> QED
  BY <1>1, <1>2, <1>3, <1>4 DEF AdapterInv

LEMMA HangUpOne ==
  ASSUME AdapterInv, UNCHANGED calls, NEW t \in Requests,
         conn' = [conn EXCEPT ![t].gone = TRUE]
  PROVE  AdapterInv' /\ \A r \in Requests : conn'[r].at = conn[r].at
<1> DEFINE g == [r \in Requests |-> IF r = t THEN TRUE ELSE conn[r].gone]
<1>0. conn \in [Requests -> ConnType]
  BY AdapterTyped DEF AdapterInv
<1>1. g \in [Requests -> BOOLEAN]
  BY <1>0 DEF ConnType
<1>2. ASSUME NEW r \in Requests
      PROVE  conn'[r] = [conn[r] EXCEPT !.gone = g[r]]
  <2>1. CASE r = t
    BY <2>1, <1>0
  <2>2. CASE r # t
    <3>1. conn'[r] = conn[r] /\ g[r] = conn[r].gone /\ conn[r] \in ConnType
      BY <2>2, <1>0
    <3> QED BY <3>1 DEF ConnType
  <2> QED BY <2>1, <2>2
<1>3. conn' = [r \in Requests |-> [conn[r] EXCEPT !.gone = g[r]]]
  BY <1>2, <1>0
<1> HIDE DEF g
<1> QED
  BY <1>1, <1>3, HangUp

LEMMA HangUpAll ==
  ASSUME AdapterInv, UNCHANGED calls,
         conn' = [r \in Requests |-> [conn[r] EXCEPT !.gone = @ \/ conn[r].at # "idle"]]
  PROVE  AdapterInv' /\ \A r \in Requests : conn'[r].at = conn[r].at
<1> DEFINE g == [r \in Requests |-> conn[r].gone \/ conn[r].at # "idle"]
<1>1. g \in [Requests -> BOOLEAN]
  OBVIOUS
<1>2. conn' = [r \in Requests |-> [conn[r] EXCEPT !.gone = g[r]]]
  OBVIOUS
<1> HIDE DEF g
<1> QED
  BY <1>1, <1>2, HangUp

-----------------------------------------------------------------------------
(* The session process. *)
LEMMA Emitted ==
  ASSUME Typed, NEW f \in Lines, Emits(f), NEW g
  PROVE  /\ pipe' \in Seq(Lines)
         /\ Has(pipe', g) <=> Has(pipe, g) \/ (f = g /\ drv.at # "killed")
         /\ One(pipe, g) /\ ~(Has(pipe, g) /\ f = g) => One(pipe', g)
<1>1. CASE drv.at = "killed"
  BY <1>1 DEF Typed, Emits
<1>2. CASE drv.at # "killed"
  <2>1. pipe \in Seq(Lines) /\ pipe' = Append(pipe, f)
    BY <1>2 DEF Typed, Emits
  <2>2. Append(pipe, f) \in Seq(Lines)
    BY <2>1
  <2> QED BY <1>2, <2>1, <2>2, Appended
<1> QED BY <1>1, <1>2

LEMMA CliTakesOK ==
  ASSUME SessionInv, CliTakes, UNCHANGED <<calls, harnessVars>>
  PROVE  SessionInv'
<1> USE SessionAssumption
<1> DEFINE m == Head(stdin)
<1>0. Typed /\ AdapterInv /\ CliOK /\ AnswersOK /\ QueueOK /\ \A t \in Turns : TurnOK(t)
  BY DEF SessionInv
<1>1. stdin # <<>> /\ stdin' = Tail(stdin) /\ cli.at = "idle"
      /\ UNCHANGED <<calls, open, frames, q, rd, fired, drv>>
  BY DEF CliTakes, harnessVars
<1>2. /\ m \in Messages /\ stdin' \in Seq(Messages)
      /\ \A f : Has(stdin, f) <=> m = f \/ Has(stdin', f)
      /\ \A f : One(stdin, f) => One(stdin', f) /\ ~(m = f /\ Has(stdin', f))
  BY <1>0, <1>1, HeadAndTail DEF Typed
<1>3. QueueOK' /\ cli.code # 0
  BY <1>0, <1>1, QueueKept DEF CliOK
<1> HIDE DEF m
<1>4. CASE m = interrupt
  <2>1. Emits(frame("control", 0)) /\ UNCHANGED <<cli, conn>>
    BY <1>4 DEF CliTakes, m
  <2>2. /\ pipe' \in Seq(Lines)
        /\ \A t \in Turns : /\ Has(pipe', result(t)) <=> Has(pipe, result(t))
                            /\ One(pipe, result(t)) => One(pipe', result(t))
    BY <2>1, <1>0, FramesTyped, Emitted
  <2>3. Typed'
    BY <1>0, <1>1, <1>2, <2>1, <2>2 DEF Typed
  <2>4. AdapterInv'
    BY <1>0, <1>1, <2>1, AdapterKept
  <2>5. \A t \in Turns : TurnOK(t)'
    BY <1>0, <1>1, <1>2, <1>4, <2>1, <2>2, FramesTyped DEF TurnOK, Sent, Asked, Busy, Answered
  <2>6. CliOK' /\ AnswersOK'
    BY <1>0, <1>1, <1>3, <2>1, AnswersKept DEF CliOK
  <2> QED BY <1>3, <2>3, <2>4, <2>5, <2>6 DEF SessionInv
<1>5. CASE m # interrupt
  <2>0. PICK t \in Turns : m = user(t)
    BY <1>2, <1>5, FramesTyped
  <2>1. /\ Emits(user(t)) /\ user(t).turn = t
        /\ cli' = [cli EXCEPT !.at = "turn", !.turn = t, !.seen = 0]
        /\ conn' = [conn EXCEPT ![t].at = "open"]
    BY <1>5, <2>0, FramesTyped DEF CliTakes, m
  <2>2. /\ pipe' \in Seq(Lines)
        /\ \A x \in Turns : /\ Has(pipe', result(x)) <=> Has(pipe, result(x))
                            /\ One(pipe, result(x)) => One(pipe', result(x))
    BY <2>1, <1>0, FramesTyped, Emitted
  <2>3. /\ cli'.at = "turn" /\ cli'.turn = t /\ cli'.code = cli.code
        /\ cli' \in [at : {"idle", "turn", "stopping", "down"}, turn : 0..2, seen : Nat,
                     code : {None, 0, 1}]
    <3>1. cli.code \in {None, 0, 1} /\ t \in 0..2 /\ 0 \in Nat
      BY <1>0 DEF Typed, Turns
    <3>2. cli' = [at |-> "turn", turn |-> t, seen |-> 0, code |-> cli.code]
      BY <2>1, <1>0 DEF Typed
    <3> QED BY <3>1, <3>2
  <2>4. Typed'
    BY <1>0, <1>1, <1>2, <2>2, <2>3 DEF Typed
  <2>5. conn[t].at = "idle" /\ t \in Requests /\ Has(stdin, user(t)) /\ Sent(t)
    BY <1>0, <1>2, <2>0 DEF TurnOK
  <2>6. AdapterInv' /\ conn'[t].at = "open" /\ \A x \in Requests : x # t => conn'[x] = conn[x]
    <3> DEFINE d == [conn[t] EXCEPT !.at = "open"]
    <3>1. conn \in [Requests -> ConnType] /\ conn[t] \in ConnType /\ ConnOK(t)
      BY <1>0, <2>5, AdapterTyped DEF AdapterInv
    <3>2. d \in ConnType /\ d.at = "open" /\ d.read = conn[t].read /\ d.wire = conn[t].wire
      BY <3>1 DEF ConnType
    <3>3. conn' = [conn EXCEPT ![t] = d]
      BY <2>1
    <3> HIDE DEF d
    <3>4. conn'[t] = d /\ \A x \in Requests : x # t => conn'[x] = conn[x]
      BY <3>1, <3>3, <2>5
    <3>5. ConnOK(t)'
      BY <3>1, <3>2, <3>4, <2>5 DEF ConnOK
    <3> QED BY <1>0, <1>1, <2>5, <3>2, <3>3, <3>4, <3>5, HandlerMoves
  <2>7. ASSUME NEW x \in Turns
        PROVE  TurnOK(x)'
    <3>1. TurnOK(x) /\ TurnOK(t)
      BY <1>0
    <3>2. CASE x = t
      BY <3>1, <3>2, <1>1, <1>2, <2>0, <2>2, <2>3, <2>5, <2>6 DEF TurnOK, Sent, Asked, Busy, Answered
    <3>3. CASE x # t
      <4>1. user(x) # user(t) /\ conn'[x] = conn[x]
        BY <3>3, <2>6, FramesTyped
      <4> QED
        BY <3>1, <3>3, <4>1, <1>1, <1>2, <2>0, <2>2, <2>3, <2>5
           DEF TurnOK, Sent, Asked, Busy, Answered
    <3> QED BY <3>2, <3>3
  <2>8. CliOK' /\ AnswersOK'
    BY <1>0, <1>1, <1>3, <2>3, AnswersKept DEF CliOK
  <2> QED BY <1>3, <2>4, <2>6, <2>7, <2>8 DEF SessionInv
<1> QED BY <1>4, <1>5

(* What a turn needs of a step that ends it with its result. *)
LEMMA CliResultOK ==
  ASSUME SessionInv, cli.at \in {"turn", "stopping"}, CliResult,
         UNCHANGED <<stdin, calls, harnessVars>>,
         AdapterInv', \A r \in Requests : conn'[r].at = conn[r].at
  PROVE  SessionInv'
<1> USE SessionAssumption
<1> DEFINE t == cli.turn
<1>0. /\ Typed /\ AdapterInv /\ CliOK /\ AnswersOK /\ QueueOK /\ (\A x \in Turns : TurnOK(x))
      /\ t \in Turns /\ t \in Requests
      /\ UNCHANGED <<calls, open, frames, q, rd, fired, drv>>
  BY DEF SessionInv, CliOK, harnessVars
<1>1. /\ cli'.at = "idle" /\ cli'.turn = t /\ cli'.code = cli.code
      /\ cli' \in [at : {"idle", "turn", "stopping", "down"}, turn : 0..2, seen : Nat,
                   code : {None, 0, 1}]
  BY <1>0 DEF Typed, CliResult
<1>2. /\ pipe' \in Seq(Lines)
      /\ \A x \in Turns : /\ Has(pipe', result(x)) <=> Has(pipe, result(x)) \/ (x = t /\ drv.at # "killed")
                          /\ One(pipe, result(x)) /\ ~(Has(pipe, result(x)) /\ x = t)
                               => One(pipe', result(x))
  <2>1. Emits(result(t)) /\ result(t) \in Lines
    BY <1>0, FramesTyped DEF CliResult, result
  <2> QED BY <2>1, <1>0, FramesTyped, Emitted
<1> HIDE DEF t
<1>3. Typed'
  BY <1>0, <1>1, <1>2 DEF Typed
<1>4. Busy(t)
  BY DEF Busy, t
<1>5. ASSUME NEW x \in Turns
      PROVE  TurnOK(x)'
  <2>1. TurnOK(x) /\ conn'[x].at = conn[x].at /\ ~Busy(x)'
    BY <1>0, <1>1 DEF Busy
  <2>2. CASE x = t
    BY <2>1, <2>2, <1>0, <1>1, <1>2, <1>4 DEF TurnOK, Sent, Asked, Answered
  <2>3. CASE x # t
    <3>1. ~Busy(x)
      BY <2>3 DEF Busy, t
    <3>2. cli.at # "down"
      OBVIOUS
    <3> QED BY <2>1, <2>3, <3>1, <3>2, <1>0, <1>1, <1>2 DEF TurnOK, Sent, Asked, Answered
  <2> QED BY <2>2, <2>3
<1>6. CliOK' /\ AnswersOK' /\ QueueOK'
  BY <1>0, <1>1, AnswersKept, QueueKept DEF CliOK
<1> QED BY <1>3, <1>5, <1>6 DEF SessionInv

LEMMA CliReadsOK ==
  ASSUME SessionInv, CliReads, UNCHANGED <<calls, harnessVars>>
  PROVE  SessionInv'
<1> USE SessionAssumption
<1>0. /\ Typed /\ AdapterInv /\ CliOK /\ AnswersOK /\ QueueOK /\ (\A x \in Turns : TurnOK(x))
      /\ cli.at = "turn" /\ cli.turn \in Turns /\ cli.turn \in Requests
      /\ UNCHANGED <<calls, open, stdin, frames, q, rd, fired, drv>>
  BY DEF SessionInv, CliOK, harnessVars, CliReads
<1>1. CASE Emits(frame("delta", cli.turn)) /\ cli' = [cli EXCEPT !.seen = @ + 1] /\ UNCHANGED conn
  <2>1. /\ cli'.at = cli.at /\ cli'.turn = cli.turn /\ cli'.code = cli.code
        /\ cli' \in [at : {"idle", "turn", "stopping", "down"}, turn : 0..2, seen : Nat,
                     code : {None, 0, 1}]
    <3>1. /\ cli.at \in {"idle", "turn", "stopping", "down"} /\ cli.turn \in 0..2
          /\ cli.seen \in Nat /\ cli.code \in {None, 0, 1}
      BY <1>0 DEF Typed
    <3>2. cli' = [at |-> cli.at, turn |-> cli.turn, seen |-> cli.seen + 1, code |-> cli.code]
      BY <1>0, <1>1 DEF Typed
    <3> QED BY <3>1, <3>2
  <2>2. /\ pipe' \in Seq(Lines)
        /\ \A x \in Turns : /\ Has(pipe', result(x)) <=> Has(pipe, result(x))
                            /\ One(pipe, result(x)) => One(pipe', result(x))
    BY <1>0, <1>1, FramesTyped, Emitted
  <2>3. Typed'
    BY <1>0, <2>1, <2>2 DEF Typed
  <2>4. AdapterInv'
    BY <1>0, <1>1, AdapterKept
  <2>5. \A t \in Turns : TurnOK(t)'
    BY <1>0, <1>1, <2>1, <2>2 DEF TurnOK, Sent, Asked, Busy, Answered
  <2>6. CliOK' /\ AnswersOK' /\ QueueOK'
    BY <1>0, <2>1, AnswersKept, QueueKept DEF CliOK
  <2> QED BY <2>3, <2>4, <2>5, <2>6 DEF SessionInv
<1>2. CASE CliResult /\ conn' = [conn EXCEPT ![cli.turn].gone = TRUE]
  <2>1. AdapterInv' /\ \A r \in Requests : conn'[r].at = conn[r].at
    BY <1>0, <1>2, HangUpOne
  <2> QED BY <1>0, <1>2, <2>1, CliResultOK
<1> QED BY <1>1, <1>2 DEF CliReads

LEMMA CliInterruptedOK ==
  ASSUME SessionInv, CliInterrupted, UNCHANGED <<calls, harnessVars>>
  PROVE  SessionInv'
<1> USE SessionAssumption
<1>0. /\ Typed /\ AdapterInv /\ CliOK /\ AnswersOK /\ QueueOK /\ (\A x \in Turns : TurnOK(x))
      /\ cli.at = "turn" /\ cli.turn \in Turns /\ cli.turn \in Requests
      /\ cli' = [cli EXCEPT !.at = "stopping"] /\ Emits(frame("control", 0))
      /\ conn' = [conn EXCEPT ![cli.turn].gone = TRUE]
      /\ UNCHANGED <<calls, open, frames, q, rd, fired, drv>>
  BY DEF SessionInv, CliOK, harnessVars, CliInterrupted
<1>1. PICK i \in 1..Len(stdin) :
        /\ stdin[i] = interrupt
        /\ stdin' = SubSeq(stdin, 1, i - 1) \o SubSeq(stdin, i + 1, Len(stdin))
  <2>1. DOMAIN stdin = 1..Len(stdin)
    BY <1>0 DEF Typed
  <2> QED BY <2>1 DEF CliInterrupted
<1>2. ASSUME NEW t \in Turns
      PROVE  /\ stdin' \in Seq(Messages)
             /\ Has(stdin', user(t)) <=> Has(stdin, user(t))
             /\ One(stdin, user(t)) => One(stdin', user(t))
  <2>1. stdin \in Seq(Messages) /\ stdin[i] # user(t)
    BY <1>0, <1>1, FramesTyped DEF Typed
  <2> QED BY <2>1, <1>1, Removed
<1>3. /\ cli'.at = "stopping" /\ cli'.turn = cli.turn /\ cli'.code = cli.code
      /\ cli' \in [at : {"idle", "turn", "stopping", "down"}, turn : 0..2, seen : Nat,
                   code : {None, 0, 1}]
  BY <1>0 DEF Typed
<1>4. /\ pipe' \in Seq(Lines)
      /\ \A x \in Turns : /\ Has(pipe', result(x)) <=> Has(pipe, result(x))
                          /\ One(pipe, result(x)) => One(pipe', result(x))
  BY <1>0, FramesTyped, Emitted
<1>5. Typed'
  BY <1>0, <1>2, <1>3, <1>4 DEF Typed
<1>6. AdapterInv' /\ \A r \in Requests : conn'[r].at = conn[r].at
  BY <1>0, HangUpOne
<1>7. \A t \in Turns : TurnOK(t)'
  BY <1>0, <1>2, <1>3, <1>4, <1>6 DEF TurnOK, Sent, Asked, Busy, Answered
<1>8. CliOK' /\ AnswersOK' /\ QueueOK'
  BY <1>0, <1>3, AnswersKept, QueueKept DEF CliOK, None
<1> QED BY <1>5, <1>6, <1>7, <1>8 DEF SessionInv

LEMMA CliStopsOK ==
  ASSUME SessionInv, CliStops, UNCHANGED <<calls, harnessVars>>
  PROVE  SessionInv'
<1>1. AdapterInv /\ CliResult /\ UNCHANGED <<conn, calls, stdin>> /\ cli.at = "stopping"
  BY DEF SessionInv, CliStops
<1>2. AdapterInv'
  BY <1>1, AdapterKept
<1> QED BY <1>1, <1>2, CliResultOK

(* Ending, dying and being killed. *)
LEMMA DownOK ==
  ASSUME SessionInv, NEW code \in {0, 1}, cli.at # "down",
         cli' = [cli EXCEPT !.at = "down", !.code = code],
         AdapterInv', \A r \in Requests : conn'[r].at = conn[r].at,
         code = 0 => cli.at = "idle" /\ stdin = <<>>,
         UNCHANGED <<stdin, pipe, frames, drv>>
  PROVE  CliOK' /\ (\A t \in Turns : TurnOK(t)')
         /\ cli' \in [at : {"idle", "turn", "stopping", "down"}, turn : 0..2, seen : Nat,
                      code : {None, 0, 1}]
<1> USE SessionAssumption
<1>0. Typed /\ CliOK /\ \A x \in Turns : TurnOK(x)
  BY DEF SessionInv
<1>1. /\ cli'.at = "down" /\ cli'.turn = cli.turn /\ cli'.code = code
      /\ cli' \in [at : {"idle", "turn", "stopping", "down"}, turn : 0..2, seen : Nat,
                   code : {None, 0, 1}]
  <2>1. cli' = [at |-> "down", turn |-> cli.turn, seen |-> cli.seen, code |-> code]
    BY <1>0 DEF Typed
  <2>2. cli.turn \in 0..2 /\ cli.seen \in Nat
    BY <1>0 DEF Typed
  <2> QED BY <2>1, <2>2
<1>2. CliOK'
  BY <1>1 DEF CliOK
<1>3. ASSUME NEW t \in Turns
      PROVE  TurnOK(t)'
  <2>1. TurnOK(t) /\ conn'[t].at = conn[t].at /\ ~Busy(t)'
    BY <1>0, <1>1 DEF Busy
  <2>2. code = 0 => ~Has(stdin, user(t)) /\ ~Busy(t)
    BY NoneYet DEF Busy
  <2> QED BY <2>1, <2>2, <1>1 DEF TurnOK, Sent, Asked, Answered
<1> QED BY <1>1, <1>2, <1>3

LEMMA CliEndsOK ==
  ASSUME SessionInv, CliEnds \/ CliDies, UNCHANGED <<calls, harnessVars>>
  PROVE  SessionInv'
<1> USE SessionAssumption
<1>0. /\ Typed /\ AdapterInv /\ CliOK /\ AnswersOK /\ QueueOK /\ (\A x \in Turns : TurnOK(x))
      /\ UNCHANGED <<calls, open, stdin, pipe, frames, q, rd, fired, drv>>
      /\ cli.at # "down" /\ cli.code = None
  BY DEF SessionInv, CliOK, harnessVars, CliEnds, CliDies, Sent, Asked
<1>1. CASE CliEnds
  <2>1. AdapterInv' /\ \A r \in Requests : conn'[r].at = conn[r].at
    BY <1>0, <1>1, AdapterKept DEF CliEnds
  <2>2. CliOK' /\ (\A t \in Turns : TurnOK(t)')
         /\ cli' \in [at : {"idle", "turn", "stopping", "down"}, turn : 0..2, seen : Nat,
                      code : {None, 0, 1}]
    BY <1>0, <1>1, <2>1, DownOK DEF CliEnds
  <2> QED
    BY <1>0, <2>1, <2>2, AnswersKept, QueueKept DEF SessionInv, Typed, None
<1>2. CASE CliDies
  <2>1. AdapterInv' /\ \A r \in Requests : conn'[r].at = conn[r].at
    BY <1>0, <1>2, HangUpAll DEF CliDies
  <2>2. CliOK' /\ (\A t \in Turns : TurnOK(t)')
         /\ cli' \in [at : {"idle", "turn", "stopping", "down"}, turn : 0..2, seen : Nat,
                      code : {None, 0, 1}]
    BY <1>0, <1>2, <2>1, DownOK DEF CliDies
  <2> QED
    BY <1>0, <2>1, <2>2, AnswersKept, QueueKept DEF SessionInv, Typed, None
<1> QED BY <1>1, <1>2

-----------------------------------------------------------------------------
(* The reader thread. *)
LEMMA ReaderTakesOK ==
  ASSUME SessionInv, ReaderTakes, UNCHANGED <<conn, calls, stdin, open, cli, fired, drv>>
  PROVE  SessionInv'
<1> DEFINE f == Head(pipe)
<1>0. /\ Typed /\ AdapterInv /\ CliOK /\ AnswersOK /\ QueueOK /\ (\A x \in Turns : TurnOK(x))
      /\ pipe # <<>> /\ pipe' = Tail(pipe) /\ rd = "read" /\ q' = q
      /\ UNCHANGED <<conn, calls, stdin, open, cli, fired, drv>>
  BY DEF SessionInv, ReaderTakes
<1>1. /\ f \in Lines /\ pipe' \in Seq(Lines)
      /\ \A g : Has(pipe, g) <=> f = g \/ Has(pipe', g)
      /\ \A g : One(pipe, g) => One(pipe', g) /\ ~(f = g /\ Has(pipe', g))
  BY <1>0, HeadAndTail DEF Typed
<1>2. AdapterInv' /\ CliOK'
  BY <1>0, AdapterKept DEF CliOK
<1>3. CASE f.kind = "noise"
  <2>1. UNCHANGED <<frames, rd>>
    BY <1>3 DEF ReaderTakes
  <2>2. \A t \in Turns : TurnOK(t)'
    BY <1>0, <1>1, <1>3, <2>1, FramesTyped DEF TurnOK, Sent, Asked, Busy, Answered
  <2>3. AnswersOK' /\ QueueOK'
    BY <1>0, <2>1, AnswersKept, QueueKept
  <2>4. Typed'
    BY <1>0, <1>1, <2>1 DEF Typed
  <2> QED BY <1>2, <2>2, <2>3, <2>4 DEF SessionInv
<1> HIDE DEF f
<1>4. CASE f.kind # "noise"
  <2>1. frames' = Append(frames, f) /\ rd' = "put" /\ f \in Frames
    BY <1>1, <1>4, FramesTyped DEF ReaderTakes, f
  <2>2. /\ frames' \in Seq(Frames) /\ Len(frames') = Len(frames) + 1 /\ Len(frames) \in Nat
        /\ DOMAIN frames = 1..Len(frames) /\ DOMAIN frames' = 1..Len(frames')
        /\ \A i \in 1..Len(frames) : frames'[i] = frames[i]
    BY <1>0, <2>1 DEF Typed
  <2>3. \A g : /\ Has(frames', g) <=> Has(frames, g) \/ f = g
               /\ One(frames, g) /\ ~(Has(frames, g) /\ f = g) => One(frames', g)
    BY <1>0, <2>1, Appended DEF Typed
  <2>4. \A t \in Turns : TurnOK(t)'
    BY <1>0, <1>1, <2>3 DEF TurnOK, Sent, Asked, Busy, Answered
  <2>5. AnswersOK'
    <3>1. drv.answer[1] \in Nat /\ drv.answer[2] \in Nat /\ drv' = drv /\ cli' = cli
      BY <1>0 DEF Typed
    <3>2. 1..Len(frames) \subseteq 1..Len(frames')
      BY <2>2
    <3> QED BY <1>0, <2>2, <3>1, <3>2 DEF AnswersOK, result, frame
  <2>6. QueueOK'
    <3>1. frames' # <<>>
      BY <2>2
    <3>2. \A k \in DOMAIN q' : q'[k] \in DOMAIN frames'
      BY <1>0, <2>2 DEF QueueOK, NoAnswerMissed
    <3>3. ASSUME drv'.at = "get", NEW i \in DOMAIN frames', Matches(i)'
          PROVE  (\E k \in DOMAIN q' : q'[k] = i) \/ i = Len(frames')
      <4>1. CASE i = Len(frames')
        BY <4>1
      <4>2. CASE i # Len(frames')
        <5>1. i \in DOMAIN frames /\ Matches(i)
          BY <4>2, <2>2, <3>3, <1>0 DEF Matches
        <5> QED BY <5>1, <3>3, <1>0 DEF QueueOK, NoAnswerMissed
      <4> QED BY <4>1, <4>2
    <3> QED BY <2>1, <3>1, <3>2, <3>3 DEF QueueOK, NoAnswerMissed, Matches
  <2>7. Typed'
    BY <1>0, <1>1, <2>1, <2>2 DEF Typed
  <2> QED BY <1>2, <2>4, <2>5, <2>6, <2>7 DEF SessionInv
<1> QED BY <1>3, <1>4

LEMMA ReaderPutsOK ==
  ASSUME SessionInv, ReaderPuts \/ ReaderEnds,
         UNCHANGED <<conn, calls, stdin, open, cli, fired, drv>>
  PROVE  SessionInv'
<1>0. /\ Typed /\ AdapterInv /\ CliOK /\ AnswersOK /\ QueueOK /\ (\A x \in Turns : TurnOK(x))
      /\ UNCHANGED <<conn, calls, stdin, open, cli, fired, drv, pipe, frames>>
  BY DEF SessionInv, ReaderPuts, ReaderEnds
<1>1. AdapterInv' /\ CliOK' /\ AnswersOK' /\ \A t \in Turns : TurnOK(t)'
  <2>1. AdapterInv' /\ AnswersOK'
    BY <1>0, AdapterKept, AnswersKept
  <2>2. CliOK' /\ \A t \in Turns : TurnOK(t)'
    BY <1>0 DEF CliOK, TurnOK, Sent, Asked, Busy, Answered
  <2> QED BY <2>1, <2>2
<1>2. CASE ReaderEnds
  <2>1. rd' = "end" /\ q' = q /\ rd = "read"
    BY <1>2 DEF ReaderEnds
  <2>2. Typed' /\ QueueOK'
    BY <1>0, <2>1 DEF Typed, QueueOK, NoAnswerMissed, Matches
  <2> QED BY <1>1, <2>2 DEF SessionInv
<1>3. CASE ReaderPuts
  <2>1. rd = "put" /\ q' = Append(q, Len(frames)) /\ rd' \in {"dead", "show", "read"} /\ frames # <<>>
    BY <1>0, <1>3 DEF ReaderPuts, QueueOK
  <2>2. /\ Len(frames) \in Nat /\ DOMAIN frames = 1..Len(frames) /\ Len(frames) \in DOMAIN frames
        /\ q' \in Seq(Nat) /\ DOMAIN q' = DOMAIN q \cup {Len(q) + 1}
        /\ q'[Len(q) + 1] = Len(frames) /\ \A k \in DOMAIN q : q'[k] = q[k]
    BY <1>0, <2>1 DEF Typed
  <2>3. Typed'
    BY <1>0, <2>1, <2>2 DEF Typed
  <2>4. \A k \in DOMAIN q' : q'[k] \in DOMAIN frames'
    BY <1>0, <2>2 DEF QueueOK, NoAnswerMissed
  <2>5. ASSUME drv'.at = "get", NEW i \in DOMAIN frames', Matches(i)'
        PROVE  \E k \in DOMAIN q' : q'[k] = i
    <3>1. i \in DOMAIN frames /\ Matches(i) /\ drv.at = "get"
      BY <2>5, <1>0 DEF Matches
    <3>2. (\E k \in DOMAIN q : q[k] = i) \/ i = Len(frames)
      BY <3>1, <1>0 DEF QueueOK, NoAnswerMissed
    <3> QED BY <3>2, <2>2
  <2>6. QueueOK'
    BY <1>0, <2>1, <2>4, <2>5 DEF QueueOK, NoAnswerMissed, Matches
  <2> QED BY <1>1, <2>3, <2>6 DEF SessionInv
<1> QED BY <1>2, <1>3

LEMMA CountTyped ==
  ASSUME Typed, NEW k
  PROVE  Count(k) \in Nat
<1>1. IsFiniteSet(1..Len(frames))
  BY FS_Interval DEF Typed
<1>2. {i \in DOMAIN frames : frames[i].kind = k} \subseteq 1..Len(frames)
  BY DEF Typed
<1> QED
  BY <1>1, <1>2, FS_Subset, FS_CardinalityType DEF Count

LEMMA OnFrameOK ==
  ASSUME SessionInv, OnFrame, UNCHANGED <<conn, calls, open, cli, pipe, frames, q, drv>>
  PROVE  SessionInv'
<1>0. /\ Typed /\ AdapterInv /\ CliOK /\ AnswersOK /\ QueueOK /\ (\A x \in Turns : TurnOK(x))
      /\ UNCHANGED <<conn, calls, open, cli, pipe, frames, q, drv>>
      /\ rd = "show" /\ fired' \in Nat /\ rd' \in {"read", "dead"}
  BY CountTyped DEF SessionInv, OnFrame
<1>1. AdapterInv' /\ AnswersOK'
  BY <1>0, AdapterKept, AnswersKept
<1>2. QueueOK'
  BY <1>0 DEF QueueOK, NoAnswerMissed, Matches
<1>3. CASE stdin' = stdin
  <2>1. Typed' /\ CliOK' /\ \A t \in Turns : TurnOK(t)'
    BY <1>0, <1>3 DEF Typed, CliOK, TurnOK, Sent, Asked, Busy, Answered
  <2> QED BY <1>1, <1>2, <2>1 DEF SessionInv
<1>4. CASE stdin' = Append(stdin, interrupt) /\ cli.at # "down"
  <2>1. stdin' \in Seq(Messages)
    BY <1>0, <1>4, FramesTyped DEF Typed
  <2>2. \A t \in Turns : /\ Has(stdin', user(t)) <=> Has(stdin, user(t))
                         /\ One(stdin, user(t)) => One(stdin', user(t))
    BY <1>0, <1>4, FramesTyped, Appended DEF Typed
  <2>3. \A t \in Turns : TurnOK(t)'
    BY <1>0, <2>2 DEF TurnOK, Sent, Asked, Busy, Answered
  <2>4. Typed' /\ CliOK'
    BY <1>0, <1>4, <2>1 DEF Typed, CliOK, None
  <2> QED BY <1>1, <1>2, <2>3, <2>4 DEF SessionInv
<1> QED BY <1>3, <1>4 DEF OnFrame

-----------------------------------------------------------------------------
(* The driver. *)
DriverType == [at : {"ask", "scan", "get", "close", "reap", "done", "killed", "raised"},
               turn : Turns, n : Nat, answer : Nat \X Nat, clean : BOOLEAN]

LEMMA Answer ==
  ASSUME NEW a \in Nat \X Nat, NEW i \in Nat
  PROVE  /\ [a EXCEPT ![1] = i] = <<i, a[2]>> /\ [a EXCEPT ![2] = i] = <<a[1], i>>
         /\ a[1] \in Nat /\ a[2] \in Nat
<1>1. PICK x \in Nat, y \in Nat : a = <<x, y>>
  OBVIOUS
<1>2. a[1] = x /\ a[2] = y
  BY <1>1
<1>3. [<<x, y>> EXCEPT ![1] = i] = <<i, y>> /\ [<<x, y>> EXCEPT ![2] = i] = <<x, i>>
  OBVIOUS
<1> QED
  BY <1>1, <1>2, <1>3

(* What a step of the driver's makes of its record. *)
Fields(at, t, n, a, b) == [at |-> at, turn |-> t, n |-> n, answer |-> a, clean |-> b]

LEMMA DriverFields ==
  ASSUME NEW d \in DriverType
  PROVE  /\ d = Fields(d.at, d.turn, d.n, d.answer, d.clean)
         /\ d.turn \in Turns /\ d.n \in Nat /\ d.answer \in Nat \X Nat /\ d.clean \in BOOLEAN
         /\ d.answer[1] \in Nat /\ d.answer[2] \in Nat
  BY Answer DEF DriverType, Fields

LEMMA MovesOn ==
  ASSUME NEW d \in DriverType, NEW at
  PROVE  [d EXCEPT !.at = at] = Fields(at, d.turn, d.n, d.answer, d.clean)
  BY DriverFields DEF Fields

LEMMA MovesAsking ==
  ASSUME NEW d \in DriverType, NEW at, NEW k
  PROVE  [d EXCEPT !.at = at, !.n = k] = Fields(at, d.turn, k, d.answer, d.clean)
<1>1. [Fields(at, d.turn, d.n, d.answer, d.clean) EXCEPT !.n = k] = Fields(at, d.turn, k, d.answer, d.clean)
  BY DEF Fields
<1> QED BY <1>1, MovesOn, Zenon

LEMMA MovesEnding ==
  ASSUME NEW d \in DriverType, NEW at, NEW b
  PROVE  [d EXCEPT !.at = at, !.clean = b] = Fields(at, d.turn, d.n, d.answer, b)
<1>1. [Fields(at, d.turn, d.n, d.answer, d.clean) EXCEPT !.clean = b] = Fields(at, d.turn, d.n, d.answer, b)
  BY DEF Fields
<1> QED BY <1>1, MovesOn, Zenon

LEMMA MovesAnswered ==
  ASSUME NEW d \in DriverType, NEW k \in Nat
  PROVE  /\ [d EXCEPT !.at = "ask", !.turn = 2, !.answer[1] = k]
              = Fields("ask", 2, d.n, <<k, d.answer[2]>>, d.clean)
         /\ [d EXCEPT !.at = "close", !.answer[2] = k]
              = Fields("close", d.turn, d.n, <<d.answer[1], k>>, d.clean)
<1>1. ASSUME NEW at
      PROVE  [Fields(at, d.turn, d.n, d.answer, d.clean) EXCEPT !.turn = 2]
               = Fields(at, 2, d.n, d.answer, d.clean)
  BY DEF Fields
<1>2. ASSUME NEW at
      PROVE  [Fields(at, 2, d.n, d.answer, d.clean) EXCEPT !.answer[1] = k]
               = Fields(at, 2, d.n, [d.answer EXCEPT ![1] = k], d.clean)
  BY DEF Fields
<1>3. ASSUME NEW at
      PROVE  [Fields(at, d.turn, d.n, d.answer, d.clean) EXCEPT !.answer[2] = k]
               = Fields(at, d.turn, d.n, [d.answer EXCEPT ![2] = k], d.clean)
  BY DEF Fields
<1>4. /\ [d.answer EXCEPT ![1] = k] = <<k, d.answer[2]>>
      /\ [d.answer EXCEPT ![2] = k] = <<d.answer[1], k>>
  BY Answer, DriverFields
<1>5. [d EXCEPT !.at = "ask", !.turn = 2, !.answer[1] = k]
        = Fields("ask", 2, d.n, <<k, d.answer[2]>>, d.clean)
  <2>1. [d EXCEPT !.at = "ask", !.turn = 2] = Fields("ask", 2, d.n, d.answer, d.clean)
    BY <1>1, MovesOn, Zenon
  <2> QED
    BY <2>1, <1>2, <1>4, Zenon
<1>6. [d EXCEPT !.at = "close", !.answer[2] = k]
        = Fields("close", d.turn, d.n, <<d.answer[1], k>>, d.clean)
  BY <1>3, <1>4, MovesOn, Zenon
<1> QED BY <1>5, <1>6

LEMMA DriverTyped ==
  ASSUME Typed
  PROVE  drv \in DriverType
  BY DEF Typed, DriverType

(* The driver raises: what was asked stays asked. *)
LEMMA RaisedOK ==
  ASSUME SessionInv, drv.at \in {"ask", "scan", "get", "close"},
         drv' = [drv EXCEPT !.at = "raised"],
         q' \in Seq(Nat), \A k \in DOMAIN q' : q'[k] \in DOMAIN frames,
         UNCHANGED <<conn, calls, pipe, frames, rd, fired, stdin, open, cli>>
  PROVE  SessionInv'
<1>0. /\ Typed /\ AdapterInv /\ CliOK /\ AnswersOK /\ QueueOK /\ (\A x \in Turns : TurnOK(x))
      /\ drv \in DriverType
  BY DriverTyped DEF SessionInv
<1>1. drv' = Fields("raised", drv.turn, drv.n, drv.answer, drv.clean)
  BY <1>0, MovesOn
<1>2. /\ drv'.at = "raised" /\ drv'.turn = drv.turn /\ drv'.n = drv.n
      /\ drv'.answer = drv.answer /\ drv'.clean = drv.clean /\ drv' \in DriverType
  BY <1>0, <1>1, DriverFields DEF Fields, DriverType
<1>3. AdapterInv' /\ Typed' /\ CliOK'
  BY <1>0, <1>2, AdapterKept DEF Typed, DriverType, CliOK
<1>4. \A t \in Turns : TurnOK(t)'
  BY <1>0, <1>2 DEF TurnOK, Sent, Asked, Busy, Answered
<1>5. AnswersOK' /\ QueueOK'
  BY <1>0, <1>2 DEF AnswersOK, QueueOK, NoAnswerMissed, result, frame
<1> QED BY <1>3, <1>4, <1>5 DEF SessionInv

LEMMA AskOK ==
  ASSUME SessionInv, Ask, UNCHANGED <<calls, pipe, frames, rd, fired>>
  PROVE  SessionInv'
<1> USE SessionAssumption
<1>0. /\ Typed /\ AdapterInv /\ CliOK /\ AnswersOK /\ QueueOK /\ (\A x \in Turns : TurnOK(x))
      /\ UNCHANGED <<conn, calls, pipe, frames, rd, fired, q, open, cli>> /\ drv.at = "ask"
      /\ drv \in DriverType /\ Len(frames) \in Nat
  BY DriverTyped DEF SessionInv, Ask, Typed
<1>1. /\ drv.turn \in Turns /\ drv.n \in Nat /\ drv.answer \in Nat \X Nat /\ drv.clean \in BOOLEAN
      /\ drv.answer[1] \in Nat
  BY <1>0, DriverFields
<1>2. AdapterInv'
  BY <1>0, AdapterKept
<1>3. CASE drv' = [drv EXCEPT !.at = "raised"] /\ UNCHANGED stdin
  BY <1>0, <1>3, RaisedOK DEF Typed, QueueOK, NoAnswerMissed
<1>4. CASE /\ cli.at # "down" /\ drv' = [drv EXCEPT !.at = "scan", !.n = Len(frames)]
           /\ stdin' = Append(stdin, user(drv.turn))
  <2>1. stdin' = Append(stdin, user(drv.turn)) /\ drv' = [drv EXCEPT !.at = "scan", !.n = Len(frames)]
    BY <1>4
  <2>2. drv' = Fields("scan", drv.turn, Len(frames), drv.answer, drv.clean)
    BY <2>1, <1>0, MovesAsking
  <2>3. /\ drv'.at = "scan" /\ drv'.turn = drv.turn /\ drv'.n = Len(frames)
        /\ drv'.answer = drv.answer /\ drv'.clean = drv.clean
    BY <2>2 DEF Fields
  <2>4. /\ stdin' \in Seq(Messages)
        /\ \A t \in Turns : /\ Has(stdin', user(t)) <=> Has(stdin, user(t)) \/ t = drv.turn
                            /\ One(stdin, user(t)) /\ ~(Has(stdin, user(t)) /\ t = drv.turn)
                                 => One(stdin', user(t))
    <3>1. stdin \in Seq(Messages) /\ user(drv.turn) \in Messages
      BY <1>0, <1>1, FramesTyped DEF Typed
    <3> QED BY <2>1, <3>1, <1>1, FramesTyped, Appended
  <2>5. Typed'
    <3>1. drv' \in DriverType
      BY <1>0, <1>1, <2>2 DEF Fields, DriverType
    <3> QED BY <3>1, <1>0, <2>4 DEF Typed, DriverType
  <2>6. ASSUME NEW t \in Turns
        PROVE  TurnOK(t)'
    <3>1. TurnOK(t) /\ TurnOK(drv.turn) /\ ~Asked(drv.turn) /\ ~Sent(drv.turn)
      BY <1>0, <1>1 DEF Asked, Sent, Turns
    <3>2. CASE t = drv.turn
      BY <3>1, <3>2, <1>0, <1>4, <2>3, <2>4 DEF TurnOK, Sent, Asked, Busy, Answered
    <3>3. CASE t # drv.turn
      BY <3>1, <3>3, <1>0, <1>4, <2>3, <2>4 DEF TurnOK, Sent, Asked, Busy, Answered
    <3> QED BY <3>2, <3>3
  <2>7. CliOK' /\ QueueOK'
    BY <1>0, <1>4, <2>3 DEF CliOK, None, QueueOK, NoAnswerMissed
  <2>8. AnswersOK'
    BY <1>0, <1>1, <2>3 DEF AnswersOK, result, frame
  <2> QED BY <1>2, <2>5, <2>6, <2>7, <2>8 DEF SessionInv
<1> QED BY <1>0, <1>3, <1>4 DEF Ask

(* A wait that ends: with a frame that matches, or with none.              *)
LEMMA WaitedOK ==
  ASSUME SessionInv, drv.at \in {"scan", "get"}, NEW i \in Nat, i = 0 \/ Matches(i),
         drv' = Waited(i), q' \in Seq(Nat), \A k \in DOMAIN q' : q'[k] \in DOMAIN frames,
         UNCHANGED <<conn, calls, pipe, frames, rd, fired, stdin, open, cli>>
  PROVE  SessionInv'
<1> USE SessionAssumption
<1>0. /\ Typed /\ AdapterInv /\ CliOK /\ AnswersOK /\ QueueOK /\ (\A x \in Turns : TurnOK(x))
      /\ drv \in DriverType /\ DOMAIN frames = 1..Len(frames) /\ Len(frames) \in Nat
  BY DriverTyped DEF SessionInv, Typed
<1>1. /\ drv.turn \in Turns /\ drv.n \in Nat /\ drv.answer \in Nat \X Nat /\ drv.clean \in BOOLEAN
      /\ drv.answer[1] \in Nat /\ drv.answer[2] \in Nat
  BY <1>0, DriverFields
<1>2. AdapterInv' /\ CliOK' /\ drv.answer[2] = 0 /\ ~drv.clean /\ frames \in Seq(Frames)
  BY <1>0, AdapterKept DEF CliOK, AnswersOK, Typed
<1>3. CASE drv.turn = 1
  <2>1. drv' = Fields("ask", 2, drv.n, <<i, drv.answer[2]>>, drv.clean)
    <3>1. drv' = [drv EXCEPT !.at = "ask", !.turn = 2, !.answer[1] = i]
      BY <1>3 DEF Waited
    <3> QED BY <3>1, <1>0, MovesAnswered
  <2>2. /\ drv'.at = "ask" /\ drv'.turn = 2 /\ drv'.n = drv.n /\ drv'.answer[1] = i
        /\ drv'.answer[2] = 0 /\ ~drv'.clean /\ drv' \in DriverType
    BY <2>1, <1>1, <1>2 DEF Fields, DriverType, Turns
  <2>3. Typed'
    BY <1>0, <2>2 DEF Typed, DriverType
  <2>4. \A t \in Turns : Asked(t)' = Asked(t) /\ Sent(t)' = Sent(t)
    BY <1>3, <2>2 DEF Asked, Sent, Turns
  <2>5. \A t \in Turns : TurnOK(t)'
    BY <1>0, <1>2, <2>2, <2>4 DEF TurnOK, Busy, Answered
  <2>6. QueueOK'
    BY <1>0, <2>2 DEF QueueOK, NoAnswerMissed
  <2>7. i # 0 => i \in 1..Len(frames) /\ frames[i] = result(1)
    <3> SUFFICES ASSUME i # 0 PROVE i \in 1..Len(frames) /\ frames[i] = result(1)
      OBVIOUS
    <3>1. i \in 1..Len(frames) /\ frames[i].kind = "result" /\ frames[i] \in Frames
      BY <1>0, <1>2 DEF Matches
    <3>2. PICK t \in Turns : frames[i] = result(t)
      BY <3>1, FramesTyped
    <3>3. TurnOK(t) /\ Has(frames, result(t))
      BY <1>0, <3>1, <3>2 DEF Has
    <3>4. t # 2
      BY <3>3, <1>3 DEF TurnOK, Answered, Asked, Sent
    <3> QED BY <3>1, <3>2, <3>4 DEF Turns
  <2>8. AnswersOK'
    BY <2>2, <2>7 DEF AnswersOK, result, frame
  <2> QED BY <1>2, <2>3, <2>5, <2>6, <2>8 DEF SessionInv
<1>4. CASE drv.turn = 2
  <2>1. drv' = Fields("close", drv.turn, drv.n, <<drv.answer[1], i>>, drv.clean)
    <3>1. drv' = [drv EXCEPT !.at = "close", !.answer[2] = i]
      BY <1>4 DEF Waited
    <3> QED BY <3>1, <1>0, MovesAnswered
  <2>2. /\ drv'.at = "close" /\ drv'.turn = 2 /\ drv'.n = drv.n /\ drv'.answer[1] = drv.answer[1]
        /\ drv'.answer[2] = i /\ ~drv'.clean /\ drv' \in DriverType
    BY <2>1, <1>1, <1>2, <1>4 DEF Fields, DriverType, Turns
  <2>3. Typed'
    BY <1>0, <2>2 DEF Typed, DriverType
  <2>4. \A t \in Turns : Asked(t)' = Asked(t) /\ Sent(t)' = Sent(t)
    BY <1>4, <2>2 DEF Asked, Sent, Turns
  <2>5. \A t \in Turns : TurnOK(t)'
    BY <1>0, <1>2, <2>2, <2>4 DEF TurnOK, Busy, Answered
  <2>6. QueueOK'
    BY <1>0, <2>2 DEF QueueOK, NoAnswerMissed
  <2>7. i # 0 => i \in 1..Len(frames) /\ i > drv.n + 1 /\ frames[i].kind = "result"
    BY <1>0, <1>4 DEF Matches
  <2>8. AnswersOK'
    BY <1>0, <1>4, <2>2, <2>7 DEF AnswersOK, result, frame
  <2> QED BY <1>2, <2>3, <2>5, <2>6, <2>8 DEF SessionInv
<1> QED BY <1>1, <1>3, <1>4 DEF Turns

LEMMA ScanOK ==
  ASSUME SessionInv, Scan, UNCHANGED <<calls, pipe, frames, rd, fired>>
  PROVE  SessionInv'
<1>0. /\ Typed /\ AdapterInv /\ CliOK /\ AnswersOK /\ QueueOK /\ (\A x \in Turns : TurnOK(x))
      /\ UNCHANGED <<conn, calls, pipe, frames, rd, fired, q, open, cli, stdin>> /\ drv.at = "scan"
      /\ drv \in DriverType
  BY DriverTyped DEF SessionInv, Scan, Typed
<1>1. CASE /\ {i \in DOMAIN frames : Matches(i)} \cup Values = {}
           /\ drv' = [drv EXCEPT !.at = "get"]
  <2>1. drv' = Fields("get", drv.turn, drv.n, drv.answer, drv.clean)
    BY <1>0, <1>1, MovesOn
  <2>2. /\ drv'.at = "get" /\ drv'.turn = drv.turn /\ drv'.n = drv.n
        /\ drv'.answer = drv.answer /\ drv'.clean = drv.clean /\ drv' \in DriverType
    BY <2>1, <1>0, DriverFields DEF Fields, DriverType
  <2>3. AdapterInv' /\ Typed'
    BY <1>0, <2>2, AdapterKept DEF Typed, DriverType
  <2>4. (\A t \in Turns : TurnOK(t)') /\ CliOK'
    BY <1>0, <2>2 DEF TurnOK, Sent, Asked, Busy, Answered, CliOK
  <2>5. AnswersOK'
    BY <1>0, <2>2 DEF AnswersOK, result, frame
  <2>6. QueueOK'
    BY <1>0, <1>1, <2>2 DEF QueueOK, NoAnswerMissed, Matches
  <2> QED BY <2>3, <2>4, <2>5, <2>6 DEF SessionInv
<1>2. CASE \E i \in DOMAIN frames : (Matches(i) \/ i \in Values) /\ Meets(i)
  <2>1. PICK i \in DOMAIN frames : (Matches(i) \/ i \in Values) /\ Meets(i)
    BY <1>2
  <2>2. i \in Nat /\ q' \in Seq(Nat) /\ \A k \in DOMAIN q' : q'[k] \in DOMAIN frames
    BY <1>0 DEF Typed, QueueOK, NoAnswerMissed
  <2>3. CASE i \in Values
    BY <2>1, <2>2, <2>3, <1>0, RaisedOK DEF Meets
  <2>4. CASE i \notin Values
    BY <2>1, <2>2, <2>4, <1>0, WaitedOK DEF Meets
  <2> QED BY <2>3, <2>4
<1>3. \A i \in Values : i \in DOMAIN frames
  BY DEF Values
<1> QED BY <1>1, <1>2, <1>3 DEF Scan

LEMMA GetOK ==
  ASSUME SessionInv, Get \/ WaitTimesOut, UNCHANGED <<calls, pipe, frames, rd, fired>>
  PROVE  SessionInv'
<1>0. /\ Typed /\ AdapterInv /\ CliOK /\ AnswersOK /\ QueueOK /\ (\A x \in Turns : TurnOK(x))
      /\ UNCHANGED <<conn, calls, pipe, frames, rd, fired, open, cli, stdin>> /\ drv.at = "get"
      /\ \A k \in DOMAIN q : q[k] \in DOMAIN frames
  BY DEF SessionInv, Get, WaitTimesOut, QueueOK, NoAnswerMissed
<1>1. CASE WaitTimesOut
  <2>1. drv' = Waited(0) /\ q' = q /\ 0 \in Nat
    BY <1>1 DEF WaitTimesOut
  <2>2. q' \in Seq(Nat)
    BY <1>0, <2>1 DEF Typed
  <2> QED BY <1>0, <2>1, <2>2, WaitedOK
<1>2. CASE Get
  <2>1. q # <<>> /\ q' = Tail(q)
    BY <1>2 DEF Get
  <2>2. /\ q' \in Seq(Nat) /\ Head(q) \in Nat /\ Head(q) = q[1] /\ Len(q) \in Nat \ {0}
        /\ DOMAIN q = 1..Len(q) /\ DOMAIN q' = 1..(Len(q) - 1)
        /\ \A k \in 1..(Len(q) - 1) : q'[k] = q[k + 1]
    BY <1>0, <2>1 DEF Typed
  <2>3. \A k \in DOMAIN q' : q'[k] \in DOMAIN frames
    <3> TAKE k \in DOMAIN q'
    <3>1. k + 1 \in DOMAIN q /\ q'[k] = q[k + 1]
      BY <2>2
    <3> QED BY <3>1, <1>0
  <2>4. CASE (Matches(Head(q)) \/ Head(q) \in Values) /\ Meets(Head(q))
    <3>1. CASE Head(q) \in Values
      BY <1>0, <2>2, <2>3, <2>4, <3>1, RaisedOK DEF Meets
    <3>2. CASE Head(q) \notin Values
      BY <1>0, <2>2, <2>3, <2>4, <3>2, WaitedOK DEF Meets
    <3> QED BY <3>1, <3>2
  <2>5. CASE ~Matches(Head(q)) /\ drv' = drv
    <3>1. AdapterInv' /\ CliOK' /\ AnswersOK'
      BY <1>0, <2>5, AdapterKept, AnswersKept DEF CliOK
    <3>2. (\A t \in Turns : TurnOK(t)')
      BY <1>0, <2>5 DEF TurnOK, Sent, Asked, Busy, Answered
    <3>3. Typed'
      BY <1>0, <2>2, <2>5 DEF Typed
    <3>4. ASSUME NEW i \in DOMAIN frames, Matches(i)
          PROVE  (\E k \in DOMAIN q' : q'[k] = i) \/ (rd = "put" /\ i = Len(frames))
      <4>1. CASE rd = "put" /\ i = Len(frames)
        BY <4>1
      <4>2. CASE \E k \in DOMAIN q : q[k] = i
        <5>1. PICK k \in DOMAIN q : q[k] = i
          BY <4>2
        <5>2. k # 1
          BY <5>1, <3>4, <2>2, <2>5
        <5>3. k - 1 \in DOMAIN q' /\ q'[k - 1] = i
          BY <5>1, <5>2, <2>2
        <5> QED BY <5>3
      <4> QED BY <4>1, <4>2, <3>4, <1>0 DEF QueueOK, NoAnswerMissed
    <3>5. QueueOK'
      BY <1>0, <2>3, <2>5, <3>4 DEF QueueOK, NoAnswerMissed, Matches
    <3> QED BY <3>1, <3>2, <3>3, <3>5 DEF SessionInv
  <2> QED BY <1>2, <2>4, <2>5 DEF Get
<1> QED BY <1>1, <1>2

LEMMA TerminateOK ==
  ASSUME SessionInv, CloseStdin \/ Reap \/ Kill, UNCHANGED <<calls, pipe, frames, rd, fired>>
  PROVE  SessionInv'
<1> USE SessionAssumption
<1>0. /\ Typed /\ AdapterInv /\ CliOK /\ AnswersOK /\ QueueOK /\ (\A x \in Turns : TurnOK(x))
      /\ UNCHANGED <<calls, pipe, frames, rd, fired, q, stdin>> /\ drv.at \in {"close", "reap"}
      /\ drv \in DriverType /\ drv.turn = 2
  BY DriverTyped DEF SessionInv, CloseStdin, Reap, Kill, AnswersOK
<1>1. ASSUME NEW at \in {"reap", "done", "killed"}, NEW b \in BOOLEAN, b => at = "done" /\ cli'.code = 0,
             drv' = Fields(at, drv.turn, drv.n, drv.answer, b), open' \in BOOLEAN
      PROVE  /\ drv' \in DriverType /\ AnswersOK' /\ QueueOK'
             /\ drv'.at = at
             /\ \A t \in Turns : Asked(t)' = Asked(t) /\ Sent(t)' = Sent(t)
  <2>1. /\ drv'.at = at /\ drv'.turn = 2 /\ drv'.n = drv.n
        /\ drv'.answer = drv.answer /\ drv'.clean = b /\ drv' \in DriverType
    BY <1>1, <1>0, DriverFields DEF Fields, DriverType
  <2>2. AnswersOK'
    BY <1>0, <1>1, <2>1 DEF AnswersOK, result, frame
  <2>3. QueueOK'
    BY <1>0, <1>1, <2>1 DEF QueueOK, NoAnswerMissed
  <2>4. \A t \in Turns : Asked(t)' = Asked(t) /\ Sent(t)' = Sent(t)
    BY <1>0, <1>1, <2>1 DEF Asked, Sent, Turns
  <2> QED BY <2>1, <2>2, <2>3, <2>4
<1>2. CASE CloseStdin /\ drv' = [drv EXCEPT !.at = "raised"] /\ UNCHANGED open
  BY <1>0, <1>2, RaisedOK DEF CloseStdin, Typed, QueueOK, NoAnswerMissed
<1>3. CASE \/ CloseStdin /\ drv' = [drv EXCEPT !.at = "reap"] /\ open' = FALSE
           \/ Reap \/ Kill
  <2>1. /\ UNCHANGED <<cli, conn>> /\ open' \in BOOLEAN
        /\ \E at \in {"reap", "done", "killed"}, b \in BOOLEAN :
             /\ b => at = "done" /\ cli'.code = 0
             /\ drv' = Fields(at, drv.turn, drv.n, drv.answer, b)
    <3>1. CASE CloseStdin /\ drv' = [drv EXCEPT !.at = "reap"] /\ open' = FALSE
      <4>1. drv' = Fields("reap", drv.turn, drv.n, drv.answer, drv.clean) /\ drv.at = "close"
        BY <3>1, <1>0, MovesOn DEF CloseStdin
      <4>2. drv.clean \in BOOLEAN /\ ~drv.clean
        BY <1>0, <4>1, DriverFields DEF AnswersOK
      <4> QED BY <3>1, <4>1, <4>2 DEF CloseStdin
    <3>2. CASE Reap
      <4>1. drv' = Fields("done", drv.turn, drv.n, drv.answer, cli.code = 0)
        <5> DEFINE b == (cli.code = 0)
        <5>1. drv' = [drv EXCEPT !.at = "done", !.clean = b]
          BY <3>2 DEF Reap
        <5> HIDE DEF b
        <5>2. drv' = Fields("done", drv.turn, drv.n, drv.answer, b)
          BY <5>1, <1>0, MovesEnding
        <5> QED BY <5>2 DEF b
      <4> QED BY <3>2, <4>1, <1>0 DEF Reap, Typed
    <3>3. CASE Kill
      <4>1. drv' = Fields("killed", drv.turn, drv.n, drv.answer, drv.clean) /\ drv.at = "reap"
        BY <3>3, <1>0, MovesOn DEF Kill
      <4>2. drv.clean \in BOOLEAN /\ ~drv.clean
        BY <1>0, <4>1, DriverFields DEF AnswersOK
      <4> QED BY <3>3, <4>1, <4>2, <1>0 DEF Kill, Typed
    <3> QED BY <1>3, <3>1, <3>2, <3>3
  <2>2. /\ drv' \in DriverType /\ AnswersOK' /\ QueueOK'
        /\ drv'.at \in {"reap", "done", "killed"}
        /\ \A t \in Turns : Asked(t)' = Asked(t) /\ Sent(t)' = Sent(t)
    BY <2>1, <1>1
  <2>3. AdapterInv' /\ CliOK' /\ Typed'
    BY <1>0, <2>1, <2>2, AdapterKept DEF CliOK, Typed, DriverType
  <2>4. (\A t \in Turns : TurnOK(t)')
    BY <1>0, <2>1, <2>2 DEF TurnOK, Busy, Answered
  <2> QED BY <2>2, <2>3, <2>4 DEF SessionInv
<1> QED BY <1>2, <1>3 DEF CloseStdin

-----------------------------------------------------------------------------
LEMMA AdapterStepOK ==
  ASSUME SessionInv, AdapterStep
  PROVE  SessionInv'
<1> USE SessionAssumption
<1>0. /\ Typed /\ AdapterInv /\ CliOK /\ AnswersOK /\ QueueOK /\ (\A x \in Turns : TurnOK(x))
      /\ UNCHANGED <<stdin, cli, pipe, open, frames, q, rd, fired, drv>>
  BY DEF SessionInv, AdapterStep, harnessVars
<1>1. PICK r \in Requests : Handler(r) \/ Upstream(r)
  BY DEF AdapterStep
<1>2. /\ AdapterInv' /\ conn[r].at # "idle" /\ conn'[r].at # "idle"
      /\ \A x \in Requests : x # r => conn'[x] = conn[x]
  BY <1>0, <1>1, AdapterMoves
<1>3. \A t \in Turns : (conn'[t].at = "idle") <=> (conn[t].at = "idle")
  BY <1>2
<1>4. \A t \in Turns : TurnOK(t)'
  BY <1>0, <1>3 DEF TurnOK, Sent, Asked, Busy, Answered
<1>5. Typed' /\ CliOK' /\ AnswersOK' /\ QueueOK'
  BY <1>0, AnswersKept, QueueKept DEF Typed, CliOK
<1> QED BY <1>2, <1>4, <1>5 DEF SessionInv

LEMMA SessionInit == Init => SessionInv
<1> USE SessionAssumption
<1> SUFFICES ASSUME Init PROVE SessionInv
  OBVIOUS
<1>1. Typed
  BY FramesTyped DEF Init, Typed, Lines, frame, None, Turns
<1>2. AdapterInv
  <2>1. conn \in [Requests -> ConnType] /\ calls \in Seq(Requests \X Nat)
    BY DEF Init, AdapterInit, ConnType
  <2>2. (\A r \in Requests : ConnOK(r)) /\ CallsOK
    BY DEF Init, AdapterInit, ConnOK, CallsOK
  <2> QED BY <2>1, <2>2, AdapterTyped DEF AdapterInv
<1>3. ASSUME NEW t \in Turns
      PROVE  TurnOK(t)
  <2>1. stdin = <<>> /\ frames = <<>> /\ cli.at = "idle" /\ drv.at = "ask" /\ drv.turn = 1
    BY DEF Init
  <2>2. conn[t].at = "idle" /\ ~Asked(t)
    BY <2>1 DEF Init, AdapterInit, Asked, Turns
  <2>3. ~Has(pipe, result(t)) /\ One(pipe, result(t))
    BY DEF Init, Has, One, result, frame
  <2> QED BY <2>1, <2>2, <2>3, NoneYet DEF TurnOK, Busy, Answered
<1>4. CliOK /\ AnswersOK /\ QueueOK
  BY DEF Init, CliOK, AnswersOK, QueueOK, NoAnswerMissed, None
<1> QED BY <1>1, <1>2, <1>3, <1>4 DEF SessionInv

(* One proof step per process. *)
LEMMA SessionStep == SessionInv /\ [Next]_vars => SessionInv'
<1> SUFFICES ASSUME SessionInv, [Next]_vars PROVE SessionInv'
  OBVIOUS
<1>1. CASE AdapterStep
  BY <1>1, AdapterStepOK
<1>2. CASE SessionProcess
  BY <1>2, CliTakesOK, CliReadsOK, CliInterruptedOK, CliStopsOK, CliEndsOK
     DEF SessionProcess, CliStep
<1>3. CASE ReaderStep
  BY <1>3, ReaderTakesOK, ReaderPutsOK, OnFrameOK DEF ReaderStep
<1>4. CASE DriverStep
  BY <1>4, AskOK, ScanOK, GetOK, TerminateOK DEF DriverStep
<1>5. CASE UNCHANGED vars
  <2>1. AdapterInv' /\ AnswersOK' /\ QueueOK'
    BY <1>5, AdapterKept, AnswersKept, QueueKept DEF vars, SessionInv
  <2>2. Typed' /\ CliOK' /\ \A t \in Turns : TurnOK(t)'
    BY <1>5 DEF vars, SessionInv, Typed, CliOK, TurnOK, Sent, Asked, Busy, Answered
  <2> QED BY <2>1, <2>2 DEF SessionInv
<1> QED BY <1>1, <1>2, <1>3, <1>4, <1>5 DEF Next

LEMMA SessionInvariant == Spec => []SessionInv
  BY SessionInit, SessionStep, PTL DEF Spec

-----------------------------------------------------------------------------
(* Type correctness of a supervised session: SessionTypeOK. *)
THEOREM SessionTyped == Spec => []SessionTypeOK
<1>1. SessionInv => SessionTypeOK
  <2> SUFFICES ASSUME SessionInv PROVE SessionTypeOK
    OBVIOUS
  <2>1. /\ Messages \subseteq [kind : {"user", "interrupt"}, turn : 0..2]
        /\ Frames \subseteq [kind : {"value", "user", "delta", "result", "control"}, turn : 0..2]
        /\ Lines \subseteq [kind : {"noise", "value", "user", "delta", "result", "control"}, turn : 0..2]
    BY DEF Messages, Frames, Lines, user, interrupt, frame, Turns
  <2>2. /\ stdin \in Seq([kind : {"user", "interrupt"}, turn : 0..2])
        /\ pipe \in Seq([kind : {"noise", "value", "user", "delta", "result", "control"}, turn : 0..2])
        /\ frames \in Seq([kind : {"value", "user", "delta", "result", "control"}, turn : 0..2])
    <3>1. stdin \in Seq(Messages) /\ pipe \in Seq(Lines) /\ frames \in Seq(Frames)
      BY DEF SessionInv, Typed
    <3>2. ASSUME NEW S, NEW T, NEW s \in Seq(S), S \subseteq T
          PROVE  s \in Seq(T)
      BY <3>2, SeqMonotonic
    <3> HIDE DEF Messages, Frames, Lines
    <3>3. stdin \in Seq([kind : {"user", "interrupt"}, turn : 0..2])
      BY <2>1, <3>1, <3>2
    <3>4. pipe \in Seq([kind : {"noise", "value", "user", "delta", "result", "control"}, turn : 0..2])
      BY <2>1, <3>1, <3>2
    <3>5. frames \in Seq([kind : {"value", "user", "delta", "result", "control"}, turn : 0..2])
      BY <2>1, <3>1, <3>2
    <3> QED BY <3>3, <3>4, <3>5
  <2> QED BY <2>2 DEF SessionInv, AdapterInv, Typed, SessionTypeOK
<1> QED BY <1>1, SessionInvariant, PTL

Tailed(k) == {Relayed(k) \o tail : tail \in
                {<<>>, <<end>>, <<status(BadGateway)>>, <<status(BadGateway), end>>}}

LEMMA Tails ==
  ASSUME NEW k \in Nat
  PROVE  Closings(k) \subseteq Tailed(k)
<1>1. Relayed(k) \in Seq(Item) /\ end \in Item /\ status(BadGateway) \in Item
  BY RelayedTyped, ItemsTyped
<1>2. ASSUME NEW s \in Seq(Item), NEW a \in Item, NEW b \in Item
      PROVE  /\ s = s \o <<>> /\ Append(s, a) = s \o <<a>>
             /\ Append(Append(s, a), b) = s \o <<a, b>>
  OBVIOUS
<1>3. /\ Relayed(k) = Relayed(k) \o <<>> /\ Append(Relayed(k), end) = Relayed(k) \o <<end>>
      /\ Append(Relayed(k), status(BadGateway)) = Relayed(k) \o <<status(BadGateway)>>
      /\ Append(Append(Relayed(k), status(BadGateway)), end)
           = Relayed(k) \o <<status(BadGateway), end>>
  BY <1>1, <1>2
<1> QED
  BY <1>3 DEF Closings, Tailed

(* What the adapter has put on the wire is the upstream's response so far, *)
(* whatever fails: Streams (adapter_proxy.py _forward).                    *)
THEOREM ResponsesStream == Spec => []Streams
<1>1. SessionInv => Streams
  <2> SUFFICES ASSUME SessionInv, NEW r \in Requests, conn[r].read > 0
               PROVE  \E k \in {conn[r].read - 1, conn[r].read} :
                        /\ conn[r].at = "read" => k = conn[r].read
                        /\ conn[r].wire \in Tailed(k)
    BY DEF Streams, Tailed
  <2>1. /\ ConnOK(r) /\ conn[r].read \in Nat
        /\ conn[r].at \in {"idle", "open", "read", "write", "fail", "body", "closed"}
    BY AdapterTyped DEF SessionInv, AdapterInv, ConnType
  <2>2. \A k \in Halves(r) : k \in {conn[r].read - 1, conn[r].read}
    BY <2>1 DEF Halves
  <2>3. conn[r].read \in {conn[r].read - 1, conn[r].read}
    OBVIOUS
  <2>4. CASE conn[r].at = "read"
    <3>1. PICK k \in {conn[r].read - 1, conn[r].read} :
            k \in Nat /\ conn[r].wire = Relayed(k) /\ (conn[r].at = "read" => k = conn[r].read)
      BY <2>1, <2>4 DEF ConnOK
    <3> QED BY <3>1, Tails DEF Closings
  <2>5. CASE conn[r].at = "write"
    <3>1. PICK k \in {conn[r].read - 1, conn[r].read} :
            k \in Nat /\ conn[r].wire = Relayed(k) /\ (conn[r].at = "read" => k = conn[r].read)
      BY <2>1, <2>5 DEF ConnOK
    <3> QED BY <3>1, Tails DEF Closings
  <2>6. CASE conn[r].at \in {"fail", "body", "closed"}
    <3>1. PICK k \in Halves(r) : conn[r].wire \in Closings(k)
      BY <2>1, <2>6 DEF ConnOK, Closings
    <3>2. k \in Nat
      BY DEF Halves
    <3> QED BY <3>1, <3>2, <2>2, <2>6, Tails
  <2>7. conn[r].at \notin {"idle", "open"}
    BY <2>1 DEF ConnOK
  <2> QED BY <2>1, <2>4, <2>5, <2>6, <2>7
<1> QED BY <1>1, SessionInvariant, PTL

(* What the adapter recorded as a success was delivered whole, and once:   *)
(* RecordedIsWhole (Adapter.calls).                                        *)
THEOREM SuccessWasWhole == Spec => []RecordedIsWhole
<1>1. SessionInv => RecordedIsWhole
  BY DEF SessionInv, AdapterInv, CallsOK, RecordedIsWhole
<1> QED BY <1>1, SessionInvariant, PTL

(* No answer is lost between the frames kept and the queue a wait sleeps   *)
(* on, in any order of the two threads: NoAnswerMissed (Session.wait_for). *)
THEOREM NoWakeupLost == Spec => []NoAnswerMissed
<1>1. SessionInv => NoAnswerMissed
  BY DEF SessionInv, QueueOK
<1> QED BY <1>1, SessionInvariant, PTL

(* The second wait never returns the answer to the first message, unless   *)
(* the first wait ran out: AnswerIsOfItsTurn (supervision_checks).         *)
THEOREM AnswersKeepTheirTurn == Spec => []AnswerIsOfItsTurn
<1>1. SessionInv => AnswerIsOfItsTurn
  <2> SUFFICES ASSUME SessionInv, drv.answer[1] # 0, drv.answer[2] # 0
               PROVE  frames[drv.answer[2]].turn = 2
    BY DEF AnswerIsOfItsTurn
  <2> DEFINE i == drv.answer[1]  j == drv.answer[2]
  <2>1. /\ i \in 1..Len(frames) /\ frames[i] = result(1) /\ i <= drv.n
        /\ j \in 1..Len(frames) /\ frames[j].kind = "result" /\ j > drv.n + 1
    BY DEF SessionInv, AnswersOK
  <2>2. drv.n \in Nat /\ frames \in Seq(Frames) /\ Len(frames) \in Nat
    BY DEF SessionInv, Typed
  <2>3. i # j
    BY <2>1, <2>2
  <2>4. frames[j] \in Frames
    BY <2>1, <2>2
  <2>5. PICK t \in Turns : frames[j] = result(t)
    BY <2>1, <2>4, FramesTyped
  <2>6. One(frames, result(1))
    BY DEF SessionInv, TurnOK, Turns
  <2>7. t # 1
    BY <2>1, <2>3, <2>5, <2>6 DEF One
  <2> QED BY <2>5, <2>7, FramesTyped DEF Turns
<1> QED BY <1>1, SessionInvariant, PTL

(* A session reported clean has read all it was sent and answered each     *)
(* message with a result: CleanIsComplete (Session.terminate).             *)
THEOREM CleanEndIsComplete == Spec => []CleanIsComplete
<1>1. SessionInv => CleanIsComplete
  <2> SUFFICES ASSUME SessionInv, drv.clean
               PROVE  /\ cli.code = 0 /\ stdin = <<>>
                      /\ \A t \in Turns : \E i \in DOMAIN Written : Written[i] = frame("result", t)
    BY DEF CleanIsComplete
  <2>1. /\ cli.code = 0 /\ drv.at = "done" /\ drv.turn = 2 /\ stdin = <<>> /\ cli.at = "down"
        /\ frames \in Seq(Frames) /\ pipe \in Seq(Lines)
    BY DEF SessionInv, AnswersOK, CliOK, Typed, None
  <2>2. ASSUME NEW t \in Turns
        PROVE  \E i \in DOMAIN Written : Written[i] = frame("result", t)
    <3>1. Asked(t) /\ ~Busy(t) /\ TurnOK(t) /\ ~Has(stdin, user(t))
      BY <2>1, NoneYet DEF SessionInv, Asked, Busy, Turns
    <3>2. Answered(t)
      BY <2>1, <3>1 DEF TurnOK
    <3>3. Len(frames) \in Nat /\ Len(pipe) \in Nat /\ DOMAIN Written = 1..(Len(frames) + Len(pipe))
      BY <2>1 DEF Written
    <3>4. CASE Has(frames, result(t))
      <4>1. PICK i \in 1..Len(frames) : frames[i] = result(t)
        BY <3>4 DEF Has
      <4>2. i \in DOMAIN Written /\ Written[i] = result(t)
        BY <3>3, <4>1 DEF Written
      <4> QED BY <4>2 DEF result
    <3>5. CASE Has(pipe, result(t))
      <4>1. PICK i \in 1..Len(pipe) : pipe[i] = result(t)
        BY <3>5 DEF Has
      <4>2. Len(frames) + i \in DOMAIN Written /\ Written[Len(frames) + i] = pipe[i]
        BY <3>3, <4>1 DEF Written
      <4> QED BY <4>1, <4>2 DEF result
    <3> QED BY <3>2, <3>4, <3>5 DEF Answered
  <2> QED BY <2>1, <2>2
<1> QED BY <1>1, SessionInvariant, PTL
=============================================================================
