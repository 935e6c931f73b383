------------------------------ MODULE Adapter -------------------------------
(***************************************************************************)
(* The adapter proxy (platform/harness/adapter_proxy.py): one handler      *)
(* thread per request, between a session and its model provider.  The      *)
(* upstream and the client are external: the upstream answers, sends       *)
(* chunks, ends, stalls or fails as it likes, the client may hang up.      *)
(***************************************************************************)
EXTENDS Naturals, Sequences

CONSTANTS Requests,     \* what the client asks of the adapter
          MaxChunks     \* bound, per request: chunks of the upstream's response

ASSUME AdapterAssumption == MaxChunks \in [Requests -> Nat]

OK == 200  Overloaded == 529  BadGateway == 502

VARIABLES
  conn,    \* per request: where its thread is, chunks read, what it wrote, client gone
  calls    \* Adapter.calls, the path aside

status(c) == [kind |-> "status", n |-> c]
chunk(i) == [kind |-> "chunk", n |-> i]
end == [kind |-> "end", n |-> 0]

AdapterInit ==
  /\ conn = [r \in Requests |-> [at |-> "idle", read |-> 0, wire |-> <<>>, gone |-> FALSE]]
  /\ calls = <<>>

(* What a thread writes reaches the client or, once that has hung up, may  *)
(* raise instead.                                                          *)
Writes(r, item, next) == conn' = [conn EXCEPT ![r].wire = Append(@, item), ![r].at = next]
Raises(r, next) == conn[r].gone /\ conn' = [conn EXCEPT ![r].at = next]
Records(r, code) == calls' = Append(calls, <<r, code>>)

(* urlopen returns: the status line and the headers of a chunked response. *)
Begin(r) ==
  /\ conn[r].at = "open"
  /\ Writes(r, status(OK), "read") \/ Raises(r, "fail")
  /\ UNCHANGED calls

(* HTTPError, an answer too, with its body read first: neither that read   *)
(* nor a write in this branch is guarded.                                  *)
Refuse(r) ==
  /\ conn[r].at = "open"
  /\ Writes(r, status(Overloaded), "body") \/ conn' = [conn EXCEPT ![r].at = "closed"]
  /\ UNCHANGED calls

OpenFails(r) ==
  /\ conn[r].at = "open"
  /\ conn' = [conn EXCEPT ![r].at = "fail"]
  /\ UNCHANGED calls

(* Defect form: the response is read whole before it is passed on.         *)
ReadWhole(r) ==
  /\ conn[r].at = "read" /\ conn[r].read < MaxChunks[r]
  /\ \E next \in {"read", "write"} :
       conn' = [conn EXCEPT ![r].read = @ + 1, ![r].at = next]
  /\ UNCHANGED calls

(* resp.read(1024) returns a chunk. *)
Read(r) ==
  /\ conn[r].at = "read" /\ conn[r].read < MaxChunks[r]
  /\ conn' = [conn EXCEPT ![r].read = @ + 1, ![r].at = "write"]
  /\ UNCHANGED calls

ReadFails(r) ==
  /\ conn[r].at = "read"
  /\ conn' = [conn EXCEPT ![r].at = "fail"]
  /\ UNCHANGED calls

(* The chunk is written and flushed before the next is read. *)
Write(r) ==
  /\ conn[r].at = "write"
  /\ Writes(r, chunk(conn[r].read), "read") \/ Raises(r, "fail")
  /\ UNCHANGED calls

(* Defect form: the call is recorded before its response has gone out.     *)
FinishRecordingFirst(r) ==
  /\ conn[r].at = "read"
  /\ Records(r, OK)
  /\ Writes(r, end, "closed") \/ Raises(r, "fail")

(* It returns nothing: the last chunk, and only then the record. *)
Finish(r) ==
  /\ conn[r].at = "read"
  /\ \/ Writes(r, end, "closed") /\ Records(r, OK)
     \/ Raises(r, "fail") /\ UNCHANGED calls

(* "a proxy failure is a 502, not a crash": whatever has been written.     *)
Answer502(r) ==
  /\ conn[r].at = "fail"
  /\ Writes(r, status(BadGateway), "body") \/ Raises(r, "closed")
  /\ UNCHANGED calls

(* The body of either, and only then the record. *)
Body(r, code) ==
  /\ conn[r].at = "body" /\ conn[r].wire[Len(conn[r].wire)] = status(code)
  /\ \/ Writes(r, end, "closed") /\ Records(r, code)
     \/ Raises(r, "closed") /\ UNCHANGED calls

(* What needs no word from the upstream, and what does. *)
Handler(r) == Write(r) \/ Answer502(r) \/ \E code \in {Overloaded, BadGateway} : Body(r, code)
Upstream(r) == Begin(r) \/ Refuse(r) \/ OpenFails(r) \/ Read(r) \/ ReadFails(r) \/ Finish(r)

-----------------------------------------------------------------------------
(* The response so far when k chunks have been passed on. *)
Relayed(k) == [i \in 1..(k + 1) |-> IF i = 1 THEN status(OK) ELSE chunk(i - 1)]

AdapterTypeOK ==
  /\ conn \in [Requests -> [at : {"idle", "open", "read", "write", "fail", "body", "closed"},
                            read : Nat, gone : BOOLEAN,
                            wire : Seq([kind : {"status", "chunk", "end"}, n : Nat])]]
  /\ calls \in Seq(Requests \X Nat)

(* "Chunk-by-chunk, flushed as it arrives": what is on the wire are the    *)
(* upstream's chunks, in order and without a gap; never more than the one  *)
(* in hand is still to be passed on, and none while the next is awaited.   *)
Streams ==
  \A r \in Requests : conn[r].read > 0 =>
    \E k \in {conn[r].read - 1, conn[r].read} :
      /\ conn[r].at = "read" => k = conn[r].read
      /\ conn[r].wire \in {Relayed(k) \o tail : tail \in
                            {<<>>, <<end>>, <<status(BadGateway)>>, <<status(BadGateway), end>>}}

(* What is recorded as a success was delivered whole: status, every chunk  *)
(* read, last chunk, nothing after it; and a request is recorded once.     *)
RecordedIsWhole ==
  \A i \in DOMAIN calls :
    LET r == calls[i][1] IN
    /\ calls[i][2] = OK => conn[r].wire = Append(Relayed(conn[r].read), end)
    /\ \A j \in DOMAIN calls : calls[j][1] = r => j = i

(* adapter_proxy.py:109 "a proxy failure is a 502": a response has one     *)
(* status line.  The code does not keep it once the response has begun.    *)
OneStatusLine ==
  \A r \in Requests : \A i \in DOMAIN conn[r].wire :
    conn[r].wire[i].kind = "status" => i = 1
=============================================================================
