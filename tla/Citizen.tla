------------------------------ MODULE Citizen ------------------------------
(***************************************************************************)
(* A citizen container from the moment its bus connection stands: PID 1    *)
(* publishes the descriptor, starts the heartbeat task, runs the payload   *)
(* with one pump per output stream, reports its exit and shuts down        *)
(* (platform/base/l0/init.py, main() from the descriptor on).  Boot up to  *)
(* the connection is module Boot; publish() and the socket are Agentd.     *)
(*                                                                         *)
(* All coroutines share one event loop.  A step of this model is what one  *)
(* coroutine does between two awaits; the payload, the peers of the socket *)
(* and the bus move on their own.                                          *)
(***************************************************************************)
EXTENDS Agentd

CONSTANTS
  LineKinds,   \* \subseteq {"fits", "long"}: lines the payload may write
  PipeCap,     \* lines an OS pipe holds before the writer blocks
  MaxLines,    \* bound: lines per stream
  MaxBeats,    \* bound: heartbeats
  MaxFaults,   \* bound: bus disconnections
  Orphans      \* may the payload leave a descendant holding its pipes?

ASSUME CitizenAssumption ==
  /\ LineKinds \subseteq {"fits", "long"}
  /\ PipeCap \in Nat \ {0}
  /\ MaxLines \in Nat
  /\ MaxBeats \in Nat
  /\ MaxFaults \in Nat
  /\ Orphans \in BOOLEAN

Stream == {"stdout", "stderr"}
ExitStatus == {0, 1}

VARIABLES
  main,     \* where main() stands
  hb,       \* state of the heartbeat task
  beats,    \* seq of heartbeat_loop, its own counter
  pump,     \* state of the pump of each stream
  proc,     \* "none", "running" or "exited"
  status,   \* exit status of the payload
  orphan,   \* a descendant still holds the payload's pipes
  written,  \* lines ever written to each stream
  pipe,     \* lines in each pipe, oldest first
  faults    \* bus disconnections so far

vars == <<agentVars, main, hb, beats, pump, proc, status, orphan, written, pipe, faults>>

procVars == <<proc, status, orphan, written, pipe>>
socketVars == <<client, queued, asked, pending, reply>>

Over == main \in {"returned", "crashed"}

Init ==
  /\ AgentInit
  /\ main = "describe"
  /\ hb = "off"
  /\ beats = 0
  /\ pump = [s \in Stream |-> "off"]
  /\ proc = "none"
  /\ status = 0
  /\ orphan = FALSE
  /\ written = [s \in Stream |-> 0]
  /\ pipe = [s \in Stream |-> <<>>]
  /\ faults = 0

-----------------------------------------------------------------------------
(* main(): descriptor, heartbeat task, payload or idle.  The result of the *)
(* descriptor's publish is not looked at; an exception ends the process.   *)
MainDescribes ==
  /\ main = "describe"
  /\ \E r \in Outcome :
       /\ publish("main", descriptor_subject(Citizen), "descriptor", 0, r)
       /\ main' = CASE r = "refused" -> "launch"
                    [] r = "raised" -> "crashed"
                    [] r = "awaiting" -> "describing"
       /\ hb' = IF r = "refused" THEN "ready" ELSE hb
  /\ UNCHANGED <<bus, socketVars, beats, pump, procVars, faults>>

MainDescribed ==
  /\ main = "describing"
  /\ main' = "launch"
  /\ hb' = "ready"
  /\ UNCHANGED <<agentVars, beats, pump, procVars, faults>>

(* run_payload: create_subprocess_exec, then gather() starts both pumps.   *)
MainLaunches ==
  /\ main = "launch"
  /\ main' = "run"
  /\ proc' = "running"
  /\ pump' = [s \in Stream |-> "reading"]
  /\ UNCHANGED <<agentVars, hb, beats, status, orphan, written, pipe, faults>>

MainLaunchFails ==
  /\ main = "launch"
  /\ main' = "crashed"
  /\ UNCHANGED <<agentVars, hb, beats, pump, procVars, faults>>

(* No argv: descriptor and heartbeat only, until the idle time is over.    *)
MainIdles ==
  /\ main = "launch"
  /\ main' = "idle"
  /\ UNCHANGED <<agentVars, hb, beats, pump, procVars, faults>>

MainIdleEnds ==
  /\ main = "idle"
  /\ main' = "stop"
  /\ UNCHANGED <<agentVars, hb, beats, pump, procVars, faults>>

(* Defect form: gather(return_exceptions=True), whose results nobody reads. *)
MainGatherRaisesWhenAllDo ==
  /\ main = "run"
  /\ \A s \in Stream : pump[s] = "raised"
  /\ main' = "crashed"
  /\ UNCHANGED <<agentVars, hb, beats, pump, procVars, faults>>

(* gather(): the first exception of a pump is main's; else both must end.  *)
MainGatherRaises ==
  /\ main = "run"
  /\ \E s \in Stream : pump[s] = "raised"
  /\ main' = "crashed"
  /\ UNCHANGED <<agentVars, hb, beats, pump, procVars, faults>>

(* Defect form: one pump's end is taken for both.                          *)
MainGathersFirst ==
  /\ main = "run"
  /\ \E s \in Stream : pump[s] = "ended"
  /\ main' = "wait"
  /\ UNCHANGED <<agentVars, hb, beats, pump, procVars, faults>>

MainGathers ==
  /\ main = "run"
  /\ \A s \in Stream : pump[s] = "ended"
  /\ main' = "wait"
  /\ UNCHANGED <<agentVars, hb, beats, pump, procVars, faults>>

(* proc.wait(), then emit_event("payload.exit"), then its await.           *)
MainReportsExit ==
  /\ main = "wait"
  /\ proc = "exited"
  /\ \E r \in Outcome :
       /\ publish("main", event_subject(Citizen, Context), "exit", status, r)
       /\ main' = CASE r = "refused" -> "stop"
                    [] r = "raised" -> "crashed"
                    [] r = "awaiting" -> "exiting"
  /\ UNCHANGED <<bus, socketVars, hb, beats, pump, procVars, faults>>

MainReported ==
  /\ main = "exiting"
  /\ main' = "stop"
  /\ UNCHANGED <<agentVars, hb, beats, pump, procVars, faults>>

(* hb.cancel(), server.close() and the call of bus.drain(), which raises   *)
(* unless the connection stands.                                           *)
MainStops ==
  /\ main = "stop"
  /\ main' = IF bus = "up" THEN "draining" ELSE "crashed"
  /\ hb' = IF hb = "dead" THEN hb ELSE "cancelled"
  /\ UNCHANGED <<agentVars, beats, pump, procVars, faults>>

(* Defect form: the connection is closed, not drained.                     *)
MainClosesUndrained ==
  /\ main = "draining"
  /\ main' = "returned" /\ bus' = "closed"
  /\ UNCHANGED <<sent, seq, out, socketVars, hb, beats, pump, procVars, faults>>

(* drain() flushes what was buffered and closes; without a connection the  *)
(* flush fails.                                                            *)
MainDrained ==
  /\ main = "draining"
  /\ IF bus = "up"
     THEN main' = "returned" /\ sent' = Len(out) /\ bus' = "closed"
     ELSE main' = "crashed" /\ UNCHANGED <<sent, bus>>
  /\ UNCHANGED <<seq, out, socketVars, hb, beats, pump, procVars, faults>>

MainStep ==
  \/ MainDescribes \/ MainDescribed
  \/ MainLaunches \/ MainLaunchFails
  \/ MainIdles \/ MainIdleEnds
  \/ MainGatherRaises \/ MainGathers
  \/ MainReportsExit \/ MainReported
  \/ MainStops \/ MainDrained

-----------------------------------------------------------------------------
(* heartbeat_loop.  A refusal is ignored; an exception ends the task and   *)
(* nobody looks at it.                                                     *)
HbBeats ==
  /\ ~Over
  /\ hb = "ready"
  /\ beats < MaxBeats
  /\ beats' = beats + 1
  /\ \E r \in Outcome :
       /\ publish("hb", heartbeat_subject(Citizen), "beat", beats + 1, r)
       /\ hb' = CASE r = "refused" -> "sleeping"
                  [] r = "raised" -> "dead"
                  [] r = "awaiting" -> "awaiting"
  /\ UNCHANGED <<bus, socketVars, main, pump, procVars, faults>>

HbReturns ==
  /\ ~Over
  /\ hb = "awaiting"
  /\ hb' = "sleeping"
  /\ UNCHANGED <<agentVars, main, beats, pump, procVars, faults>>

HbWakes ==
  /\ ~Over
  /\ hb = "sleeping"
  /\ hb' = "ready"
  /\ UNCHANGED <<agentVars, main, beats, pump, procVars, faults>>

-----------------------------------------------------------------------------
(* pump(): read a line, publish it, wait for the publish, read the next.   *)
(* A refusal is ignored; an exception ends the pump.  A line beyond the    *)
(* stream reader's limit makes readline() itself raise.                    *)

(* Defect form: the second stream is read only when the first has ended.   *)
PumpReadsInTurn(s) ==
  /\ ~Over
  /\ pump[s] = "reading"
  /\ s = "stderr" => pump["stdout"] = "ended"
  /\ pipe[s] # <<>>
  /\ Head(pipe[s]).len = "fits"
  /\ pipe' = [pipe EXCEPT ![s] = Tail(@)]
  /\ \E r \in Outcome :
       /\ publish(s, output_subject(Citizen, Context), "line", Head(pipe[s]).n, r)
       /\ pump' = [pump EXCEPT ![s] = CASE r = "refused" -> "reading"
                                        [] r = "raised" -> "raised"
                                        [] r = "awaiting" -> "awaiting"]
  /\ UNCHANGED <<bus, socketVars, main, hb, beats, proc, status, orphan, written, faults>>

PumpReads(s) ==
  /\ ~Over
  /\ pump[s] = "reading"
  /\ pipe[s] # <<>>
  /\ Head(pipe[s]).len = "fits"
  /\ pipe' = [pipe EXCEPT ![s] = Tail(@)]
  /\ \E r \in Outcome :
       /\ publish(s, output_subject(Citizen, Context), "line", Head(pipe[s]).n, r)
       /\ pump' = [pump EXCEPT ![s] = CASE r = "refused" -> "reading"
                                        [] r = "raised" -> "raised"
                                        [] r = "awaiting" -> "awaiting"]
  /\ UNCHANGED <<bus, socketVars, main, hb, beats, proc, status, orphan, written, faults>>

PumpReadsTooLong(s) ==
  /\ ~Over
  /\ pump[s] = "reading"
  /\ pipe[s] # <<>>
  /\ Head(pipe[s]).len = "long"
  /\ pipe' = [pipe EXCEPT ![s] = Tail(@)]
  /\ pump' = [pump EXCEPT ![s] = "raised"]
  /\ UNCHANGED <<agentVars, main, hb, beats, proc, status, orphan, written, faults>>

PumpReturns(s) ==
  /\ ~Over
  /\ pump[s] = "awaiting"
  /\ pump' = [pump EXCEPT ![s] = "reading"]
  /\ UNCHANGED <<agentVars, main, hb, beats, procVars, faults>>

(* End of file: the pipe is empty and no process holds its other end.      *)
PumpEnds(s) ==
  /\ ~Over
  /\ pump[s] = "reading"
  /\ pipe[s] = <<>>
  /\ proc = "exited" /\ ~orphan
  /\ pump' = [pump EXCEPT ![s] = "ended"]
  /\ UNCHANGED <<agentVars, main, hb, beats, procVars, faults>>

PumpStep(s) ==
  PumpReads(s) \/ PumpReadsTooLong(s) \/ PumpReturns(s) \/ PumpEnds(s)

-----------------------------------------------------------------------------
(* The payload and a descendant it may leave behind. *)
Writer == proc = "running" \/ orphan

PayloadWrites(s) ==
  /\ ~Over
  /\ Writer
  /\ written[s] < MaxLines
  /\ Len(pipe[s]) < PipeCap
  /\ \E l \in LineKinds :
       pipe' = [pipe EXCEPT ![s] = Append(@, [n |-> written[s] + 1, len |-> l])]
  /\ written' = [written EXCEPT ![s] = @ + 1]
  /\ UNCHANGED <<agentVars, main, hb, beats, pump, proc, status, orphan, faults>>

PayloadForks ==
  /\ ~Over
  /\ Orphans
  /\ proc = "running"
  /\ ~orphan
  /\ orphan' = TRUE
  /\ UNCHANGED <<agentVars, main, hb, beats, pump, proc, status, written, pipe, faults>>

PayloadExits ==
  /\ ~Over
  /\ proc = "running"
  /\ proc' = "exited"
  /\ status' \in ExitStatus
  /\ UNCHANGED <<agentVars, main, hb, beats, pump, orphan, written, pipe, faults>>

OrphanExits ==
  /\ ~Over
  /\ orphan
  /\ orphan' = FALSE
  /\ UNCHANGED <<agentVars, main, hb, beats, pump, proc, status, written, pipe, faults>>

(* The socket accepts connections until server.close(); what a peer wrote  *)
(* before it went away is still read.                                      *)
PeerStep(c) ==
  /\ ~Over
  /\ Writer
  /\ \/ PeerConnects(c) /\ main \in {"run", "wait", "exiting", "stop"}
     \/ PeerAsks(c)
  /\ UNCHANGED <<main, hb, beats, pump, procVars, faults>>

SocketStep(c) ==
  /\ ~Over
  /\ ClientStep(c)
  /\ UNCHANGED <<main, hb, beats, pump, procVars, faults>>

BusStep ==
  /\ ~Over
  /\ BusFlush \/ BusReconnects \/ BusGivesUp
  /\ UNCHANGED <<main, hb, beats, pump, procVars, faults>>

BusFails ==
  /\ ~Over
  /\ BusDrops
  /\ faults < MaxFaults
  /\ faults' = faults + 1
  /\ UNCHANGED <<main, hb, beats, pump, procVars>>

(* The process has ended: nothing moves any more. *)
Ended == Over /\ UNCHANGED vars

Next ==
  \/ MainStep
  \/ HbBeats \/ HbReturns \/ HbWakes
  \/ \E s \in Stream : PumpStep(s) \/ PayloadWrites(s)
  \/ PayloadForks \/ PayloadExits \/ OrphanExits
  \/ \E c \in Client : PeerStep(c) \/ SocketStep(c)
  \/ BusStep \/ BusFails
  \/ Ended

Spec == Init /\ [][Next]_vars

(* The event loop runs every coroutine that can go on, and an awaited      *)
(* publish of the bus client ends.  Nothing makes the payload write or     *)
(* exit, a peer ask, a descendant exit or the bus fail or recover.         *)
Fairness ==
  /\ WF_vars(MainStep)
  /\ WF_vars(HbBeats \/ HbReturns)
  /\ \A s \in Stream : WF_vars(PumpStep(s))
  /\ \A c \in Client : WF_vars(SocketStep(c))

FairSpec == Spec /\ Fairness

-----------------------------------------------------------------------------
CoroutineTypeOK ==
  /\ main \in {"describe", "describing", "launch", "run", "idle", "wait", "exiting",
               "stop", "draining", "returned", "crashed"}
  /\ hb \in {"off", "ready", "awaiting", "sleeping", "dead", "cancelled"}
  /\ beats \in Nat
  /\ pump \in [Stream -> {"off", "reading", "awaiting", "ended", "raised"}]
  /\ proc \in {"none", "running", "exited"}
  /\ status \in ExitStatus
  /\ orphan \in BOOLEAN
  /\ written \in [Stream -> Nat]
  /\ pipe \in [Stream -> Seq([n : Nat, len : LineKinds])]
  /\ faults \in Nat

TypeOK == AgentTypeOK /\ CoroutineTypeOK

(* A citizen that ends in good order has put on the bus every line its     *)
(* payload wrote and the payload's own exit status.                        *)
CleanExitIsComplete ==
  main = "returned" /\ proc = "exited" =>
    /\ \A s \in Stream : \A k \in 1..written[s] :
         \E i \in 1..sent : out[i].by = s /\ out[i].n = k
    /\ \E i \in 1..sent : out[i].kind = "exit" /\ out[i].n = status

(* A writer blocked on a full pipe is unblocked: neither stream waits for  *)
(* the other, nor for the end of the payload.                              *)
PipeIsDrained ==
  \A s \in Stream : (Len(pipe[s]) = PipeCap) ~> (Len(pipe[s]) < PipeCap \/ Over)

(* Once the payload is gone and nothing else holds its pipes, the citizen  *)
(* ends.                                                                   *)
CitizenEnds == (proc = "exited" /\ ~orphan) ~> Over

-----------------------------------------------------------------------------
(* Statements of the repository that the code does not keep.               *)

(* init.py:153-154 "payload stdout/stderr captured by the base and         *)
(* published. No L0 configuration disables this": what a payload wrote is  *)
(* on the bus when its citizen ends in good order, whatever L0_CONTEXT.    *)
CaptureCannotBeDisabled ==
  main = "returned" =>
    \A s \in Stream : \A k \in 1..written[s] :
      \E i \in 1..sent : out[i].by = s /\ out[i].n = k

(* init.py:4-6 "any step failing exits non-zero without starting the       *)
(* payload": a payload runs only behind a published descriptor.            *)
DescriptorBeforePayload ==
  proc # "none" => \E i \in 1..Len(out) : out[i].kind = "descriptor"

(* DOC-0003:147 "Heartbeat. Signed, every 30 s": a citizen that is serving *)
(* on a standing connection still has its heartbeat task.                  *)
HeartbeatServes ==
  main \in {"run", "idle"} /\ bus = "up" => hb # "dead"

(* init.py:15-16 "Supervision is also what lets PID 1 reap orphans and     *)
(* emit the final telemetry event": the payload's exit is reported or the  *)
(* citizen ends.                                                           *)
ExitIsReported ==
  (proc = "exited") ~> (Over \/ \E i \in 1..Len(out) : out[i].kind = "exit")

(* DOC-0003:153-154 "Payload stdout/stderr ... are captured by the base    *)
(* and published": without a bus fault no output ends the citizen.         *)
OutputNeverEndsCitizen ==
  faults = 0 /\ proc # "none" => main # "crashed"

(* agentd.py:95 "a failed op answers, never crashes agentd": no request    *)
(* costs its connection.                                                   *)
FailedOpAnswers == \A c \in Client : client[c] # "dropped"
=============================================================================
