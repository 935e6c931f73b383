------------------------------ MODULE Session -------------------------------
(***************************************************************************)
(* A supervised session (platform/harness/supervise.py) as                 *)
(* supervision_checks of platform/suite/gates/run.py drives it: two user   *)
(* messages, an interrupt fired from the reader thread, termination.  The  *)
(* driver and the reader are two threads of the harness; the session       *)
(* process behind init (the CLI, external) reads stdin, asks the adapter   *)
(* once a turn and writes a frame per event into a bounded pipe.  Between  *)
(* the two is proc, the `docker run -i` client: it carries both streams    *)
(* and ends with the CLI; killing it leaves the CLI in its container.      *)
(***************************************************************************)
EXTENDS Adapter, FiniteSets

CONSTANTS PipeCap,       \* frames the process's stdout holds
          InterruptAt,   \* the delta on which the interrupt is fired (12)
          DiesBy         \* bound: the last turn in which the process may die of itself

Turns == 1..2
ASSUME SessionAssumption ==
  Requests = Turns /\ PipeCap \in Nat \ {0} /\ InterruptAt \in Nat \ {0} /\ DiesBy \in Nat

VARIABLES
  stdin,     \* what was written to the process and not yet read
  open,      \* proc.stdin is open
  cli,       \* the process: where it is, its turn, how much of the response it has seen
  pipe,      \* its stdout
  frames,    \* Session.frames
  q,         \* Session._q, as positions in frames
  rd,        \* the reader thread
  fired,     \* the results read when the interrupt was fired, or None
  drv        \* supervision_checks: where it is, n, the answers of the two waits, the end;
             \* "killed" when terminate has killed the client, as proc.wait then tells it

None == 99
vars == <<conn, calls, stdin, open, cli, pipe, frames, q, rd, fired, drv>>
harnessVars == <<open, frames, q, rd, fired, drv>>

frame(k, t) == [kind |-> k, turn |-> t]
user(t) == frame("user", t)
interrupt == frame("interrupt", 0)

Init ==
  /\ AdapterInit
  /\ stdin = <<>> /\ open = TRUE
  /\ cli = [at |-> "idle", turn |-> 0, seen |-> 0, code |-> None]
  /\ \E k \in {"noise", "value"} : pipe = <<frame(k, 0)>>
  /\ frames = <<>> /\ q = <<>> /\ fired = None
  /\ rd = "read"
  /\ drv = [at |-> "ask", turn |-> 1, n |-> 0, answer |-> <<0, 0>>, clean |-> FALSE]

-----------------------------------------------------------------------------
(* The session process. *)
(* What it writes reaches the pipe while the client that carries it lives. *)
Emits(f) ==
  IF drv.at = "killed" THEN UNCHANGED pipe
                       ELSE Len(pipe) < PipeCap /\ pipe' = Append(pipe, f)

(* A user message begins a turn, replayed first; an interrupt between      *)
(* turns is acknowledged.                                                  *)
CliTakes ==
  /\ cli.at = "idle" /\ stdin # <<>>
  /\ stdin' = Tail(stdin)
  /\ IF Head(stdin) = interrupt
       THEN Emits(frame("control", 0)) /\ UNCHANGED <<cli, conn>>
       ELSE /\ Emits(Head(stdin))
            /\ cli' = [cli EXCEPT !.at = "turn", !.turn = Head(stdin).turn, !.seen = 0]
            /\ conn' = [conn EXCEPT ![Head(stdin).turn].at = "open"]

CliResult ==
  /\ Emits(frame("result", cli.turn))
  /\ cli' = [cli EXCEPT !.at = "idle"]

(* A frame per chunk; the result with the last chunk, with any status but  *)
(* the first 200, or when the connection is closed before either.          *)
CliReads ==
  /\ cli.at = "turn"
  /\ LET c == conn[cli.turn]
         at == IF c.wire # <<>> /\ c.wire[1] = status(OK) THEN cli.seen + 2 ELSE 1 IN
     \/ /\ at \in DOMAIN c.wire /\ c.wire[at].kind = "chunk"
        /\ Emits(frame("delta", cli.turn))
        /\ cli' = [cli EXCEPT !.seen = @ + 1] /\ UNCHANGED conn
     \/ /\ IF at \in DOMAIN c.wire THEN c.wire[at].kind # "chunk" ELSE c.at = "closed"
        /\ CliResult
        /\ conn' = [conn EXCEPT ![cli.turn].gone = TRUE]
  /\ UNCHANGED stdin

(* An interrupt within a turn: acknowledged, the request dropped. *)
CliInterrupted ==
  /\ cli.at = "turn"
  /\ \E i \in DOMAIN stdin :
       /\ stdin[i] = interrupt
       /\ stdin' = SubSeq(stdin, 1, i - 1) \o SubSeq(stdin, i + 1, Len(stdin))
  /\ Emits(frame("control", 0))
  /\ cli' = [cli EXCEPT !.at = "stopping"]
  /\ conn' = [conn EXCEPT ![cli.turn].gone = TRUE]

CliStops == cli.at = "stopping" /\ CliResult /\ UNCHANGED <<conn, stdin>>

CliEnds ==
  /\ cli.at = "idle" /\ stdin = <<>> /\ ~open
  /\ cli' = [cli EXCEPT !.at = "down", !.code = 0]
  /\ UNCHANGED <<conn, stdin, pipe>>

(* A refusal of the boot, a crash. *)
CliDies ==
  /\ cli.at # "down" /\ cli.turn <= DiesBy
  /\ cli' = [cli EXCEPT !.at = "down", !.code = 1]
  /\ conn' = [r \in Requests |-> [conn[r] EXCEPT !.gone = @ \/ conn[r].at # "idle"]]
  /\ UNCHANGED <<stdin, pipe>>

CliStep == CliTakes \/ CliReads \/ CliInterrupted \/ CliStops \/ CliEnds

-----------------------------------------------------------------------------
(* Defect form: the frame is queued before it is kept.                     *)
ReaderTakesQueuing ==
  /\ rd = "read" /\ pipe # <<>>
  /\ IF Head(pipe).kind = "noise"
       THEN pipe' = Tail(pipe) /\ UNCHANGED <<q, rd>>
       ELSE q' = Append(q, Len(frames) + 1) /\ rd' = "put" /\ UNCHANGED pipe
  /\ UNCHANGED frames

(* The reader thread: a frame is kept, then queued, then shown to          *)
(* on_frame.  A line that is no JSON is passed over; one that is a bare    *)
(* value and no object ("value") is kept too, and f.get raises on it.      *)
ReaderTakes ==
  /\ rd = "read" /\ pipe # <<>>
  /\ pipe' = Tail(pipe)
  /\ IF Head(pipe).kind = "noise"
       THEN UNCHANGED <<frames, rd>>
       ELSE frames' = Append(frames, Head(pipe)) /\ rd' = "put"
  /\ UNCHANGED q

ReaderEnds ==
  /\ rd = "read" /\ pipe = <<>> /\ (cli.at = "down" \/ drv.at = "killed")
  /\ rd' = "end"
  /\ UNCHANGED <<pipe, frames, q>>

Count(kind) == Cardinality({i \in DOMAIN frames : frames[i].kind = kind})
Fires == fired = None /\ frames[Len(frames)].kind = "delta" /\ Count("delta") >= InterruptAt

Values == {i \in DOMAIN frames : frames[i].kind = "value"}

ReaderPuts ==
  /\ rd = "put"
  /\ q' = Append(q, Len(frames))
  /\ rd' = IF fired = None /\ Len(frames) \in Values THEN "dead" ELSE IF Fires THEN "show" ELSE "read"
  /\ UNCHANGED <<pipe, frames>>

(* on_frame: once, at the InterruptAt-th delta, the interrupt is written;  *)
(* on a stream that is closed or broken that raises, and the thread ends.  *)
OnFrame ==
  /\ rd = "show"
  /\ fired' = Count("result")
  /\ IF open /\ cli.at # "down"
       THEN stdin' = Append(stdin, interrupt) /\ rd' = "read"
       ELSE rd' = "dead" /\ UNCHANGED stdin

ReaderStep ==
  \/ /\ ReaderTakes \/ ReaderEnds \/ ReaderPuts
     /\ UNCHANGED <<conn, calls, stdin, open, cli, fired, drv>>
  \/ OnFrame /\ UNCHANGED <<conn, calls, open, cli, pipe, frames, q, drv>>

-----------------------------------------------------------------------------
(* Defect form: any result will do.                                        *)
MatchesAny(i) == i \in DOMAIN frames /\ frames[i].kind = "result"

(* What a wait looks for: a result, and for the second one past n. *)
Matches(i) ==
  /\ i \in DOMAIN frames /\ frames[i].kind = "result"
  /\ drv.turn = 2 => i > drv.n + 1

(* send_user, after n was taken: raises once the process is gone.  Before  *)
(* the second, assistant_text has looked at every frame.                   *)
Ask ==
  /\ drv.at = "ask"
  /\ IF cli.at = "down" \/ (drv.turn = 2 /\ Values # {})
       THEN drv' = [drv EXCEPT !.at = "raised"] /\ UNCHANGED stdin
       ELSE /\ drv' = [drv EXCEPT !.at = "scan", !.n = Len(frames)]
            /\ stdin' = Append(stdin, user(drv.turn))
  /\ UNCHANGED <<q, open, cli, conn>>

Waited(i) ==
  IF drv.turn = 1 THEN [drv EXCEPT !.at = "ask", !.turn = 2, !.answer[1] = i]
                  ELSE [drv EXCEPT !.at = "close", !.answer[2] = i]

(* wait_for: every frame so far, then the queue, until the deadline; the   *)
(* predicate raises on a value met before a match.                         *)
Meets(i) == drv' = IF i \in Values THEN [drv EXCEPT !.at = "raised"] ELSE Waited(i)

Scan ==
  /\ drv.at = "scan"
  /\ LET found == {i \in DOMAIN frames : Matches(i)} \cup Values IN
     \/ found = {} /\ drv' = [drv EXCEPT !.at = "get"]
     \/ \E i \in found : (\A j \in found : i <= j) /\ Meets(i)
  /\ UNCHANGED <<q, stdin, open, cli, conn>>

Get ==
  /\ drv.at = "get" /\ q # <<>>
  /\ q' = Tail(q)
  /\ IF Matches(Head(q)) \/ Head(q) \in Values THEN Meets(Head(q)) ELSE UNCHANGED drv
  /\ UNCHANGED <<stdin, open, cli, conn>>

WaitTimesOut ==
  /\ drv.at = "get"
  /\ drv' = Waited(0)
  /\ UNCHANGED <<q, stdin, open, cli, conn>>

(* terminate, after text_of has looked at the frames past n. *)
CloseStdin ==
  /\ drv.at = "close"
  /\ IF \E i \in Values : i > drv.n
       THEN drv' = [drv EXCEPT !.at = "raised"] /\ UNCHANGED open
       ELSE drv' = [drv EXCEPT !.at = "reap"] /\ open' = FALSE
  /\ UNCHANGED <<q, stdin, cli, conn>>

Reap ==
  /\ drv.at = "reap" /\ cli.at = "down"
  /\ drv' = [drv EXCEPT !.at = "done", !.clean = (cli.code = 0)]
  /\ UNCHANGED <<q, stdin, open, cli, conn>>

(* Defect form: a session is not waited for but counted as ended.          *)
KillClean ==
  /\ drv.at = "reap"
  /\ drv' = [drv EXCEPT !.at = "killed", !.clean = TRUE]
  /\ UNCHANGED <<q, stdin, open, cli, conn>>

(* Defect form: the reader is waited for before the client is killed.      *)
KillAfterReader ==
  /\ drv.at = "reap" /\ rd = "end"
  /\ drv' = [drv EXCEPT !.at = "killed"]
  /\ UNCHANGED <<q, stdin, open, cli, conn>>

(* The wait ran out: SIGKILL to the client.  Nothing tells the container:  *)
(* the CLI works on, and its connection to the adapter stays.              *)
Kill ==
  /\ drv.at = "reap"
  /\ drv' = [drv EXCEPT !.at = "killed"]
  /\ UNCHANGED <<q, stdin, open, cli, conn>>

DriverStep ==
  /\ Ask \/ Scan \/ Get \/ WaitTimesOut \/ CloseStdin \/ Reap \/ Kill
  /\ UNCHANGED <<calls, pipe, frames, rd, fired>>

AdapterStep ==
  /\ \E r \in Requests : Handler(r) \/ Upstream(r)
  /\ UNCHANGED <<stdin, cli, pipe, harnessVars>>

SessionProcess == (CliStep \/ CliDies) /\ UNCHANGED <<calls, harnessVars>>

Next == AdapterStep \/ SessionProcess \/ ReaderStep \/ DriverStep

Spec == Init /\ [][Next]_vars

(* The harness's threads and the adapter's run on; the process does unless *)
(* its pipe is full.  Nothing makes the upstream speak, or the process die. *)
FairSpec ==
  /\ Spec
  /\ WF_vars(DriverStep) /\ WF_vars(ReaderStep)
  /\ WF_vars(CliStep /\ UNCHANGED <<calls, harnessVars>>)
  /\ \A r \in Requests : WF_vars(Handler(r) /\ UNCHANGED <<stdin, cli, pipe, harnessVars>>)

-----------------------------------------------------------------------------
SessionTypeOK ==
  /\ AdapterTypeOK
  /\ open \in BOOLEAN
  /\ stdin \in Seq([kind : {"user", "interrupt"}, turn : 0..2])
  /\ cli \in [at : {"idle", "turn", "stopping", "down"}, turn : 0..2, seen : Nat,
              code : {None, 0, 1}]
  /\ pipe \in Seq([kind : {"noise", "value", "user", "delta", "result", "control"}, turn : 0..2])
  /\ frames \in Seq([kind : {"value", "user", "delta", "result", "control"}, turn : 0..2])
  /\ q \in Seq(Nat)
  /\ rd \in {"read", "put", "show", "dead", "end"}
  /\ fired \in Nat
  /\ drv \in [at : {"ask", "scan", "get", "close", "reap", "done", "killed", "raised"},
              turn : Turns, n : Nat, answer : Nat \X Nat, clean : BOOLEAN]

(* No wake-up is lost: while the driver waits on the queue, a frame it     *)
(* waits for is in the queue, or kept and about to be; and what is queued  *)
(* has been kept, for the second predicate looks it up there.              *)
NoAnswerMissed ==
  /\ \A k \in DOMAIN q : q[k] \in DOMAIN frames
  /\ drv.at = "get" =>
       \A i \in DOMAIN frames : Matches(i) =>
         (\E k \in DOMAIN q : q[k] = i) \/ (rd = "put" /\ i = Len(frames))

(* "the next turn observably changes course": unless the first wait ran    *)
(* out, what the second one returns is the end of the second turn, though  *)
(* it looks at frames read since the session began.                        *)
AnswerIsOfItsTurn ==
  drv.answer[1] # 0 /\ drv.answer[2] # 0 => frames[drv.answer[2]].turn = 2

(* "clean termination": a session reported clean ended by itself, with     *)
(* everything it was sent read, each message answered by a result.         *)
Written == [i \in 1..(Len(frames) + Len(pipe)) |->
              IF i <= Len(frames) THEN frames[i] ELSE pipe[i - Len(frames)]]
CleanIsComplete ==
  drv.clean => /\ cli.code = 0 /\ stdin = <<>>
               /\ \A t \in Turns : \E i \in DOMAIN Written : Written[i] = frame("result", t)

(* Every supervision ends and leaves no thread behind: a verdict, a kill   *)
(* or an exception, and the reader at the end of its stream or dead; when  *)
(* the upstream holds its answer back, and when the reader thread died,    *)
(* the pipe filled and the process hangs in a write.                       *)
SupervisionEnds ==
  <>(drv.at \in {"done", "killed", "raised"} /\ rd \in {"end", "dead"})

-----------------------------------------------------------------------------
(* Statements of the repository that the code does not keep.               *)

(* suite/gates/run.py:1108 "that generation was still running when the     *)
(* interrupt was sent", as the check decides it: no result read so far.    *)
InFlightWhenInterrupted ==
  [][fired = None /\ fired' = 0 => cli.at = "turn"]_vars

(* harness/supervise.py:131 "session did not end on stdin close; killed".  *)
(* What is killed is the client; the session's process is not.             *)
KilledIsDown == <>[](drv.at = "killed" => cli.at = "down")
=============================================================================
