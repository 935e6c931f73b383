# Formal models of the republic mesh

TLA+ models of the programs under `src/platform` of the republic semantic
mesh, the TLC instances that check them, and TLAPS proofs about them.
`PROJECT.json` holds the machine-readable side: which lines each definition
stands for, which run checks which property, which deliberate defect each
property catches, the hazards, and the proved theorems.

Run from this directory:

    tlc -workers 2 -config spawn.cfg MCSpawn     # one instance
    tlapm CitizenProofs.tla                      # one module of proofs

Contents: [the system](#the-system) · [the modules](#the-modules) ·
[the runs](#the-runs) · [fairness](#fairness) · [proofs](#proofs) ·
[what the code does not keep](#what-the-code-does-not-keep) ·
[assumptions and omissions](#assumptions-and-omissions) · [plan](#plan)

## The system

A *citizen* is a container with a base (`base/l0`) as PID 1 and an arbitrary
payload below it. The base verifies an identity handed to it in files, connects
to a NATS bus, describes itself, beats, captures the payload's output and offers
it one local socket. A *harness* (`harness/`) admits a request to work on a
story, records which acceptance criteria the work is held to, mints the identity
and starts the container. A *corpus* of atoms (specifications, rules,
decisions, stories, as JSON) says what the work is for. *Tools* (`tools/`) move
atoms through their lifecycle and lint the corpus; CI compares each commit with
the one before.

| Part | State | Operations | What is hard | What makes it correct |
|---|---|---|---|---|
| Subjects (`base/l0/subjects.py`, grant in `init.py`, `mint.py`) | none | `in_taxonomy`, `transport_grant`, `subject_granted` | wildcards by string prefix, while the bus compares words | the citizen's reading is never wider than the bus's |
| agentd (`agentd.py`) | `seq`, drop counter, clients | `publish`, socket ops, `accept_inbound` | one counter, many coroutines, an await inside; a bus client that buffers, raises, reconnects | numbers in the order of acceptance; an ok means an envelope; the grant holds |
| Supervision (`init.py` `main`) | tasks, pipes, child process | descriptor, heartbeat, pumps, exit report, shutdown | two pumps ending apart, full pipes, orphans, a failing bus, cancellation | no gap and no reordering, exit last, a clean end is complete; it ends |
| Boot (`init.py`, `spawn.py` delivery) | three files on a volume, what is in memory | deliver, read, verify, unlink, connect, bind | breaking off in any file, crash anywhere, restart on what is left | a payload behind one verified delivery, once, without its files |
| Chain verifier (`chainverify.py`) | none; a loop | `walk`, `verify_boot`, caveats, leases | chains of any shape, several leases, time | the verdict is what caveats, leases and signatures along the way demand; it ends |
| Envelope (`envelope.py`) | none | `build`, `verify` | facts that come from the caller, the subject or the sender | audience bound to the subject; a lapsed lease silences |
| Spawn gate (`spawn.py`) | per spawn a phase | check, act, mint, injection, delivery, container | three readings of a corpus that moves; spawns side by side | acts on record are of admitted spawns |
| Baseline (`baseline.py`) | spawn acts on disk | build, write, read, grade | several acts for a story, torn files, ids that hold a second | what an admitted spawn pinned is let off only by a newer act; agents' revisions are not graded |
| Ceremony tool (`enact.py`) | corpus in a working tree | `--decision`, `--reconcile` | plans computed once, written file by file, broken off, re-run, older decisions | an authority enumerated what it authorised; no claim active ahead of its rule |
| Commit comparison (`atom_lint.py --since`) | two commits | `hop_findings` | immutability of a whole history judged by neighbours | what the tool writes passes, whatever was committed before |
| Merge gate (`merge_gate.py`) | none; reads the wire and a branch | `attestations_from`, `verify_commits`, `gate` | the wire is read once, the commits one by one, while branches move and leases lapse; the last envelope that names a commit replaces the others | what passes is attested, tree and all, at the hour it was looked at |
| Session supervision (`supervise.py`, driven by `supervision_checks` of `suite/gates/run.py`) | `frames`, a queue, a process | start, `send_user`, `interrupt`, `wait_for`, `terminate` | a reader thread beside the caller, late answers, a callback that raises, a full pipe | no answer missed or taken for another turn's; it ends |
| Adapter proxy (`adapter_proxy.py`) | `Adapter.calls` | `_forward` | failing or stalling upstreams, clients that hang up | streamed, and recorded as a success only when delivered whole |
| Human evidence, embedder (`human_evidence.py`, `embedder.py`) | records in the Acta | `emit`, `report`; build, queries, `emit_evidence` | a corpus that moves between reading and recording, and comes back | what counts as covered was attested by somebody in that very corpus |
| Merge-enforcement probe (`suite/enforcement/run.py`) | records in the Acta | `probe`, `attested_bypass_check`, `emit` | one request a ruleset; runs without sight rely on older ones | no pass over an actor who may bypass |
| CLI pin check (`cli_pin_check.py`) | records in the Acta | `run`, `emit` | rebuilds and bumps between image, rows and verdict | behind a pass there is one binary |
| Ingest lint (`ingest_lint.py`) | records in the Acta | scan, markers, references, `emit` | files moved by hand and pull requests that move during a run | a passed `executed/` names merged work |

How they interact: the harness writes the volume that boot reads (files); the
base calls agentd for everything it publishes (coroutines on one event loop);
payload and base share pipes and a socket; citizens reach one another through
the bus only (messages); the gate reads the corpus that people and tools write,
and writes acts that the grader reads later (files, no lock); CI sees the tools'
work only as commits. The merge gate verifies, with the base's envelope code, what
sessions published on the bus about commits. The harness drives a session over
stdin and stdout, and the session reaches its model through the adapter (HTTP).
Human evidence, embedder, probe, pin check, ingest lint and gate suite share one
directory, the Acta, where each record is a file named for its control and
second; some read the others' files.

`PROJECT.json` lists every component, the ones left out with a reason, and the
hazards at their lines.

## The modules

| Module | Models | Correspondence |
|---|---|---|
| `Subjects` | taxonomy, grant, bus permissions | a subject is a sequence of words; operators only |
| `Agentd` | `publish()`, the socket, the bus client | `seq` is `Agentd.seq`; `out`/`sent` the client's buffer and how far it was flushed; one action per op between two awaits |
| `Citizen` (extends `Agentd`) | `main()` from the descriptor on, heartbeat, pumps, payload | `main`, `hb`, `pump` are where each coroutine is suspended |
| `Telemetry` | abstract: what is promised about output | `recorded` is a prefix of `written`, the verdict only behind all of it |
| `CitizenTelemetry` | refinement mapping of `Citizen` to `Telemetry` | `recorded` is what the bus client moved to the server |
| `Boot` | delivery, `read_handoff`, `verify_boot`'s comparison, `shred_handoff`, connect, bind | files hold the number of their delivery; one action per file and per stage |
| `Caveats` | predicates, caveats, leases, one hop; `Authorised`, and `walk` by its verdict | a chain is a sequence, ids are places in it |
| `Chain` (extends `Caveats`) | the loop of `walk()`, `verify_boot`, time | `at` and `seen` are the loop's `node` and `seen` |
| `Inbound` (extends `Caveats`) | `envelope.verify`, `accept_inbound` | one action per envelope (no await in it); the walk by its verdict |
| `MergeGate` (extends `Inbound`) | the merge gate, over the chain and the hour of `Inbound` | `wire` is what was seen, `read` how much of it the gate has, `head` what a revision resolves to; a step per commit, for each is a subprocess |
| `Adapter` | `_forward`, a thread per request | `conn[r].at` is where the thread stands, `wire` what it wrote, `calls` is `Adapter.calls` |
| `Session` (extends `Adapter`) | `Session` and `supervision_checks` around it | `drv` the driver, `rd` the reader thread, `frames` and `q` the session's own; the process itself is external |
| `Evidence` | the Acta: records by control and second | `written` is every record, `OnFile` those not replaced |
| `HumanEvidence`, `Enforcement`, `PinCheck`, `IngestLint` (extend `Evidence`) | a control each, with who changes what it reads | `desk`, `embedder`, `probe`, `suite`, `checking`, `lint`: idle, or what the run has read so far |
| `Baseline` | acts, floor touches, grading | `acta` is what can be read; what is torn is as good as gone, since the readers pass over it |
| `Spawn` (extends `Baseline`) | `check`, `prepare`, injection, delivery; several spawns | `phase` per spawn; one action per reading of the corpus |
| `Lifecycle` | `enact.py` | `plan` is what the run has yet to write, one file a step |
| `Publication` (extends `Lifecycle`) | commits, hand edits, the three checks of `hop_findings` | `published` remembers all that any commit held |
| `MC*` | instances for TLC | |
| `*Proofs` | theorems | |

Two specifications are abstract and have something detailed shown against them:
`Telemetry` is implemented by `Citizen` (checked as a property, and proved); and
`Caveats!Authorised` speaks of the *least set* of nodes that leads from the
token's parent upwards and of the union of caveats on it, and demands a verified
signature of every grant there. The loop in `Chain` computes it in all but one
point: it passes over the signature of a grant that names a parent the chain does
not hold (`Dangling`; see [below](#what-the-code-does-not-keep)). That is `walk`,
checked, and proved for all chains. `Inbound` then uses `walk` for the one it
contains, and `MergeGate` refines `Inbound`: what
the gate does leaves the citizen's chain, hour and envelopes alone, so that what
holds of `Inbound` holds there (`GateKeepsTheChain`).

Where a module has a *defect form* of a definition (`HopsForgetting`,
`verify_as_sent`, …), that is a plausible bug of the code. No specification
refers to it: it is there to show that the property listed with it in
`PROJECT.json` notices.

## The runs

Each run answers one question. Times are for two workers. Type invariants are
proved (see [proofs](#proofs)) and so not run again.

**boot** (`Boot`): three deliveries and three starts, on a volume or a read-only
one. Two deliveries are needed to mix files, a third to mix twice; three starts
to crash, be refused and run. `PayloadBehindOneIdentity`: all
three files in memory are of one sound delivery; `NoKeysBesidePayload`;
`SingleUse`: no delivery stands behind two payloads; `ShredOnlyWhatIsHeld`: a
file disappears only under a start that had read and verified its delivery.

**citizen_output** (`MCCitizen`): two lines per stream of both kinds (within the
reader's limit and beyond it), pipes of one line, one disconnection, a descendant
that keeps the pipes, a fair event loop; no peers and no heartbeat, which nothing
here waits for. `ImplementsTelemetry`, the refinement: no gap, no reordering, the
exit behind all output; `CleanExitIsComplete`; `PipeIsDrained`: a full pipe is
drained whatever the other stream does; `CitizenEnds`: once payload and
descendants are gone, so is the citizen. Two lines are the least that can be
reordered, and a pipe of one makes the second wait. 74 000 states, 25 s.

**citizen_socket** (`MCCitizen`): two clients with a request each, no output, one
beat, one disconnection, a buffer of one envelope; clients are symmetric.
`SeqFollowsOrder`, `OkMeansAccepted` (no ok without an envelope of the client's
own), and `CleanExitIsComplete` with clients whose requests are still queued when
the citizen ends. Two clients and the base's own tasks give every
pair of coroutines in `publish()` at once. `GrantNotWidened`, on the side: every
pattern over two words and both wildcards against every subject over two words,
up to three words long. The taxonomy's longest has four, but the comparison is
word by word, and a prefix, a wildcard and one word more or less all occur
within three. And of whatever is in the buffer: the bus grants it by its own
reading, a final newline included, which the regular expressions of
`subjects.py` let through. 854 000 states, 28 s.

**chain** (`MCChain`): every chain of up to two nodes over three leases and none,
grants by the right key and a foreign one, of a parent the chain does not hold or
that cannot be looked up; of three nodes every
shape (cycles, second roots, broken parents included), and on a line every choice
of leases and of grants. Tokens good, foreign, malformed, single-use, of an
unknown fact, with lists and texts where the other is due; boot and envelopes;
again an hour later. Three nodes are the chain
that `mint` makes, and the shortest with a cycle off the token's own parent.
`VerdictIsDue`: accepted if and only if authorised, but for the signature of a
grant that names an absent parent; on a chain that holds every parent named, just
that. `WalkEnds`. 1 787 000 states, 65 s.

**merge** (`MCMergeGate`): of one chain, either its citizen or a merge gate is
followed. For the citizen: the chain as minted with leases of one and two hours,
a root alone, a second lease that lapses first; up to three envelopes of a
hundred, over three hours, with repetition. `AudienceIsBound`: nothing is
received under a predicate on the audience that the subject's own context does
not meet, whatever node of the chain states it; `LapsedChainIsSilent`: from the
hour the chain's lease lapses nothing is received, whenever it was sent;
`PublishedVerifies`: on the other hand, what a leaf of the chain publishes about
this context is received in every hour before. At the last hour the lease itself
still holds (`<=`) and the minted caveat (`<`) does not. For the gate: two
revisions of a branch, two envelopes of eight on the wire (right and wrong trees,
a foreign key, a token without its caveats, no object, no attestation at all),
rewritten in between. `PassedIsAttested`; `RefusedIsDisplaced`: a commit refused
with an attestation on the wire was named again, later and wrongly. Two envelopes
are what displacing takes. 1 010 000 states, 68 s.

**session** (`MCSession`): both turns; a first response of one chunk, which the
interrupt on the first delta can cut before its end, a second that ends or fails at
once; a pipe of one frame; the process may die of itself in the first turn, and
its first line is noise or JSON that is no object.
`Streams`, `RecordedIsWhole`: the adapter; `NoAnswerMissed`: while the driver
waits on the queue, what it waits for is not already behind it;
`AnswerIsOfItsTurn`; `CleanIsComplete`: a session reported clean had read
everything and answered every message; `SupervisionEnds`: the driver comes to a
verdict, a kill or an exception and the reader to its end, though the upstream may
stall for ever and the reader thread may have died with the pipe full. It says
nothing of the CLI, since a kill reaches only the client in front of it
(`KilledIsDown`, [below](#what-the-code-does-not-keep)), and a CLI left behind goes
on holding its connection in the model as in the code. A pipe of
one is the tightest; the end of the response comes before the interrupt or behind
it; one chunk or none tells apart all the second wait can confuse. 762 000 states,
50 s.

**acta** (`MCActa`): a behaviour follows one of the five controls, with whoever
writes what it reads; up to five moments, two to a second, so that two records can
share a file. Three contents of the corpus (one red, one with a claim that has no
moment) over two documents, one claim moving between them; two rulesets with two
changes, two versions and two binaries, two files in six folders (the root with
them, and one within another) with one change and two pull requests. Documents,
markers and rulesets are read one by one, with changes in between, and the embedder
reads its documents twice, for the rows and for the queries, before it emits.
`CoverageIsAttestation`; `EmbeddedIsWhole`: a pass without a gap embedded all that
stood in its document from the queries' beginning to their end and every record on
file when they began; `PassPinsOneBinary`, `ExecutedIsMerged`; `PassedTreeIsSound`,
where one name may stand in two folders, or twice under one;
`StandingBypassIsRefused`. Each property is about one run and what it read before,
possibly another's record: that takes two records, two changes between them, and the
second in which a third replaces one. 1 221 000 states, 35 s.

**spawn** (`MCSpawn`): two spawns of one story with one criterion, three
instances of it, three clock readings in two seconds, one edit of the story, of
the corpus's health or of the story's being there, acts cut off. `NoneIsLetOff`:
the work of a running citizen is green only with evidence for all that its own
spawn pinned, whatever was dropped or revised since and whichever spawns wrote or
died writing beside it, unless a later act pinned anew or another spawn wrote in
the very second of its act (that loss is `ActIsImmutable`,
[below](#what-the-code-does-not-keep)); `ActsAreOfAdmitted`;
`AgentRevisionNotGraded`. Two readings in a second are needed for two acts
under an id, and a third for one that differs. 712 000 states, 9 s.

**lifecycle** (`MCLifecycle`): a control, a specification with its rule and a
restriction with its rule; one decision ratifies all, another retires the
specification; four runs of the tool, each of which may break off; code comes and
goes. `AuthorityEnumeratedIt`: whoever is named as an atom's authority enumerated
its very movement; `NoDanglingClaim`: a claim whose rules sort first is never
active ahead of them; `ReconcileSettles`: a reconciliation that came to its end
leaves the next one nothing. Four runs are ratify, reconcile, retire and one
again.

**publication** (`MCPublication`): a control, which the code alone makes eligible,
and an acceptance criterion of a story in flight; two decisions that ratify, five
instants, commits in between, trees given up, and one edit by hand, to any state,
under any decision's name or none, with old, new or once published version and
moment. `OneActPassesGate`: what one kind of run wrote is let through, also when it
broke off and was repeated, and whatever edits were committed before. Four runs
ratify, reconcile and repeat either. It is claimed of decisions that ratify; one
that retires what the reconciler activated is refused (`retirement_refused.cfg`).
5 290 000 states, 56 s.

**assignment_dropped** and **older_ceremony** are expected to find a
counterexample: see [below](#what-the-code-does-not-keep).

Deadlock is checked except in `spawn`, `chain`, `merge`, `acta`, `publication` and
`assignment_dropped`, where a state with all bounds used up (spawns, hours,
envelopes, moments, edits) has no successor, and in `session`, where a
supervision that is over has none: `SupervisionEnds` says that it stops nowhere
else. `Boot` and `Citizen` have an explicit stuttering end (`Done`, `Ended`)
instead, so a citizen that is stuck anywhere else is an error.

## Fairness

`Citizen`: weak fairness of each coroutine (`main`, heartbeat's publishing, each
pump, each client). The code runs them on one asyncio loop, which runs every
ready callback in turn; an awaited `publish` of the bus client returns or raises.
Nothing is assumed of the payload, its descendants, the peers of the socket or
the bus: they may stop at any moment for ever. Liveness is therefore stated from
a point where only coroutines are needed (a full pipe; a payload that has
exited with no descendant).

`Chain`: weak fairness of the loop's turn: `walk()` is a plain call.

`Session`: weak fairness of the driver and of the reader, two threads that the
interpreter runs in turn; of the adapter's handler where its next step needs no
word from the upstream; and of the process's steps, which are disabled while its
pipe is full. The upstream may stay silent for ever, `urlopen`'s timeout of
300 s aside, and nothing makes the process die. `WaitTimesOut` and `Kill` need no
fairness of their own: the driver's does, since every wait has a deadline.

The other specifications have no fairness, and no liveness is claimed of them.

## Proofs

All theorems are for every value of the constants under the named assumptions of
the modules (`AgentdAssumption`, `CitizenAssumption`, `BootAssumption`,
`ChainAssumption`, `InboundAssumption`, `MergeAssumption`, `AdapterAssumption`,
`SessionAssumption`, `BaselineAssumption`, `SpawnAssumption`,
`LifecycleAssumption`, `EvidenceAssumption`, `HumanAssumption`, `PinAssumption`,
`IngestAssumption`), which TLC evaluates in the runs.

- `CitizenProofs`: `NeverWider`. For patterns and subjects of any length, what the
  citizen takes as granted the bus does too. No induction: both are comparisons at
  every position. `CitizenTyped`, `NumbersFollowOrder`, `OkIsKept`, for any number
  of clients. The invariant `IInv` adds to the types that the wire holds granted
  subjects in the order of their numbers, all at most `seq` (`WireOK`); that the
  number a connection awaits is of its own envelope on the wire (`PendingAccepted`),
  without which `OkMeansAccepted` is not preserved by the answer; and that no more
  requests are queued than were asked. `PublishStep` states what a call of
  `publish()` does once, and every coroutine's proof cites it. `CleanExitReportsAll`
  assumes that the citizen's own report subjects are granted (`ReportsGranted`: the
  grant as minted with a context the taxonomy allows, `MintedGrantCovers`;
  `capture_disabled` shows what happens without). Its invariant `Complete` follows a
  line from the pipe to the buffer (`LinesKept`), says that a pump ends only when
  its pipe has run dry (`PumpsEnd`) and that `main` is past the exit report only
  with the report in the buffer (`ExitReported`); the drain then moves all of it.
  `TheBusGrantsItToo` joins `NeverWider` with the invariant of the wire: the bus
  would let through, by its own reading, all that it was given.
  `CitizenImplementsTelemetry`, under `ReportsGranted` too, is the refinement. Of a
  stream is accepted what was written of it, less what is in the pipe and the line
  on which its pump raised, if it did (`Taken`). `TelemetryInv` says that the pipe
  is numbered on from there (`PipeNumbered`), that the pump's envelopes carry 1, 2,
  3, … in the order of the buffer (`LinesNumbered`), that the flusher, which moves
  whatever the buffer holds, has come to some line (`RecordIsPrefix`), and that the
  exit is in the buffer behind all of them and nothing after it is of a stream
  (`ExitIsLast`, by way of `Complete`). So the initial states map to that of
  `Telemetry`, a write of the payload to its `Write`, a flush or the drain to
  `Record`, and every other step to a stutter. The record maps to a sequence by
  counting (`Cardinality`), so the proof leans on the library's theorems about
  finite sets.
- `BootProofs`: `BootTyped`, `OneIdentity`, `KeysGone`, `HandoffSingleUse`,
  `NoIdentityIsLost`, for any number of deliveries and starts, assuming that the
  files are not mounted one by one (`"files" \notin Mounts`). `BootInv` needs
  `UsedLeftNothing`: a delivery that stood behind a payload has no file left
  anywhere, nor in a start to come.
- `ChainProofs`: `ChainTyped`, `WalkIsRight`, for chains of any length and shape:
  the loop accepts what is due and denies what is not, the signatures of dangling
  grants aside (`DueBut`), which is what is due on a chain without one
  (`NothingIsSpared`).
  The invariant `Walked` says that the nodes behind the walk are on the way, have
  held, and have their parents behind the walk or where it stands. If the walk
  reaches a root, the nodes behind it are closed under parents, so they contain
  the way, which is the least such set; if it comes back to a node, they are
  closed without a root, so the way has none.
- `InboundProofs`: `InboundTyped`, `LapsedIsSilent`, `AudienceHeld`. The invariant
  is that the last envelope received was authorised at the hour it came; the
  audience follows because the walk's own facts never replace it.
  Of the gate: `GateKeepsTheChain`, the refinement of `Inbound`;
  `NothingPassesUnattested`, from the invariant that every verdict so far is
  grounded on the wire (which only grows) and green was said of all revisions;
  `RefusalHasItsReason`, where "the last envelope that names a commit" exists
  because the places on the wire are well-founded.
  `EveryPublishedVerifies`: what became of the last envelope was decided at its
  hour (`LastWasDecided`), and for a chain and a token as `mint` makes them all that
  the walk asks comes to one comparison, of the lease's age with its hours
  (`MintedIsAuthorised`).
- `SessionProofs`: `SessionTyped`, `ResponsesStream`, `SuccessWasWhole`,
  `NoWakeupLost`, `AnswersKeepTheirTurn`, `CleanEndIsComplete`, for responses of
  any length, pipes of any capacity and an interrupt at any delta. `SessionInv` adds
  to the types what a handler has written by where it stands, and that a call is
  recorded once, when it is closed (`ConnOK`, `CallsOK`); where each message is, in
  stdin, in the process or answered by exactly one result, unless the process died
  (`TurnOK`, `CliOK`); what the waits returned, the second past all the driver had
  counted before it asked (`AnswersOK`), so that it cannot be the first one's; and,
  for the queue, that the frame in the reader's hand exists (`QueueOK`), which is
  all that "no wake-up is lost" lacks of being inductive.
- `SpawnProofs`: `SpawnTyped`, `RevisionsAreNotGraded`, `OnlyAdmittedAreRecorded`,
  `RunningIsHeldToItsAct`, for any number of spawns. `IInv` adds that every act,
  built or written, has the id of its second, was built no later than now and pins
  no later instance than the current one (`Sound`), from which acts of one moment
  have one id; `OnlyAdmittedAreRecorded`
  adds, in a second layer, that a spawn past its check was admitted and that an act
  on record is that of a spawn that wrote it. For `RunningIsHeldToItsAct` the layer
  is `Kept`: a spawn that wrote finds its act on record, or another wrote in the
  same second since. Then the newest act is its own or a later one, which needs that
  a newest exists (moments are well-founded) and that two of one moment are one.
- `ActaProofs`: `OneBinaryBehindAPass`, `NoStandingBypassPasses`,
  `CoverageIsWhatWasPassed`, `PassingBuildIsWhole`, `PassedLintIsOfMergedWork`,
  `PassedLintIsOfSoundTree`: the six properties of the run `acta`, for any corpus,
  settings, tree and bound. They have one argument: what a run has read was so when
  it read it, and what was on file before a moment that has passed never changes,
  whoever writes since (`BeforeStays`, from `EvidenceOK`: a record's moment is
  before now). Each control has an invariant that says so of the run it is in and of
  every record it left: `PinOK` and `ProbeOK` of the rows and the capture looked at,
  `HumanOK` of the claim and content on the desk, `IngestOK` of the tree.
  `EmbedderOK` follows the embedder from its rows through the queries: what stood in
  its document all along is read again already or still to be (`Querying`), so that
  at the end the rows hold it (`Held`), or a gap is recorded and no pass. In
  `IngestOK`, what nobody moved is listed or in a folder still to be listed
  (`Listed`), a lookup that said merged stays true (`Resolved`, since merged is
  final), and what is past its lookup is of merged work (`Coherence`). A newest
  record exists, for the probe, because moments are well-founded.
- `LifecycleProofs`, of the tool: `LifecycleTyped`, `SignatureAttestsItsEffects`,
  `OneRunSettles`, and `ClaimsAreBound`, the last under the assumption `RulesStay`
  (no decision moves a rule past `active`). The invariants say the same of what is
  planned as of what is written; for claims, also that a planned activation has its
  rule written or planned at a smaller rank; for a reconciliation, that all it still
  has to activate is planned, and that it plans nothing else (`SettlesInv`).
  Of the tree that people edit, commit and discard (`Publication`):
  `ActsPassTheGate`, under the one assumption that decisions take off the way to
  `active` only claims no rule binds (`RetiresTheUnbound`); `retirement_refused.cfg`
  is the counterexample without it. Edits by hand may restore any published
  identity and name any authority. What the tool then writes is let through because
  its moment is new: no instance in tree, commit or history is of a moment to come
  (`MomentsInv`), so its identity is nobody's. `ActInv` adds who stands behind what
  (`AuthorsInv`: the reconciler behind activations alone, a decision behind all the
  tool has yet to write) and how far a tree may be from its commit by what wrote to
  it since (`DistanceInv`): after ceremonies alone, by later and signed acts; after
  reconciliations alone, by later transitions and nothing else; in both, with a
  decision behind them, which is what is asked of criteria in flight.

Only model-checked is liveness (`PipeIsDrained`, `CitizenEnds`, `WalkEnds`,
`SupervisionEnds`), which the prover does not handle, nor `ENABLED`. Every
invariant and every action property of the runs that hold is a theorem, and the
refinement of `Telemetry` with them. No module uses recursion: what `walk()` does by a
loop is a machine, and its reference a least set.

## What the code does not keep

Statements of the repository's documents and comments that the models
contradict. Each is a property beside the others of its module, quoted with its
source in the comment there. The first two are runs that expect the
counterexample. A name with `.cfg` is a configuration kept beside them, to be run
by hand; otherwise put the property named in place of those of the run's
configuration (P: as a `PROPERTY`, else as an `INVARIANT`). Each ends in a
counterexample.

| How | Statement | What happens |
|---|---|---|
| `assignment_dropped.cfg` | envelope.py:84-85 "for subjects that carry no context the caller supplies it"; DOC-0004:76 "subscribe on `work.story.<S>.assign`" | that subject is the only one a citizen subscribes to, and `accept_inbound` supplies no audience: under a minted token every assignment is dropped |
| `older_ceremony.cfg` | enact.py:42-45 "Forward progress only" | terminal states have no order, so re-running an older ceremony takes a deprecated atom back to ratified |
| `heartbeat_dies.cfg` | DOC-0003:147 "Signed, every 30 s" | one publish that raises while disconnected ends the task for good |
| `descriptor_refused.cfg` | init.py:4 "any step failing exits non-zero" | a refusal is an answer, which nobody reads |
| `capture_disabled.cfg` | init.py:153-154 "No L0 configuration disables this" | an upper-case `L0_CONTEXT` puts all output outside the taxonomy |
| `boot_mounted_files.cfg` | init.py:77-78 "then unlinked" | mount points cannot be unlinked, which is logged only |
| `unsigned_grant.cfg` | chainverify.py:127 "verifying each hop"; ENT-094, fail-closed | a grant that names a parent the chain does not hold passes unverified, whoever signed it (184-186) |
| `drop_uncounted.cfg` | agentd.py:59 "dropped, counted" | a sender that is no object raises past the counter |
| `retirement_refused.cfg` | enact.py:306-308 | a decision over an atom the reconciler activated leaves its name on a changed authority, which CI refuses |
| `identity_restored.cfg` | DOC-0000:125-128 "true-at-its-time forever" | neighbours are compared, not the history |
| acta with `MaxNow = 6`: `NewestSightCounts` (P) | enforcement/run.py:106 "somebody with sight of it recorded no bypass" | a capture that saw an actor is replaced by a record of the same second, and an older one counts |
| citizen_output: `ExitIsReported` (P) | init.py:15-16 "reap orphans and emit the final telemetry event" | a descendant holding the pipes keeps the exit from being reported |
| citizen_output: `OutputNeverEndsCitizen` | DOC-0003:153-154 "captured by the base and published" | a line beyond the reader's limit ends the citizen |
| citizen_socket: `FailedOpAnswers` | agentd.py:95 "a failed op answers" | a request beyond the limit gets no answer |
| merge: `RaisesNothing` | merge_gate.py:63 "raises nothing — a refusal is data" | an envelope whose data, or sender, is a value but no object raises |
| merge: `AttestedIsAdmitted` | gates/run.py:817 "the merge gate admits an attested commit" | a later envelope that names the commit and does not verify replaces the attestation |
| session: `OneStatusLine` | adapter_proxy.py:109 "a proxy failure is a 502" | an upstream that fails within the response puts a second status line into the body |
| session: `InFlightWhenInterrupted` (P) | gates/run.py:1108 "that generation was still running when the interrupt was sent" | decided by the results read so far; the turn may have ended with its result still in the pipe |
| session: `KilledIsDown` (P) | supervise.py:131 "session did not end on stdin close; killed" | the signal ends the `docker run -i` client; the container and its CLI run on |
| spawn: `ActIsImmutable` (P) | baseline.py:17-18 "an immutable record" | ids hold a second; the second act replaces the first |
| spawn: `AgentRevisionMovesNothing` (P) | baseline.py:25-26 "do not move what the work is graded against" | a revision after a ratification hides the ratified instance, and the pin governs again |
| spawn: `NoRecordWithoutSpawn` | baseline.py:78-79 "a false provenance entry" | the act is written before the steps that may fail |
| spawn: `CitizenKnowsItsStory` | spawn.py:61-63 "Either must resolve" | the injection looks the kebab form up as an id |
| lifecycle: `DraftIsSubmitted` (P) | DOC-0000:578-579 | a draft is ratified without being submitted |
| lifecycle: `DanglingReadsZero` | DOC-0000:670-672 "dangling claims reads zero at every activation" | RSTR- sorts before RULE-, and a pass may break off in between |
| older_ceremony: `CeremonyConverges` (P) | test_enact.py:175 "must converge" | a deprecating effect is written again on each run |
| publication: `AmenderIsAuthor` (P) | atom_lint.py:489-492 | an amendment with only a new timestamp is nobody's finding |
| publication: `CommittedIsEnumerated` | DOC-0000:579 "Decision atom with matching effects entry" | of an edit by hand CI asks at most that some decision be named, not that it enumerated the movement |
| acta: `LatestVerdictCounts`; with `MaxNow = 6`: `LatestRecordCounts` | DOC-0000:405-408 (ONT-046) "latest evidence … verdict pass" | any pass on file counts, also under a later fail |
| acta: `AppendOnly` | the Acta is append-only (the same place) | a record of the same second replaces the earlier one |
| acta: `SeenBypassIsRefused` (P) | enforcement/run.py:188 "no actor may bypass the ruleset" | a run that saw an actor in one ruleset and could not read another falls back on an older record and may pass |
| acta: `CaptureSawSomething` (P) | enforcement/run.py:194 "never assumed empty" | with no ruleset applied or no answer, an empty scope is recorded as seen |
| acta: `BumpIsVerified` | cli_pin_check.py:6 "re-verified on every bump" | rows of an older version stay and fail the check after a bump, though nothing of the new one is wrong |
| acta: `SubjectWasChecked` | cli_pin_check.py:150 | the declaration is read again for the record, and may be another by then |
| acta: `EveryFileIsLinted` | ingest_lint.py:85 "Every file under the ingest root" | one moved while the folders are listed is in none of them |
| acta: `ListedExecutedIsMerged` | ingest_lint.py:260 "Fail closed" | a file that cannot be read has no reference, and is passed |

## Assumptions and omissions

- *Crypto*: a signature is whose it is, and valid for what was signed. Keys,
  canonical forms and encodings are left out; so are values of facts other than
  numbers (the comparison operators treat them alike).
- *Chains*: ids are distinct; a lease has an `issued_at` (without one `walk`
  raises a KeyError, which ends the boot as a denial does, with another status), and a
  node an id, so a citizen that got past boot holds no chain without; times are whole
  hours. A chain's nodes hold what was signed, or else a signer of None. What cannot
  be looked up (a list for a parent, a fact or an operator) raises; in `Chain` that
  is a denial, in `Inbound` and `MergeGate` an outcome of its own.
- *Inbound*: the verifier is given the citizen's own chain, as the code does; the
  `now` fact is the envelope's `sent_at`, as in the code. `mint` makes a fresh
  chain for every leaf; the peers of the instance are leaves below the same
  lease, the only ones the code could accept.
- *Bus*: a disconnected client buffers up to its limit and raises beyond; what it
  took arrives in order. The server's own storage and fan-out are external.
- *Boot*: a delivery's chain is sound or not; how that is decided is `Chain`.
- *Spawn*: refusals of `check` are one flag per kind; docker, volumes' names and
  teardown are outcomes. An act cut off leaves a file that does not parse. An
  agent's revision carries no `authorized_by`.
- *Lifecycle*: one run of the tool at a time on one tree, which breaks off between
  two files: a `write_text` torn within one (enact.py:185-187) leaves no corpus to
  reason about. Resolution of claims is read once, when the plan is made, so it is
  as good as fixed during a run (`CodeMoves` waits). A decision names a
  target once; decisions' own instances, evidence records and dry runs are left
  out; of the re-lint only the authority rule.
- *Publication*: an edit by hand changes one atom, in any mix of identity fields,
  state, authority and content; whoever moves a state by hand signs as its author
  (under the reconciler's name the tool's next act over it would be refused, as in
  `retirement_refused.cfg`). Which criteria are in flight is fixed. Atoms are not
  deleted and added again (`prior is None`, which CI passes over). Commits are those
  CI lets through.
- *Merge gate*: the repository is the tree of each commit; a lease is as old as it
  is when a commit is checked. Envelopes on the wire are whole. A `git` that fails on
  a revision ends the gate with an error and no verdict.
- *Session*: the process behind init is external and modelled from what the suite
  says of the CLI: a message is replayed first, a frame per event, a result per
  turn, an acknowledgement per interrupt. It may be interrupted in any turn. The
  `stderr` reader and the helpers that take text out of frames keep nothing the
  waits look at.
- *Adapter*: headers and the attached credential are left out (they never change);
  one chunk is one `read(1024)`; an error answer is a status line and a body, which
  may break off between the two.
- *Acta*: a corpus is one of a few contents and its own digest, which covers no
  evidence; what lint finds in it, what a marker's text says and which pull
  requests a reference names are constants. The embedder's vectors, search and
  counts, and the printed reports, are left out. A record's note and title too, and a
  record whose JSON is torn. Documents and markers are read in any order, where the
  code sorts them: what may have moved in between is the same. The ids of evidence
  records are read at once, since nothing in the model deletes one.
- Not modelled, with reasons, in `PROJECT.json`: the suites but for three parts of
  two of them (they start containers and assert on what they observe), the
  lint's schema and reference rules, the generators, images and documents.

Bounds (`MaxLines`, `MaxRuns`, `MaxNow`, …) end up in guards and in the ranges of
types; the proofs hold for every value of them.

## Plan

What is left, in order:

1. Composition of `Boot` with `Chain` (the verdict instead of `sound`) and of
   `Citizen` with `Inbound` (the subscription's callback on the loop).
2. `Publication`'s `InFlight` from `Baseline`'s acts, instead of fixed; schema and
   reference rules of the lint as operators over bounded corpora.
3. The citizenship and chain suites' drivers, as `supervision_checks` is one.
4. Proofs for what the first three bring.
