----------------------------- MODULE MergeGate ------------------------------
(***************************************************************************)
(* The merge gate (platform/harness/merge_gate.py): commits are let        *)
(* through by the envelopes a session was seen to publish.  It holds the   *)
(* same chain as a citizen and nothing else of its state, so a behaviour   *)
(* follows either the citizen (Inbound) or the gate.  The gate reads the   *)
(* wire once, then a commit at a time, by subprocess, while time passes    *)
(* and the branch under review may be rewritten.                           *)
(***************************************************************************)
EXTENDS Inbound

CONSTANTS
  Attestations,   \* what is seen on the wire
  Revs,           \* the revisions asked about
  Commits,        \* what they may name
  Branch,         \* what they name at first
  TreeOf,         \* the tree of a commit
  MaxWire         \* bound: envelopes seen

(* kind: whether the payload is an attestation.  data: whether its data is *)
(* an object; then commit and tree are what it names, None for nothing.    *)
Attestation == [env : Envelope, kind : BOOLEAN, data : BOOLEAN, commit : Nat, tree : Nat]

ASSUME MergeAssumption ==
  /\ Attestations \subseteq Attestation /\ Revs \in Seq(Nat)
  /\ None \notin Commits /\ Commits \subseteq Nat /\ TreeOf \in [Commits -> Nat]
  /\ Branch \in [{Revs[i] : i \in DOMAIN Revs} -> Commits]
  /\ MaxWire \in Nat

VARIABLES
  role,       \* which holder of the chain is followed
  wire,       \* the envelopes seen, oldest first
  head,       \* the commit a revision resolves to, or None
  read,       \* how much of the wire the gate has read
  verdicts,   \* its verdicts so far
  gated       \* where the gate is, and its answer

gateVars == <<wire, head, read, verdicts, gated>>
allVars == <<vars, role, gateVars>>
Known == {Revs[i] : i \in DOMAIN Revs}

GateInit ==
  /\ Init
  /\ role \in {"citizen", "gate"}
  /\ wire = <<>> /\ read = 0 /\ verdicts = <<>> /\ gated = "idle"
  /\ head = Branch

Seen(a) ==
  /\ Len(wire) < MaxWire
  /\ wire' = Append(wire, a)
  /\ UNCHANGED <<head, read, verdicts, gated>>

Rewritten(rev, c) ==
  /\ head[rev] # c
  /\ head' = [head EXCEPT ![rev] = c]
  /\ UNCHANGED <<wire, read, verdicts, gated>>

(* Where in what was read a commit is named. *)
Naming(c) == {i \in 1..read : wire[i].kind /\ wire[i].commit = c}

(* Defect form: the first envelope that names a commit is the one kept.    *)
attested_first(c) == {wire[i] : i \in {j \in Naming(c) : \A k \in Naming(c) : j <= k}}

(* attestations_from, looked up: the last envelope that names the commit,  *)
(* if one does.                                                            *)
attested(c) == {wire[i] : i \in {j \in Naming(c) : \A k \in Naming(c) : k <= j}}

(* The wire is read: data that is a value but no object raises. *)
Begins ==
  /\ gated = "idle"
  /\ IF \E i \in DOMAIN wire : wire[i].kind /\ ~wire[i].data
       THEN gated' = "raised" /\ UNCHANGED read
       ELSE gated' = "checking" /\ read' = Len(wire)
  /\ UNCHANGED <<wire, head, verdicts>>

(* The envelope's own facts, of an act of publishing. *)
publish_facts(m) == [op_facts(m) EXCEPT !["action"] = Publish]

Verified(m) ==
  /\ Evaluable(m) /\ m.subject # None
  /\ walk(chain, m.token, m.leaf, publish_facts(m), now)

(* Defect form: the tree an attestation names is not looked at.            *)
AdmitsAnyTree(c) == \E a \in attested(c) : Verified(a.env)

Admits(c) == \E a \in attested(c) : Verified(a.env) /\ a.tree = TreeOf[c]

(* One commit: its identity is read now, and a lease is as old as it is    *)
(* now.  git fails on a revision that names nothing (CalledProcessError).  *)
Checks ==
  /\ gated = "checking" /\ Len(verdicts) < Len(Revs)
  /\ LET c == head[Revs[Len(verdicts) + 1]] IN
     \/ /\ c = None \/ \E a \in attested(c) : Raises(a.env) \/ MayRaise(a.env)
        /\ gated' = "raised" /\ UNCHANGED verdicts
     \/ /\ c # None /\ ~\E a \in attested(c) : Raises(a.env)
        /\ verdicts' = Append(verdicts, [commit |-> c, ok |-> Admits(c), at |-> now])
        /\ UNCHANGED gated
  /\ UNCHANGED <<wire, head, read>>

(* gate: green, or MergeRefused with every commit that failed. *)
Answers ==
  /\ gated = "checking" /\ Len(verdicts) = Len(Revs)
  /\ gated' = IF \A i \in DOMAIN verdicts : verdicts[i].ok THEN "green" ELSE "refused"
  /\ UNCHANGED <<wire, head, read, verdicts>>

GateStep ==
  \/ \E a \in Attestations : Seen(a)
  \/ \E rev \in Known, c \in Commits \cup {None} : Rewritten(rev, c)
  \/ Begins \/ Checks \/ Answers

GateNext ==
  /\ \/ role = "citizen" /\ Next /\ UNCHANGED gateVars
     \/ role = "gate" /\ TimePasses /\ UNCHANGED gateVars
     \/ role = "gate" /\ GateStep /\ UNCHANGED vars
  /\ UNCHANGED role

GateSpec == GateInit /\ [][GateNext]_allVars

-----------------------------------------------------------------------------
(* ES-013 of one attestation at one hour, as the walk has it. *)
Attests(a, c, hour) ==
  /\ a.kind /\ a.commit = c /\ a.tree = TreeOf[c]
  /\ Evaluable(a.env) /\ a.env.subject # None
  /\ walk(chain, a.env.token, a.env.leaf, publish_facts(a.env), hour)

(* SPEC-0084, "a commit passes only when an attestation exists for it":    *)
(* whatever was rewritten or seen meanwhile, each commit the gate passed   *)
(* has on the wire an envelope that names it and its own tree and was      *)
(* authorised, by an unlapsed chain, at the hour it was looked at; and     *)
(* green is said of all the revisions asked about.                         *)
PassedIsAttested ==
  /\ gated = "green" => Len(verdicts) = Len(Revs) /\ \A i \in DOMAIN verdicts : verdicts[i].ok
  /\ \A i \in DOMAIN verdicts : verdicts[i].ok =>
       /\ \E k \in DOMAIN wire : Attests(wire[k], verdicts[i].commit, verdicts[i].at)
       /\ Leased(chain) # {} => Fresh(FirstLease(chain), verdicts[i].at)

(* Refused work is unattributed, or was contradicted: an envelope that     *)
(* attests a refused commit was followed, on the wire the gate had read,   *)
(* by one that names the commit and does not attest it.                    *)
RefusedIsDisplaced ==
  \A i \in DOMAIN verdicts : ~verdicts[i].ok =>
    LET c == verdicts[i].commit
        good(k) == Attests(wire[k], c, verdicts[i].at)
    IN \A k \in Naming(c) : good(k) => \E j \in Naming(c) : k < j /\ ~good(j)

-----------------------------------------------------------------------------
(* Statements of the repository that the code does not keep.               *)

(* merge_gate.py:63 "raises nothing — a refusal is data". *)
RaisesNothing == gated # "raised"

(* suite/gates/run.py:817 "the merge gate admits an attested commit". *)
AttestedIsAdmitted ==
  \A i \in DOMAIN verdicts :
    (\E k \in Naming(verdicts[i].commit) : Attests(wire[k], verdicts[i].commit, verdicts[i].at))
      => verdicts[i].ok
=============================================================================
