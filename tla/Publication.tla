---------------------------- MODULE Publication -----------------------------
(***************************************************************************)
(* Instances are published by commits, and CI compares every commit with   *)
(* the one before (platform/tools/atom_lint.py --since, hop_findings).     *)
(* The ceremony tool and people write the tree that is committed.          *)
(***************************************************************************)
EXTENDS Lifecycle

CONSTANTS
  InFlight,    \* the acceptance criteria of stories in flight
  MaxEdits     \* bound: edits by hand

ASSUME PublicationAssumption == InFlight \subseteq Claim /\ MaxEdits \in Nat

VARIABLES
  committed,   \* the last commit's tree
  published,   \* every <<atom, instance>> some commit held
  wrote,       \* what wrote to the tree since: "effects", "reconcile", "hand"
  edits        \* edits made

publicationVars == <<committed, published, wrote, edits>>
vars == <<lifecycleVars, publicationVars>>

InstancesIn(tree) == {<<a, tree[a]>> : a \in Atom}

Init ==
  /\ LifecycleInit
  /\ committed = corpus
  /\ published = InstancesIn(corpus)
  /\ wrote = {}
  /\ edits = 0

-----------------------------------------------------------------------------
Identity(i) == <<i.version, i.at>>

(* atom_content_hash leaves the identity out; _changed_beyond_lifecycle    *)
(* leaves out state and author as well.                                    *)
SameContent(i, j) ==
  \A f \in {"state", "author", "authorized_by", "content"} : i[f] = j[f]
ChangedBeyondLifecycle(i, j) == i.authorized_by # j.authorized_by \/ i.content # j.content

(* SPEC-0113: a published instance edited in place.                        *)
EditedInPlace ==
  {a \in Atom : Identity(corpus[a]) = Identity(committed[a])
                  /\ ~SameContent(corpus[a], committed[a])}

(* SPEC-0119: a new version under the old moment, or an amendment under    *)
(* the reconciler's name.                                                  *)
provenance_findings ==
  {a \in Atom :
     LET i == corpus[a]  j == committed[a]
     IN i.version # j.version
          /\ (i.at = j.at \/ (i.author = "reconciler" /\ ChangedBeyondLifecycle(i, j)))}

(* SPEC-0127: criteria that moved without a decision behind them.          *)
acceptance_edit_findings ==
  {a \in InFlight : ~SameContent(corpus[a], committed[a]) /\ corpus[a].authorized_by = NoOne}

(* The atoms a finding would name.                                         *)
hop_findings == EditedInPlace \cup provenance_findings \cup acceptance_edit_findings

-----------------------------------------------------------------------------
(* The tool's steps are Lifecycle's; a file it writes is on record here.   *)
ToolWrites ==
  /\ ToolStep
  /\ wrote' = IF corpus' # corpus THEN wrote \cup {mode} ELSE wrote
  /\ UNCHANGED <<committed, published, edits>>

(* Somebody edits an atom by hand: submits it, names an authority for it,  *)
(* or says something else, under any mix of old, new and once published    *)
(* identity fields.  Whoever moves the state by hand signs as its author.  *)
HandEdits(a) ==
  LET i == corpus[a]
      known == {p[2] : p \in {q \in published : q[1] = a}}
  IN
  /\ Idle /\ edits < MaxEdits
  /\ clock' = clock + 1
  /\ edits' = edits + 1
  /\ \E s \in State,
        v \in {i.version, bump(i.version, FALSE)} \cup {j.version : j \in known},
        t \in {i.at, clock + 1} \cup {j.at : j \in known},
        w \in {i.author, "author"},
        z \in Decision \cup {NoOne},
        c \in {i.content, edits + 1} :
       /\ w = "reconciler" => s = i.state
       /\ corpus' = [corpus EXCEPT ![a] = [state |-> s, version |-> v, at |-> t, author |-> w,
                                           authorized_by |-> z, content |-> c]]
  /\ corpus' # corpus
  /\ wrote' = wrote \cup {"hand"}
  /\ UNCHANGED <<resolves, mode, plan, committed, published>>

(* A commit that CI lets through, and a tree given up.                     *)
Commits ==
  /\ Idle /\ Green
  /\ corpus # committed /\ hop_findings = {}
  /\ committed' = corpus
  /\ published' = published \cup InstancesIn(corpus)
  /\ wrote' = {}
  /\ UNCHANGED <<lifecycleVars, edits>>

Discards ==
  /\ Idle /\ corpus # committed
  /\ corpus' = committed
  /\ wrote' = {}
  /\ UNCHANGED <<resolves, mode, plan, clock, committed, published, edits>>

Next ==
  \/ ToolWrites
  \/ CodeMoves /\ UNCHANGED publicationVars
  \/ \E a \in Atom : HandEdits(a)
  \/ Commits \/ Discards

Spec == Init /\ [][Next]_vars

-----------------------------------------------------------------------------
(* What the tool writes passes the gate it will be merged through, as long *)
(* as a signed act and the law operating are committed apart (D34): also   *)
(* when a run broke off, was run again, or several decisions were enacted, *)
(* and whatever edits by hand were committed before.  It is claimed of     *)
(* decisions that take nothing off the way to `active` that the reconciler *)
(* may have activated: publication.cfg checks decisions that ratify, and   *)
(* retirement_refused.cfg shows the gate refusing one that retires.        *)
OneActPassesGate == wrote \in {{}, {"effects"}, {"reconcile"}} => hop_findings = {}

-----------------------------------------------------------------------------
(* Statements of the repository that the code does not keep.               *)

(* ONT-015, DOC-0000:125-128 "the prior instance remains addressable and   *)
(* true-at-its-time forever": over the whole history, what a (version,     *)
(* instantiated_at) said once it always says.  The gate compares a commit  *)
(* with its neighbour only (identity_restored.cfg).                        *)
IdentityIsContent ==
  \A p, q \in published :
    p[1] = q[1] /\ Identity(p[2]) = Identity(q[2]) => SameContent(p[2], q[2])

(* DOC-0000:579 "proposed -> ratified | Decision atom with matching effects *)
(* entry", of a commit: what names a decision was moved by it.  The tool   *)
(* keeps this (Lifecycle); the gate asks of an edit by hand only that some *)
(* decision be named.                                                      *)
CommittedIsEnumerated ==
  corpus = committed => AuthorityEnumeratedIt

(* atom_lint.py:489-492 "an amendment is authored by whoever amended it    *)
(* (ONT-010)": what a commit changes under the reconciler's name is a      *)
(* lifecycle transition and no more.                                       *)
AmenderIsAuthor ==
  [][\A a \in Atom :
       committed'[a] # committed[a] /\ committed'[a].author = "reconciler"
         => ~ChangedBeyondLifecycle(committed'[a], committed[a])]_vars
=============================================================================
