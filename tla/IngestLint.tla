----------------------------- MODULE IngestLint -----------------------------
(***************************************************************************)
(* The ingest lint (platform/tools/ingest_lint.py) over a tree outside     *)
(* every repository, whose files people move by hand while it runs: it     *)
(* lists the folders, reads each file's head for the marker, each file     *)
(* again for its reference, resolves pull requests over the network, and   *)
(* records a verdict.                                                      *)
(***************************************************************************)
EXTENDS Evidence, Sequences

CONSTANTS
  Names,      \* of files
  Marker,     \* per name, the type it declares, or Unmarked
  Ref,        \* per name, the pull requests its reference names; Unmarked if it has none
  PRs,
  Unmarked,
  Order,      \* the directories in use, as the file system lists them; "" is the root itself
  Top,        \* per directory, the folder under the root it is in, itself or deeper
  MaxMoves    \* bound: changes to the tree

LIFECYCLE == {"proposed", "active", "executed", "parked", "withdrawn"}
Folder == {Order[i] : i \in DOMAIN Order}
KNOWN_FOLDERS == LIFECYCLE \cup {"artifacts"}
ARTIFACT_TYPES == {"artifact"}
INSTRUCTION_TYPES == {"instruction", "initiator", "decision", "posture", "plan", "manifest"}

(* A reference that cannot be read names nothing. *)
ASSUME IngestAssumption ==
  /\ Order \in Seq(STRING)
  /\ Top \in [Folder -> STRING]
  /\ \A f \in Names : Ref[f] = Unmarked \/ Ref[f] \subseteq PRs
  /\ Unmarked \notin INSTRUCTION_TYPES

VARIABLES
  place,      \* per name, the directories with such a file
  prs,        \* the state of each pull request
  moves,      \* changes so far
  lint        \* idle, or a run and what it has read

ingestVars == <<place, prs, moves, lint>>
Off == [at |-> "off"]

IngestInit ==
  /\ EvidenceInit
  /\ place \in [Names -> {{d} : d \in Folder}]
  /\ prs \in [PRs -> {"open", "merged"}]
  /\ moves = 0
  /\ lint = Off

(* mv, cp or rm of one file; moved is for the properties. *)
Rearranged(f, folders) ==
  /\ moves < MaxMoves /\ folders # place[f]
  /\ place' = [place EXCEPT ![f] = folders]
  /\ moves' = moves + 1
  /\ lint' = IF lint = Off THEN lint ELSE [lint EXCEPT !.moved = @ \cup {f}]
  /\ UNCHANGED <<evidenceVars, prs>>

PullRequestMoves(n) ==
  /\ prs[n] # "merged"
  /\ prs' = [prs EXCEPT ![n] = IF @ = "open" THEN "merged" ELSE "open"]
  /\ UNCHANGED <<evidenceVars, place, moves, lint>>

PullRequestCloses(n) ==
  /\ prs[n] = "open"
  /\ prs' = [prs EXCEPT ![n] = "closed"]
  /\ UNCHANGED <<evidenceVars, place, moves, lint>>

-----------------------------------------------------------------------------
Starts(refs) ==
  /\ lint = Off
  /\ lint' = [at |-> "list", refs |-> refs, left |-> Order, entries |-> {}, resolved |-> <<>>,
              sound |-> TRUE, moved |-> {}]
  /\ UNCHANGED <<evidenceVars, place, prs, moves>>

(* scan: rglob, a directory at a time; all are listed before any is read. *)
ListsFolder ==
  /\ lint.at = "list" /\ lint.left # <<>>
  /\ lint' = [lint EXCEPT
       !.left = Tail(@),
       !.entries = @ \cup {<<f, Head(lint.left)>> : f \in {g \in Names : Head(lint.left) \in place[g]}}]
  /\ UNCHANGED <<evidenceVars, place, prs, moves>>

folder(e) == Top[e[2]]

(* Defect form: what counts is in how many folders, not how often, it is.  *)
Duplicated_folders(entries) ==
  \E e, x \in entries : /\ e[1] = x[1] /\ folder(e) # folder(x)
                        /\ {folder(e), folder(x)} \subseteq LIFECYCLE

Duplicated(entries) ==
  \E e, x \in entries : e[1] = x[1] /\ e # x /\ {folder(e), folder(x)} \subseteq LIFECYCLE

(* The marker of one entry, and what it may be in its folder; a file that  *)
(* is gone by now has an unknown one.                                      *)
MarkerFits(e) ==
  /\ e[2] \in place[e[1]]
  /\ \/ folder(e) = "artifacts" /\ Marker[e[1]] \in ARTIFACT_TYPES \cup {Unmarked}
     \/ folder(e) \in LIFECYCLE /\ Marker[e[1]] \in INSTRUCTION_TYPES

(* Nothing listed is not a pass, and is not recorded. *)
Scanned ==
  /\ lint.at = "list" /\ lint.left = <<>>
  /\ lint' = IF lint.entries = {} THEN Off
             ELSE [lint EXCEPT !.at = "marks", !.left = lint.entries]
  /\ UNCHANGED <<evidenceVars, place, prs, moves>>

(* marker_of, a file at a time, in the order of their paths, here in any.  *)
ReadsMarker(e) ==
  /\ lint.at = "marks" /\ e \in lint.left
  /\ lint' = [lint EXCEPT !.left = @ \ {e}, !.sound = @ /\ MarkerFits(e)]
  /\ UNCHANGED <<evidenceVars, place, prs, moves>>

(* findings_for, of what was listed and read. *)
Grades ==
  /\ lint.at = "marks" /\ lint.left = {}
  /\ lint' = [lint EXCEPT
       !.at = "refs", !.left = IF lint.refs THEN lint.entries ELSE {},
       !.sound = @ /\ ~Duplicated(lint.entries) /\ \A e \in lint.entries : folder(e) \in KNOWN_FOLDERS]
  /\ UNCHANGED <<evidenceVars, place, prs, moves>>

(* ref_of, at a later time; what cannot be read has no reference. *)
ref_of(e) == IF e[2] \in place[e[1]] THEN Ref[e[1]] ELSE Unmarked

(* Defect form: one pull request that is merged is enough.                 *)
Coherent_any(d, states) ==
  d = "executed" => "merged" \in states

(* Defect form: what could not be resolved is passed over.                 *)
Coherent_open(d, states) ==
  d = "executed" => states \subseteq {"merged", "error"} /\ states # {}

(* The folder against the states of the pull requests; {} is a story alone. *)
Coherent(d, states) ==
  /\ "error" \notin states
  /\ d = "executed" => states = {"merged"}
  /\ d = "active" => "merged" \notin states
  /\ d = "proposed" => states \cap {"open", "merged"} = {}

(* pr_state, asked once a run for each number; the network may fail. *)
Resolutions(ns) ==
  {g \in [ns -> {"open", "merged", "closed", "error"}] :
     \A n \in ns : IF n \in DOMAIN lint.resolved THEN g[n] = lint.resolved[n]
                   ELSE g[n] \in {prs[n], "error"}}

Coheres(e) ==
  /\ lint.at = "refs" /\ e \in lint.left
  /\ IF ref_of(e) = Unmarked \/ folder(e) \notin LIFECYCLE
       THEN lint' = [lint EXCEPT !.left = @ \ {e}]
       ELSE \E g \in Resolutions(ref_of(e)) :
              lint' = [lint EXCEPT
                !.left = @ \ {e},
                !.resolved = [n \in DOMAIN @ \cup DOMAIN g |-> IF n \in DOMAIN g THEN g[n] ELSE @[n]],
                !.sound = @ /\ Coherent(folder(e), {g[n] : n \in DOMAIN g})]
  /\ UNCHANGED <<evidenceVars, place, prs, moves>>

(* Where each file has stood since the run began, and what is recorded.    *)
Stood == {e \in (Names \ lint.moved) \X Folder : e[2] \in place[e[1]]}

LintEmits ==
  /\ lint.at = "refs" /\ lint.left = {}
  /\ Save(Record("ctrl0010", "tree", lint.sound,
                 [refs |-> lint.refs, entries |-> lint.entries, stood |-> Stood,
                  there |-> {f \in Names : place[f] # {}}]))
  /\ lint' = Off
  /\ UNCHANGED <<place, prs, moves>>

IngestNext ==
  \/ \E f \in Names, d, e \in Folder :
       Rearranged(f, (place[f] \ {d}) \cup {e}) \/ Rearranged(f, place[f] \cup {e})
         \/ Rearranged(f, place[f] \ {d})
  \/ \E n \in PRs : PullRequestMoves(n) \/ PullRequestCloses(n)
  \/ \E refs \in BOOLEAN : Starts(refs)
  \/ ListsFolder \/ Scanned \/ Grades \/ LintEmits
  \/ \E e \in Names \X Folder : ReadsMarker(e) \/ Coheres(e)
  \/ TimePasses /\ UNCHANGED ingestVars

IngestSpec == IngestInit /\ [][IngestNext]_<<evidenceVars, ingestVars>>

-----------------------------------------------------------------------------
Linted == {r \in written : r.control = "ctrl0010"}

(* "a file's folder must agree with the state of the work": behind a pass  *)
(* that looked at references, whatever else was moved, merged, closed or   *)
(* unresolved during the run, a file that stood in executed/ names only    *)
(* merged work, and some, or has no reference at all.                      *)
ExecutedIsMerged ==
  \A r \in Linted : Passed(r) /\ r.body.refs =>
    \A e \in r.body.stood : folder(e) = "executed" /\ Ref[e[1]] # Unmarked =>
      Ref[e[1]] # {} /\ \A n \in Ref[e[1]] : prs[n] = "merged"

(* "one instruction has one state": behind any pass, a file that nobody    *)
(* moved was in known folders only, in the lifecycle once, however deep,   *)
(* and there if and only if its marker says it is an instruction; whatever *)
(* was moved, copied or removed beside it while the run listed and read.   *)
PassedTreeIsSound ==
  \A r \in Linted : Passed(r) =>
    \A e, x \in r.body.stood : e[1] = x[1] =>
      /\ folder(e) \in KNOWN_FOLDERS
      /\ e = x \/ {folder(e), folder(x)} \cap {"artifacts"} # {}
      /\ (folder(e) \in LIFECYCLE) <=> (Marker[e[1]] \in INSTRUCTION_TYPES)

-----------------------------------------------------------------------------
(* Statements of the repository that the code does not keep.               *)

(* ingest_lint.py:85 "Every file under the ingest root": one that is moved *)
(* while the folders are listed, into one that was, is in none of them.    *)
EveryFileIsLinted ==
  \A r \in Linted : Passed(r) => r.body.there \subseteq {e[1] : e \in r.body.entries}

(* ingest_lint.py:260 "Fail closed": an entry in executed/ that names open *)
(* work is passed when its file was moved after its marker was read.       *)
ListedExecutedIsMerged ==
  \A r \in Linted : Passed(r) /\ r.body.refs =>
    \A e \in r.body.entries : folder(e) = "executed" /\ Ref[e[1]] # Unmarked =>
      \A n \in Ref[e[1]] : prs[n] = "merged"
=============================================================================
