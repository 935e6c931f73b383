--------------------------- MODULE HumanEvidence ----------------------------
(***************************************************************************)
(* Two readers of the corpus that leave evidence: a person's verdict on a  *)
(* claim no control can run (platform/tools/human_evidence.py) and the     *)
(* embedder's build (platform/tools/embedder.py).  People edit the corpus  *)
(* meanwhile; it may come back to what it said before.                     *)
(***************************************************************************)
EXTENDS Evidence

CONSTANTS
  Content,    \* what the corpus may say; its digest covers no evidence, so it is its own
  Check,      \* per content, the claims in it and how each is checked
  Doc,        \* per content, the document each of its claims is in
  Document,   \* the documents of the corpus
  Red,        \* contents lint finds fault with
  Bare,       \* claims whose instances carry no version or moment
  Nobody

ASSUME HumanAssumption ==
  /\ Red \subseteq Content /\ DOMAIN Check = Content
  /\ DOMAIN Doc = Content
  /\ \A c \in Content : Doc[c] \in [DOMAIN Check[c] -> Document]

VARIABLES
  corpus,
  desk,       \* human_evidence: idle, or what it read and was asked for
  embedder    \* idle, or what its build and its queries have read

humanVars == <<corpus, desk, embedder>>
Idle == [at |-> "idle"]

HumanInit ==
  /\ EvidenceInit
  /\ corpus \in Content
  /\ desk = Idle /\ embedder = Idle

(* Each claim where it is; stood is for the properties: what has been in   *)
(* one and the same document since the embedder's queries began.           *)
Standing(c) == {<<x, Doc[c][x]>> : x \in DOMAIN Check[c]}

Edits(c) ==
  /\ c # corpus /\ corpus' = c
  /\ embedder' = IF embedder.at = "query" THEN [embedder EXCEPT !.stood = @ \cap Standing(c)]
                                          ELSE embedder
  /\ UNCHANGED <<evidenceVars, desk>>

Human(c) == {x \in DOMAIN Check[c] : Check[c][x] = "human"}

(* emit's refusals. *)
Accepts(claim, checker) == claim \in Human(corpus) /\ checker # Nobody

(* main: a red corpus is refused; the digest is of what was just read. *)
Asked(claim, checker, verdict) ==
  /\ desk = Idle /\ corpus \notin Red
  /\ Accepts(claim, checker)
  /\ desk' = [at |-> "emit", content |-> corpus, claim |-> claim, checker |-> checker,
              verdict |-> verdict]
  /\ UNCHANGED <<evidenceVars, corpus, embedder>>

Emits ==
  /\ desk.at = "emit"
  /\ Save(Record("human", desk.claim, desk.verdict = "pass",
                 [content |-> desk.content, checker |-> desk.checker]))
  /\ desk' = Idle
  /\ UNCHANGED <<corpus, embedder>>

Verdicts == {r \in OnFile : r.control = "human" /\ Passed(r)}

(* Defect form: of each claim only the newest verdict is looked at.        *)
current_evidence_newest(c) ==
  {r.of : r \in {v \in Verdicts : v.body.content = c /\ \A w \in Verdicts : w.of = v.of => w.at <= v.at}}

(* current_evidence: what was passed at this digest. *)
current_evidence(c) == {r.of : r \in {v \in Verdicts : v.body.content = c}}

(* report writes nothing: it may be made at any time, of any green corpus. *)
covered == [c \in Content |-> current_evidence(c)]
stale == [c \in Content |-> {v.of : v \in Verdicts} \ current_evidence(c)]

-----------------------------------------------------------------------------
(* expand_inputs lists the documents and the records; then one document    *)
(* after another is parsed, in the order of their paths, here in any.  A   *)
(* record is never changed again, so that its id may be read at once.      *)
Atom(x) == <<"corpus", x, 0>>
Claims(c, d) == {Atom(x) : x \in {y \in DOMAIN Check[c] : Doc[c][y] = d}}
Records == {File(r) : r \in OnFile}

Builds ==
  /\ embedder = Idle
  /\ embedder' = [at |-> "build", left |-> Document, rows |-> Records]
  /\ UNCHANGED <<evidenceVars, corpus, desk>>

Embeds(d) ==
  /\ embedder.at = "build" /\ d \in embedder.left
  /\ embedder' = [embedder EXCEPT !.left = @ \ {d}, !.rows = @ \cup Claims(corpus, d)]
  /\ UNCHANGED <<evidenceVars, corpus, desk>>

(* queries: everything is listed and read again. *)
Queries ==
  /\ embedder.at = "build" /\ embedder.left = {}
  /\ embedder' = [at |-> "query", left |-> Document, rows |-> embedder.rows, atoms |-> Records,
                  began |-> now, stood |-> Standing(corpus)]
  /\ UNCHANGED <<evidenceVars, corpus, desk>>

Rereads(d) ==
  /\ embedder.at = "query" /\ d \in embedder.left
  /\ embedder' = [embedder EXCEPT !.left = @ \ {d}, !.atoms = @ \cup Claims(corpus, d)]
  /\ UNCHANGED <<evidenceVars, corpus, desk>>

(* Defect form: the queries look at the documents alone (before SPEC-0109). *)
coverage_gap_of_documents == (embedder.atoms \ embedder.rows) \ Records

coverage_gap == embedder.atoms \ embedder.rows

(* Then the records, for the controls with a pass; one that is being       *)
(* written is no JSON yet, and breaks the run off.                         *)
Judges ==
  /\ embedder.at = "query" /\ embedder.left = {}
  /\ embedder' =
       [at |-> "emit", rows |-> embedder.rows, stood |-> embedder.stood, began |-> embedder.began,
        ok |-> coverage_gap = {} /\ ~\E x \in Bare : Atom(x) \in embedder.rows,
        judged |-> now, evidenced |-> {r.control : r \in {s \in OnFile : Passed(s)}}]
  /\ UNCHANGED <<evidenceVars, corpus, desk>>

BreaksOff ==
  /\ embedder.at = "query" /\ embedder.left = {} /\ desk.at = "emit"
  /\ embedder' = Idle
  /\ UNCHANGED <<evidenceVars, corpus, desk>>

(* emit_evidence *)
EmbedEmits ==
  /\ embedder.at = "emit"
  /\ Save(Record("embed", Nobody, embedder.ok,
                 [rows |-> embedder.rows, stood |-> embedder.stood, began |-> embedder.began,
                  judged |-> embedder.judged, evidenced |-> embedder.evidenced]))
  /\ embedder' = Idle
  /\ UNCHANGED <<corpus, desk>>

HumanNext ==
  \/ \E c \in Content : Edits(c)
  \/ \E claim \in UNION {DOMAIN Check[c] : c \in Content}, checker \in {Nobody, "floor"},
        verdict \in {"pass", "fail"} : Asked(claim, checker, verdict)
  \/ Emits \/ Builds \/ Queries \/ Judges \/ BreaksOff \/ EmbedEmits
  \/ \E d \in Document : Embeds(d) \/ Rereads(d)
  \/ TimePasses /\ UNCHANGED humanVars

HumanSpec == HumanInit /\ [][HumanNext]_<<evidenceVars, humanVars>>

-----------------------------------------------------------------------------
(* "Current means the record names today's corpus digest": what a report   *)
(* calls evidenced is, in the corpus it names, a claim no control can run, *)
(* and a named person passed it in that very corpus, however often the     *)
(* corpus moved since; what it calls stale was passed in another.  And a   *)
(* corpus that comes back to what it said finds its verdicts current again *)
(* ("a property of content rather than a timer"), unless another on the    *)
(* claim took the file within the second.                                  *)
CoverageIsAttestation ==
  LET passed(x, c) == \E r \in written : /\ r.control = "human" /\ r.of = x /\ Passed(r)
                                         /\ r.body.content = c /\ r.body.checker # Nobody IN
  /\ \A c \in Content : \A x \in covered[c] : passed(x, c) /\ x \in Human(c)
  /\ \A c \in Content : \A x \in stale[c] : \E d \in Content \ {c} : passed(x, d)
  /\ \A r \in written : r.control = "human" /\ Passed(r) =>
       r.of \in covered[r.body.content] \/ \E s \in written : File(s) = File(r) /\ s.at > r.at

(* A build recorded as passed, with no coverage gap, embedded every claim  *)
(* that was in its document from the beginning of its queries to their end, *)
(* and every record on file when they began: whatever was edited while the *)
(* documents were read, twice, and whatever was before it recorded itself. *)
EmbeddedIsWhole ==
  \A e \in written : e.control = "embed" /\ Passed(e) =>
    {Atom(p[1]) : p \in e.body.stood} \cup {File(r) : r \in OnFileBefore(e.body.began)}
      \subseteq e.body.rows

-----------------------------------------------------------------------------
(* Statements of the repository that the code does not keep.               *)

(* DOC-0000 ONT-046, "Is claim X currently true is the query latest        *)
(* evidence ... verdict pass": of the verdicts on one corpus, as report    *)
(* reads them, and of a control's records, as the embedder's queries do.   *)
LatestVerdictCounts ==
  \A c \in Content : \A x \in covered[c] :
    \A r \in Newest({s \in OnFile : s.control = "human" /\ s.of = x /\ s.body.content = c}) :
      Passed(r)

LatestRecordCounts ==
  \A e \in written : e.control = "embed" =>
    \A x \in e.body.evidenced :
      \A r \in Newest({s \in OnFileBefore(e.body.judged) : s.control = x}) : Passed(r)
=============================================================================
