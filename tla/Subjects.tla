------------------------------ MODULE Subjects ------------------------------
(***************************************************************************)
(* The closed subject taxonomy (ES-001/ES-002) and the transport grant of  *)
(* a credential (ES-003).  A subject is the sequence of its dot-separated  *)
(* tokens; a pattern is such a sequence in which "*" or ">" may stand for  *)
(* tokens.                                                                 *)
(***************************************************************************)
EXTENDS Naturals, Sequences

CONSTANTS
  Token,    \* the tokens that match [a-z0-9-]+; others may exist
  LineEnd   \* pairs <<a, b>> of tokens where a is b and a final newline

ASSUME TokenAssumption == /\ Token \subseteq STRING
                          /\ "*" \notin Token
                          /\ ">" \notin Token

Transitions == {"minted", "active", "suspended", "retired", "revoked"}

(* PATTERNS of subjects.py; "*" is its TOKEN. *)
Patterns ==
  { <<"mesh", "descriptor", "*">>,
    <<"mesh", "heartbeat", "*">>,
    <<"acta", "*", "*", "output">>,
    <<"acta", "*", "*", "event">>,
    <<"acta", "evidence", "*">>,
    <<"acta", "retrieval", "*">>,
    <<"work", "directive", "*">>,
    <<"work", "story", "*", "assign">>,
    <<"work", "story", "*", "result">>,
    <<"work", "veto", "*">>,
    <<"data", "resolve">>,
    <<"data", "recall">>,
    <<"data", "query", "*">> }
  \cup { <<"mesh", "entity", "*", t>> : t \in Transitions }

FullyMatches(p, s) ==
  /\ Len(s) = Len(p)
  /\ \A i \in 1..Len(p) : IF p[i] = "*" THEN s[i] \in Token ELSE s[i] = p[i]

(* The "$" of a pattern matches at the end and before a final newline.     *)
MatchesPattern(p, s) ==
  \/ FullyMatches(p, s)
  \/ \E e \in LineEnd : /\ s # <<>> /\ s[Len(s)] = e[1]
                       /\ FullyMatches(p, [s EXCEPT ![Len(s)] = e[2]])

in_taxonomy(s) == \E p \in Patterns : MatchesPattern(p, s)

descriptor_subject(citizen) == <<"mesh", "descriptor", citizen>>
heartbeat_subject(citizen) == <<"mesh", "heartbeat", citizen>>
output_subject(citizen, context) == <<"acta", citizen, context, "output">>
event_subject(citizen, context) == <<"acta", citizen, context, "event">>

(* The parent's projection of the act grant onto the transport. *)
transport_grant(citizen, context) ==
  { descriptor_subject(citizen), heartbeat_subject(citizen),
    output_subject(citizen, context), event_subject(citizen, context) }

-----------------------------------------------------------------------------
(* Every token of p but its last begins s, and s goes on after them.  Only *)
(* a pattern that ends in ".>" or ".*" is read this way, so it has at      *)
(* least two tokens.  UnderShort is a defect form: one literal too few.    *)
UnderShort(p, s) ==
  /\ Len(p) >= 2
  /\ Len(s) >= Len(p)
  /\ \A i \in 1..(Len(p) - 2) : s[i] = p[i]

Under(p, s) ==
  /\ Len(p) >= 2
  /\ Len(s) >= Len(p)
  /\ \A i \in 1..(Len(p) - 1) : s[i] = p[i]

Covers(p, s) ==
  \/ s = p
  \/ p # <<>> /\ p[Len(p)] = ">" /\ Under(p, s)
  \/ p # <<>> /\ p[Len(p)] = "*" /\ Under(p, s) /\ Len(s) = Len(p)

(* L0Context.subject_granted *)
subject_granted(allow, s) == \E p \in allow : Covers(p, s)

-----------------------------------------------------------------------------
(* Reference: how the bus itself reads a permission pattern.  "*" is one   *)
(* token wherever it stands, a final ">" is one or more.                   *)
BusCovers(p, s) ==
  LET Agrees(i) == p[i] = "*" \/ p[i] = s[i] IN
  \/ Len(p) = Len(s) /\ \A i \in 1..Len(p) : Agrees(i)
  \/ /\ p # <<>> /\ p[Len(p)] = ">"
     /\ Len(s) >= Len(p)
     /\ \A i \in 1..(Len(p) - 1) : Agrees(i)

(* "No implicit widening" (init.py:62-63): what the citizen grants itself  *)
(* the bus, reading the same credential, grants it too.                    *)
WithinBus(allow, s) == subject_granted(allow, s) => \E p \in allow : BusCovers(p, s)
=============================================================================
