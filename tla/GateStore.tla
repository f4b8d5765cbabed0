----------------------------- MODULE GateStore -----------------------------
(***************************************************************************)
(* The records of the gates: attempts at a gate over a revision            *)
(* (gate_attempt), their review sessions (gate_review_session), what the   *)
(* sessions found (finding) and the verdicts (gate_record), under any      *)
(* statements migration 0004 grants the worker role: INSERT into each      *)
(* table, UPDATE of gate_attempt and of revisions, DELETE of nothing.      *)
(* There is no gate engine yet; the schema is the code.                    *)
(*                                                                         *)
(* As in AuthorityStore a statement is a step.  mode, criteria, roles,     *)
(* limits and the like, which no key and no trigger names, are left out,   *)
(* and so is the update of a session's status, a text nothing refers to.   *)
(***************************************************************************)
EXTENDS DossierRevision, FiniteSets

CONSTANTS
    Attempts, Sessions, Findings, Verdicts   \* rows statements write

GATES == {"TR", "SA", "UA"}
ATTEMPT_STATUSES == {"open", "blocked_coverage_or_budget", "completed"}

\* CHECK: each gate has its own results.
Results ==
    [TR |-> {"TECH_REVIEW_PASSED", "TECH_REVIEW_RETURNED"},
     SA |-> {"ACCEPTED", "ACCEPTED_WITH_DISCLOSED_GAPS", "RETURNED"},
     UA |-> {"USER_ACCEPTED", "USER_RETURNED", "USER_DEFERRED", "USER_REJECTED"}]

AttemptRows ==
    [id : Ids, case : Cases, gate : GATES, revision : Ids, hash : Hashes,
     status : ATTEMPT_STATUSES]
SessionRows == [id : Ids, attempt : Ids]
FindingRows == [id : Ids, session : Ids, supersededBy : Ids \cup {NULL}]
VerdictRows ==
    {v \in [id : Ids, attempt : Ids, case : Cases, gate : GATES, revision : Ids,
            hash : Hashes, result : UNION {Results[g] : g \in GATES}] :
        v.result \in Results[v.gate]}

ASSUME GateAssumption ==
    /\ Attempts \subseteq AttemptRows
    /\ Sessions \subseteq SessionRows
    /\ Findings \subseteq FindingRows
    /\ Verdicts \subseteq VerdictRows

VARIABLES gate_attempt, gate_review_session, finding, gate_record

gateVars == <<dossier_revision, gate_attempt, gate_review_session, finding, gate_record>>

GateTypeOK ==
    /\ dossier_revision \subseteq Revisions
    /\ gate_attempt \subseteq Attempts
    /\ gate_review_session \subseteq Sessions
    /\ finding \subseteq Findings
    /\ gate_record \subseteq Verdicts

GateInit ==
    /\ dossier_revision = {} /\ gate_attempt = {}
    /\ gate_review_session = {} /\ finding = {} /\ gate_record = {}

-----------------------------------------------------------------------------
\* FOREIGN KEY (revision_id, content_hash) of attempts and verdicts.
ContentExists(row) ==
    \E r \in dossier_revision : r.id = row.revision /\ r.hash = row.hash

\* Mutant of ContentJudged: verdicts hold their content, attempts do not.
NamedByVerdict(r) == \E row \in gate_record : row.revision = r.id /\ row.hash = r.hash

ContentJudged(r) ==
    \E row \in gate_attempt \cup gate_record : row.revision = r.id /\ row.hash = r.hash

InsertJudged(r) ==
    /\ RevisionInserted(r)
    /\ UNCHANGED <<gate_attempt, gate_review_session, finding, gate_record>>

UpdateJudged(old, new) ==
    /\ RevisionUpdated(old, new)
    /\ new.hash = old.hash \/ ~ContentJudged(old)
    /\ UNCHANGED <<gate_attempt, gate_review_session, finding, gate_record>>

\* Mutant of Pending: the index covers open attempts only.
OpenOnly(a) == a.status = "open"

\* uq_gate_attempt_open is an index over the attempts that are not completed.
Pending(a) == a.status \in {"open", "blocked_coverage_or_budget"}

SameGate(a, b) == <<a.case, a.gate, a.revision>> = <<b.case, b.gate, b.revision>>

IndexAdmits(a, others) == Pending(a) => \A b \in others : ~(Pending(b) /\ SameGate(a, b))

InsertAttempt(a) ==
    /\ a.id \notin IdsOf(gate_attempt)
    /\ ContentExists(a)
    /\ IndexAdmits(a, gate_attempt)
    /\ gate_attempt' = gate_attempt \cup {a}
    /\ UNCHANGED <<dossier_revision, gate_review_session, finding, gate_record>>

\* Mutant of OnlyAttemptStatusChanges: an attempt may be moved to another content.
ContentMayChange(old, new) ==
    [old EXCEPT !.status = new.status, !.revision = new.revision, !.hash = new.hash] = new

\* pls_only_columns_change('status'), in any direction.
OnlyAttemptStatusChanges(old, new) == [old EXCEPT !.status = new.status] = new

UpdateAttempt(old, new) ==
    /\ OnlyAttemptStatusChanges(old, new)
    /\ IndexAdmits(new, gate_attempt \ {old})
    /\ gate_attempt' = (gate_attempt \ {old}) \cup {new}
    /\ UNCHANGED <<dossier_revision, gate_review_session, finding, gate_record>>

InsertSession(s) ==
    /\ \A t \in gate_review_session : s.id # t.id /\ s.attempt # t.attempt
    /\ s.attempt \in IdsOf(gate_attempt)
    /\ gate_review_session' = gate_review_session \cup {s}
    /\ UNCHANGED <<dossier_revision, gate_attempt, finding, gate_record>>

InsertFinding(f) ==
    /\ f.id \notin IdsOf(finding)
    /\ f.session \in IdsOf(gate_review_session)
    /\ f.supersededBy \in IdsOf(finding) \cup {f.id, NULL}
    /\ finding' = finding \cup {f}
    /\ UNCHANGED <<dossier_revision, gate_attempt, gate_review_session, gate_record>>

\* Mutant of InsertVerdict: gate_attempt_id is not unique.
JudgeAgain(v) ==
    /\ v.id \notin IdsOf(gate_record)
    /\ v.attempt \in IdsOf(gate_attempt)
    /\ ContentExists(v)
    /\ gate_record' = gate_record \cup {v}
    /\ UNCHANGED <<dossier_revision, gate_attempt, gate_review_session, finding>>

InsertVerdict(v) ==
    /\ \A u \in gate_record : v.id # u.id /\ v.attempt # u.attempt
    /\ v.attempt \in IdsOf(gate_attempt)
    /\ ContentExists(v)
    /\ gate_record' = gate_record \cup {v}
    /\ UNCHANGED <<dossier_revision, gate_attempt, gate_review_session, finding>>

\* The view tr_return_counter.
ReturnsOf(c) == {v \in gate_record : v.case = c /\ v.result = "TECH_REVIEW_RETURNED"}
tr_return_counter(c) == Cardinality(ReturnsOf(c))

GateNext ==
    \/ \E r \in Revisions : InsertJudged(r)
    \/ \E old \in dossier_revision, new \in Revisions : UpdateJudged(old, new)
    \/ \E a \in Attempts : InsertAttempt(a)
    \/ \E old \in gate_attempt, new \in Attempts : UpdateAttempt(old, new)
    \/ \E s \in Sessions : InsertSession(s)
    \/ \E f \in Findings : InsertFinding(f)
    \/ \E v \in Verdicts : InsertVerdict(v)

GateSpec == GateInit /\ [][GateNext]_gateVars

-----------------------------------------------------------------------------
\* A gate has one attempt under way for a revision, however attempts are
\* blocked, resumed, completed and reopened.
OneAttemptUnderWay ==
    \A a, b \in gate_attempt :
        SameGate(a, b) => a = b \/ "completed" \in {a.status, b.status}

\* Every return the counter counts was decided by an attempt of its own: no
\* retry counts one twice.
ReturnsAreCountedOnce ==
    \A c \in Cases :
        tr_return_counter(c) = Cardinality({v.attempt : v \in ReturnsOf(c)})

\* The keys and references of the five tables hold together at every moment.
GateIntegrity ==
    /\ \A r, s \in dossier_revision : r.id = s.id => r = s
    /\ \A a, b \in gate_attempt : a.id = b.id => a = b
    /\ \A s, t \in gate_review_session : s.id = t.id \/ s.attempt = t.attempt => s = t
    /\ \A f, g \in finding : f.id = g.id => f = g
    /\ \A u, v \in gate_record : u.id = v.id \/ u.attempt = v.attempt => u = v
    /\ \A row \in gate_attempt \cup gate_record : ContentExists(row)
    /\ \A row \in gate_review_session \cup gate_record : row.attempt \in IdsOf(gate_attempt)
    /\ \A f \in finding : f.session \in IdsOf(gate_review_session)

\* Once an attempt is there, it and the content it is about stay what they were,
\* whatever its status does: sessions, findings and verdicts recorded later are
\* about what it was opened for, and none of them goes away.
SameContent(a, b) == SameGate(a, b) /\ <<a.id, a.hash>> = <<b.id, b.hash>>

JudgedContentStays ==
    [][/\ \A a \in gate_attempt :
             ContentExists(a)' /\ \E b \in gate_attempt' : SameContent(a, b)
       /\ gate_review_session \subseteq gate_review_session'
       /\ finding \subseteq finding'
       /\ gate_record \subseteq gate_record']_gateVars

=============================================================================
