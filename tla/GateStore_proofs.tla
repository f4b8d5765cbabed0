-------------------------- MODULE GateStore_proofs --------------------------
(***************************************************************************)
(* What the schema of the gate tables guarantees for any number of rows    *)
(* and any order of statements.  GateIntegrity with OneAttemptUnderWay and the *)
(* finiteness of gate_record is inductive.                                 *)
(***************************************************************************)
EXTENDS GateStore, FiniteSetTheorems, TLAPS

IInv ==
    /\ GateTypeOK
    /\ GateIntegrity
    /\ OneAttemptUnderWay
    /\ IsFiniteSet(gate_record)

\* Empty tables satisfy every key and reference.
THEOREM Initially == GateInit => IInv
BY FS_EmptySet DEF GateInit, IInv, GateTypeOK, GateIntegrity, OneAttemptUnderWay,
   ContentExists, IdsOf

-----------------------------------------------------------------------------
(***************************************************************************)
(* One lemma per statement.                                                *)
(***************************************************************************)

LEMMA InsertJudgedKeeps ==
  ASSUME IInv, NEW r \in Revisions, InsertJudged(r)
  PROVE  IInv'
<1>1. (\A s, t \in dossier_revision : s.id = t.id => s = t)'
  BY DEF IInv, GateIntegrity, InsertJudged, RevisionInserted, KeysDiffer
<1>2. (\A row \in gate_attempt \cup gate_record : ContentExists(row))'
  BY DEF IInv, GateIntegrity, InsertJudged, RevisionInserted, ContentExists
<1> QED
  BY <1>1, <1>2 DEF IInv, GateTypeOK, GateIntegrity, OneAttemptUnderWay, InsertJudged,
     RevisionInserted, IdsOf

\* The foreign keys hold the content of a revision that attempts or verdicts name.
LEMMA UpdateJudgedKeepsContent ==
  ASSUME NEW old \in dossier_revision, NEW new \in Revisions, UpdateJudged(old, new),
         NEW row, ContentExists(row),
         row \in gate_attempt \cup gate_record
  PROVE  ContentExists(row)'
<1>1. PICK r \in dossier_revision : r.id = row.revision /\ r.hash = row.hash
  BY DEF ContentExists
<1>2. new.id = old.id
  BY DEF UpdateJudged, RevisionUpdated, pls_dossier_revision_guard
<1>3. dossier_revision' = (dossier_revision \ {old}) \cup {new}
  BY DEF UpdateJudged, RevisionUpdated
<1>4. CASE r = old
  BY <1>1, <1>2, <1>3, <1>4 DEF UpdateJudged, RevisionUpdated, ContentJudged,
     ContentExists
<1>5. CASE r # old
  BY <1>1, <1>3, <1>5 DEF ContentExists
<1> QED
  BY <1>4, <1>5

LEMMA UpdateJudgedKeeps ==
  ASSUME IInv, NEW old \in dossier_revision, NEW new \in Revisions,
         UpdateJudged(old, new)
  PROVE  IInv'
<1>1. \A s \in dossier_revision \ {old} : s.id # new.id
  BY DEF UpdateJudged, RevisionUpdated, KeysDiffer
<1>2. (\A r, s \in dossier_revision : r.id = s.id => r = s)'
  BY <1>1 DEF IInv, GateIntegrity, UpdateJudged, RevisionUpdated
<1>3. UNCHANGED <<gate_attempt, gate_review_session, finding, gate_record>>
  BY DEF UpdateJudged, RevisionUpdated
<1>4. (\A row \in gate_attempt \cup gate_record : ContentExists(row))'
  BY <1>3, UpdateJudgedKeepsContent DEF IInv, GateIntegrity
<1>5. (dossier_revision \subseteq Revisions)'
  BY DEF IInv, GateTypeOK, UpdateJudged, RevisionUpdated
<1> QED
  BY <1>2, <1>3, <1>4, <1>5 DEF IInv, GateTypeOK, GateIntegrity, OneAttemptUnderWay, IdsOf

LEMMA InsertAttemptKeeps ==
  ASSUME IInv, NEW a \in Attempts, InsertAttempt(a)
  PROVE  IInv'
<1>1. (\A b, c \in gate_attempt : b.id = c.id => b = c)'
  BY DEF IInv, GateIntegrity, InsertAttempt, IdsOf
<1>2. (\A row \in gate_attempt \cup gate_record : ContentExists(row))'
  BY DEF IInv, GateIntegrity, InsertAttempt, ContentExists
<1>3. IdsOf(gate_attempt) \subseteq IdsOf(gate_attempt)'
  BY DEF InsertAttempt, IdsOf
<1>4. OneAttemptUnderWay'
  <2>1. a.status \in ATTEMPT_STATUSES
    BY GateAssumption DEF AttemptRows
  <2>2. \A b \in gate_attempt : b.status \in ATTEMPT_STATUSES
    BY GateAssumption DEF IInv, GateTypeOK, AttemptRows
  <2>3. \A b \in gate_attempt : SameGate(a, b) => "completed" \in {a.status, b.status}
    BY <2>1, <2>2 DEF InsertAttempt, IndexAdmits, Pending, ATTEMPT_STATUSES
  <2> QED
    BY <2>3 DEF IInv, OneAttemptUnderWay, InsertAttempt, SameGate
<1>5. (gate_attempt \subseteq Attempts)'
  BY DEF IInv, GateTypeOK, InsertAttempt
<1> QED
  BY <1>1, <1>2, <1>3, <1>4, <1>5 DEF IInv, GateTypeOK, GateIntegrity, InsertAttempt,
     IdsOf

\* The trigger leaves everything of an attempt but its status alone.
LEMMA AttemptKeepsTerms ==
  ASSUME NEW old \in AttemptRows, NEW new, OnlyAttemptStatusChanges(old, new)
  PROVE  /\ new.id = old.id /\ new.case = old.case /\ new.gate = old.gate
         /\ new.revision = old.revision /\ new.hash = old.hash
BY DEF OnlyAttemptStatusChanges, AttemptRows

LEMMA UpdateAttemptKeeps ==
  ASSUME IInv, NEW old \in gate_attempt, NEW new \in Attempts, UpdateAttempt(old, new)
  PROVE  IInv'
<1>1. /\ new.id = old.id /\ new.case = old.case /\ new.gate = old.gate
      /\ new.revision = old.revision /\ new.hash = old.hash
  BY GateAssumption, AttemptKeepsTerms DEF IInv, GateTypeOK, UpdateAttempt
<1>2. gate_attempt' = (gate_attempt \ {old}) \cup {new}
  BY DEF UpdateAttempt
<1>3. (\A b, c \in gate_attempt : b.id = c.id => b = c)'
  BY <1>1, <1>2 DEF IInv, GateIntegrity
<1>4. (\A row \in gate_attempt \cup gate_record : ContentExists(row))'
  BY <1>1 DEF IInv, GateIntegrity, UpdateAttempt, ContentExists
<1>5. IdsOf(gate_attempt)' = IdsOf(gate_attempt)
  BY <1>1, <1>2 DEF IdsOf
<1>6. OneAttemptUnderWay'
  <2>1. new.status \in ATTEMPT_STATUSES
    BY GateAssumption DEF AttemptRows
  <2>2. \A b \in gate_attempt : b.status \in ATTEMPT_STATUSES
    BY GateAssumption DEF IInv, GateTypeOK, AttemptRows
  <2>3. \A b \in gate_attempt \ {old} :
            SameGate(new, b) => "completed" \in {new.status, b.status}
    BY <2>1, <2>2 DEF UpdateAttempt, IndexAdmits, Pending, ATTEMPT_STATUSES
  <2> QED
    BY <1>2, <2>3 DEF IInv, OneAttemptUnderWay, SameGate
<1>7. (gate_attempt \subseteq Attempts)'
  BY <1>2 DEF IInv, GateTypeOK
<1>8. UNCHANGED <<dossier_revision, gate_review_session, finding, gate_record>>
  BY DEF UpdateAttempt
<1> QED
  BY <1>3, <1>4, <1>5, <1>6, <1>7, <1>8 DEF IInv, GateTypeOK, GateIntegrity, IdsOf

LEMMA InsertSessionKeeps ==
  ASSUME IInv, NEW s \in Sessions, InsertSession(s)
  PROVE  IInv'
BY DEF IInv, GateTypeOK, GateIntegrity, OneAttemptUnderWay, InsertSession,
   ContentExists, IdsOf

LEMMA InsertFindingKeeps ==
  ASSUME IInv, NEW f \in Findings, InsertFinding(f)
  PROVE  IInv'
BY DEF IInv, GateTypeOK, GateIntegrity, OneAttemptUnderWay, InsertFinding,
   ContentExists, IdsOf

LEMMA InsertVerdictKeeps ==
  ASSUME IInv, NEW v \in Verdicts, InsertVerdict(v)
  PROVE  IInv'
<1>1. IsFiniteSet(gate_record)'
  BY FS_AddElement DEF IInv, InsertVerdict
<1>2. (\A u, w \in gate_record : u.id = w.id \/ u.attempt = w.attempt => u = w)'
  BY DEF IInv, GateIntegrity, InsertVerdict
<1>3. (\A row \in gate_attempt \cup gate_record : ContentExists(row))'
  BY DEF IInv, GateIntegrity, InsertVerdict, ContentExists
<1> QED
  BY <1>1, <1>2, <1>3 DEF IInv, GateTypeOK, GateIntegrity, OneAttemptUnderWay,
     InsertVerdict, IdsOf

\* No statement the worker role may run breaks a key or a reference of the gate
\* tables, or the partial index over attempts (migrations 0002 and 0003).
THEOREM Inductive == IInv /\ [GateNext]_gateVars => IInv'
<1> SUFFICES ASSUME IInv, [GateNext]_gateVars PROVE IInv'
  OBVIOUS
<1>1. ASSUME NEW r \in Revisions, InsertJudged(r) PROVE IInv'
  BY <1>1, InsertJudgedKeeps
<1>2. ASSUME NEW old \in dossier_revision, NEW new \in Revisions,
             UpdateJudged(old, new) PROVE IInv'
  BY <1>2, UpdateJudgedKeeps
<1>3. ASSUME NEW a \in Attempts, InsertAttempt(a) PROVE IInv'
  BY <1>3, InsertAttemptKeeps
<1>4. ASSUME NEW old \in gate_attempt, NEW new \in Attempts,
             UpdateAttempt(old, new) PROVE IInv'
  BY <1>4, UpdateAttemptKeeps
<1>5. ASSUME NEW s \in Sessions, InsertSession(s) PROVE IInv'
  BY <1>5, InsertSessionKeeps
<1>6. ASSUME NEW f \in Findings, InsertFinding(f) PROVE IInv'
  BY <1>6, InsertFindingKeeps
<1>7. ASSUME NEW v \in Verdicts, InsertVerdict(v) PROVE IInv'
  BY <1>7, InsertVerdictKeeps
<1>8. CASE UNCHANGED gateVars
  BY <1>8 DEF gateVars, IInv, GateTypeOK, GateIntegrity, OneAttemptUnderWay,
     ContentExists, IdsOf
<1> QED
  BY <1>1, <1>2, <1>3, <1>4, <1>5, <1>6, <1>7, <1>8 DEF GateNext

-----------------------------------------------------------------------------
(***************************************************************************)
(* What follows.                                                           *)
(***************************************************************************)

LEMMA Invariance == GateSpec => []IInv
BY Initially, Inductive, PTL DEF GateSpec

\* The keys and references of the gate tables always hold together.
THEOREM IntegrityHolds == GateSpec => []GateIntegrity
<1>1. IInv => GateIntegrity
  BY DEF IInv
<1> QED
  BY <1>1, Invariance, PTL

\* No sequence of updates brings two attempts at one gate under way.
THEOREM OneAttempt == GateSpec => []OneAttemptUnderWay
<1>1. IInv => OneAttemptUnderWay
  BY DEF IInv
<1> QED
  BY <1>1, Invariance, PTL

\* The returns of a case and the attempts they returned are equally many: the
\* map from a return to its attempt loses nothing.
THEOREM CounterIsExact == GateSpec => []ReturnsAreCountedOnce
<1>1. IInv => ReturnsAreCountedOnce
  <2> SUFFICES ASSUME IInv, NEW c \in Cases
      PROVE tr_return_counter(c) = Cardinality({v.attempt : v \in ReturnsOf(c)})
    BY DEF ReturnsAreCountedOnce
  <2> DEFINE attempts == {v.attempt : v \in ReturnsOf(c)}
             f == [v \in ReturnsOf(c) |-> v.attempt]
  <2>1. IsFiniteSet(ReturnsOf(c))
    BY FS_Subset DEF IInv, ReturnsOf
  <2>2. f \in Surjection(ReturnsOf(c), attempts)
    BY DEF Surjection
  <2>3. \A u, v \in ReturnsOf(c) : u.attempt = v.attempt => u = v
    BY DEF IInv, GateIntegrity, ReturnsOf
  <2>4. f \in Injection(ReturnsOf(c), attempts)
    BY <2>3 DEF Injection, IsInjective
  <2> HIDE DEF f, attempts
  <2>5. Cardinality(attempts) = Cardinality(ReturnsOf(c))
    BY <2>1, <2>2, <2>4, FS_Surjection
  <2> QED
    BY <2>5 DEF tr_return_counter, attempts
<1> QED
  BY <1>1, Invariance, PTL

-----------------------------------------------------------------------------
\* An attempt and its content outlive every statement: only its status moves,
\* and the foreign key holds the revision, published or not.
THEOREM JudgedContentIsFinal == GateSpec => JudgedContentStays
<1>1. ASSUME IInv, [GateNext]_gateVars, NEW a \in gate_attempt
      PROVE  ContentExists(a)'
  <2>1. ContentExists(a)
    BY <1>1 DEF IInv, GateIntegrity
  <2>2. ASSUME NEW r \in Revisions, InsertJudged(r) PROVE ContentExists(a)'
    BY <2>1, <2>2 DEF InsertJudged, RevisionInserted, ContentExists
  <2>3. ASSUME NEW old \in dossier_revision, NEW new \in Revisions,
               UpdateJudged(old, new) PROVE ContentExists(a)'
    BY <2>1, <2>3, UpdateJudgedKeepsContent
  <2>4. ASSUME UNCHANGED dossier_revision PROVE ContentExists(a)'
    BY <2>1, <2>4 DEF ContentExists
  <2> QED
    BY <1>1, <2>2, <2>3, <2>4
       DEF GateNext, gateVars, InsertAttempt, UpdateAttempt, InsertSession,
           InsertFinding, InsertVerdict
<1>2. ASSUME IInv, [GateNext]_gateVars, NEW a \in gate_attempt
      PROVE  \E b \in gate_attempt' : SameContent(a, b)
  <2>1. CASE a \in gate_attempt'
    BY <2>1 DEF SameContent, SameGate
  <2>2. ASSUME NEW old \in gate_attempt, NEW new \in Attempts, UpdateAttempt(old, new)
        PROVE  \E b \in gate_attempt' : SameContent(a, b)
    <3>1. CASE a = old
      <4>1. old \in AttemptRows /\ new \in gate_attempt'
        BY <1>2, <2>2, GateAssumption DEF IInv, GateTypeOK, UpdateAttempt
      <4> QED
        BY <1>2, <2>2, <3>1, <4>1, AttemptKeepsTerms DEF UpdateAttempt, SameContent,
           SameGate
    <3>2. CASE a # old
      BY <2>1, <2>2, <3>2 DEF UpdateAttempt
    <3> QED
      BY <3>1, <3>2
  <2> QED
    BY <1>2, <2>1, <2>2
       DEF GateNext, gateVars, InsertJudged, RevisionInserted, UpdateJudged,
           RevisionUpdated, InsertAttempt, InsertSession,
           InsertFinding, InsertVerdict
<1>3. ASSUME [GateNext]_gateVars
      PROVE  /\ gate_review_session \subseteq gate_review_session'
             /\ finding \subseteq finding'
             /\ gate_record \subseteq gate_record'
  BY <1>3 DEF GateNext, gateVars, InsertJudged, RevisionInserted, UpdateJudged,
     RevisionUpdated, InsertAttempt, UpdateAttempt,
              InsertSession, InsertFinding, InsertVerdict
<1>4. IInv /\ [GateNext]_gateVars =>
        /\ \A a \in gate_attempt :
               ContentExists(a)' /\ \E b \in gate_attempt' : SameContent(a, b)
        /\ gate_review_session \subseteq gate_review_session'
        /\ finding \subseteq finding'
        /\ gate_record \subseteq gate_record'
  BY <1>1, <1>2, <1>3
<1> QED
  BY <1>4, Invariance, PTL DEF GateSpec, JudgedContentStays

=============================================================================
