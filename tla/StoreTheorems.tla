--------------------------- MODULE StoreTheorems ----------------------------
(***************************************************************************)
(* Proofs about tables that guard themselves, under any sequence of        *)
(* statements: case_record with its CHECKs and its trigger, agent_run with *)
(* model_call, their keys and their foreign key; and about the view that   *)
(* adds up preparation_interval.                                           *)
(***************************************************************************)
EXTENDS CaseStore, RunStore, TimeStore, FiniteSetTheorems, TLAPS

-----------------------------------------------------------------------------
(***************************************************************************)
(* CaseStore: the rows the CHECKs admit and the steps the trigger does.    *)
(***************************************************************************)

\* The rows the three CHECKs of migration 0003 admit, in two-valued logic: the
\* status agrees with the state and with the lock, or it is NULL, and then
\* nothing at all is required of the state and of the lock.
THEOREM ChecksAdmit ==
  ASSUME NEW r \in CaseRows
  PROVE  ChecksPass(r) <=>
            \/ r.status = NULL
            \/ /\ r.status = r.state
               /\ IsTerminal(r) <=> r.status \in TERMINAL_STATES
<1> DEFINE terminal == r.status \in TERMINAL_STATES
           paused == r.status \in PAUSED_STATES
<1>1. True # False /\ Unknown # False /\ True # Unknown
  BY DEF True, False, Unknown
<1>2. NULL \notin STATES
  BY DEF NULL, STATES, ACTIVE_STATES, PAUSED_STATES, TERMINAL_STATES
<1>3. CASE r.status = NULL
  <2>1. ck_case_status_values(r) = True /\ ck_case_status_matches_state(r) = True
    BY <1>3 DEF ck_case_status_values, ck_case_status_matches_state, SqlOr, IsNull, Known
  <2>2. SqlIn(r.status, TERMINAL_STATES) = Unknown
    BY <1>3 DEF SqlIn
  <2>3. SqlOr(IsNull(r.status), SqlIn(r.status, PAUSED_STATES)) = True
    BY <1>3 DEF SqlOr, IsNull, Known
  <2>4. CheckPasses(ck_case_terminal_lock(r))
    <3>1. CASE IsTerminal(r)
      <4>1. Known(IsTerminal(r)) = True
        BY <3>1 DEF Known
      <4>2. SqlAnd(SqlIn(r.status, TERMINAL_STATES), Known(IsTerminal(r))) = Unknown
        BY <1>1, <2>2, <4>1 DEF SqlAnd
      <4> QED
        BY <1>1, <4>2 DEF ck_case_terminal_lock, CheckPasses, SqlOr
    <3>2. CASE ~IsTerminal(r)
      <4>1. Known(~IsTerminal(r)) = True
        BY <3>2 DEF Known
      <4>2. SqlAnd(True, Known(~IsTerminal(r))) = True
        BY <1>1, <4>1 DEF SqlAnd
      <4> QED
        BY <1>1, <2>3, <4>2 DEF ck_case_terminal_lock, CheckPasses, SqlOr
    <3> QED
      BY <3>1, <3>2
  <2> QED
    BY <1>1, <1>3, <2>1, <2>4 DEF ChecksPass, CheckPasses
<1>4. CASE r.status # NULL
  <2>1. r.status \in STATUS_STATES /\ r.state \in STATES /\ r.state # NULL
    BY <1>2, <1>4 DEF CaseRows
  <2>2. ck_case_status_values(r) = True
    BY <1>4, <2>1 DEF ck_case_status_values, SqlOr, SqlIn, Known
  <2>3. CheckPasses(ck_case_status_matches_state(r)) <=> r.status = r.state
    BY <1>1, <1>4, <2>1
       DEF ck_case_status_matches_state, CheckPasses, SqlOr, SqlEq, IsNull, Known
  <2>4. /\ SqlIn(r.status, TERMINAL_STATES) = Known(terminal)
        /\ SqlOr(IsNull(r.status), SqlIn(r.status, PAUSED_STATES)) = Known(paused)
    BY <1>1, <1>4 DEF SqlIn, SqlOr, IsNull, Known
  <2>5. paused <=> ~terminal
    BY <2>1 DEF STATUS_STATES, PAUSED_STATES, TERMINAL_STATES
  <2>6. CheckPasses(ck_case_terminal_lock(r)) <=> (IsTerminal(r) <=> terminal)
    <3>1. CASE terminal
      <4>1. Known(terminal) = True /\ Known(paused) = False
        BY <2>5, <3>1 DEF Known
      <4>2. SqlAnd(False, Known(~IsTerminal(r))) = False
        BY DEF SqlAnd
      <4>3. SqlAnd(True, Known(IsTerminal(r))) = Known(IsTerminal(r))
        BY <1>1 DEF SqlAnd, Known
      <4>4. ck_case_terminal_lock(r) = Known(IsTerminal(r))
        BY <1>1, <2>4, <4>1, <4>2, <4>3 DEF ck_case_terminal_lock, SqlOr, Known
      <4> QED
        BY <1>1, <3>1, <4>4 DEF CheckPasses, Known
    <3>2. CASE ~terminal
      <4>1. Known(terminal) = False /\ Known(paused) = True
        BY <2>5, <3>2 DEF Known
      <4>2. SqlAnd(False, Known(IsTerminal(r))) = False
        BY DEF SqlAnd
      <4>3. SqlAnd(True, Known(~IsTerminal(r))) = Known(~IsTerminal(r))
        BY <1>1 DEF SqlAnd, Known
      <4>4. ck_case_terminal_lock(r) = Known(~IsTerminal(r))
        BY <1>1, <2>4, <4>1, <4>2, <4>3 DEF ck_case_terminal_lock, SqlOr, Known
      <4> QED
        BY <1>1, <3>2, <4>4 DEF CheckPasses, Known
    <3> QED
      BY <3>1, <3>2
  <2>7. ChecksPass(r) <=> r.status = r.state /\ (IsTerminal(r) <=> terminal)
    BY <1>1, <2>2, <2>3, <2>6 DEF ChecksPass, CheckPasses
  <2> QED
    BY <1>4, <2>7
<1> QED
  BY <1>3, <1>4

-----------------------------------------------------------------------------
\* past holds older versions of the row, and the row itself.
StoreInv ==
    /\ CaseTypeOK
    /\ VersionNamesRow
    /\ TerminalStays
    /\ case_record \in past
    /\ \A r \in past : r.version <= case_record.version

LEMMA SameButHoldRules ==
  ASSUME NEW r \in CaseRows, NEW s \in CaseRows, NEW t \in CaseRows
  PROVE  /\ SameButHold(r, r)
         /\ SameButHold(r, s) => /\ SameButHold(s, r)
                                 /\ r.version = s.version
                                 /\ IsTerminal(r) <=> IsTerminal(s)
         /\ SameButHold(r, s) /\ SameButHold(s, t) => SameButHold(r, t)
BY DEF SameButHold, CaseRows, IsTerminal

LEMMA StoreInvStep ==
  ASSUME StoreInv, [CaseNext]_caseVars
  PROVE  StoreInv'
<1>1. CASE UNCHANGED caseVars
  BY <1>1 DEF StoreInv, caseVars, CaseTypeOK, VersionNamesRow, TerminalStays
<1>2. ASSUME NEW new \in Rows, Update(new) PROVE StoreInv'
  <2>1. PICK old : old = case_record
    OBVIOUS
  <2>2. /\ case_record' = new /\ past' = past \cup {new}
        /\ new \in CaseRows /\ old \in CaseRows /\ past \subseteq CaseRows
        /\ old \in past /\ old = case_record
    BY <1>2, <2>1, RowAssumption DEF Update, StoreInv, CaseTypeOK
  <2>3. SameButHold(new, new)
    BY <2>2, SameButHoldRules
  <2>4. new.version \in Nat /\ \A r \in past : r.version \in Nat
    BY <2>2 DEF CaseRows
  <2>5. CASE IsTerminal(old)
    <3>1. SameButHold(old, new) /\ new.version = old.version
      <4>1. SameButHold(old, new)
        BY <1>2, <2>1, <2>5 DEF Update, UpdateAdmitted, pls_case_update_guard, SameButHold
      <4> QED
        BY <2>2, <4>1, SameButHoldRules
    <3>2. ASSUME NEW s \in past, s.version = new.version
          PROVE  SameButHold(s, new) /\ SameButHold(new, s)
      <4>1. s \in CaseRows /\ SameButHold(s, old)
        BY <2>2, <3>1, <3>2 DEF StoreInv, VersionNamesRow
      <4> QED
        BY <2>2, <3>1, <4>1, SameButHoldRules
    <3>3. VersionNamesRow'
      BY <2>2, <2>3, <3>2 DEF StoreInv, VersionNamesRow
    <3>4. ASSUME NEW r \in past, IsTerminal(r) PROVE SameButHold(r, new)
      <4>1. r \in CaseRows /\ SameButHold(r, old)
        BY <2>2, <3>4 DEF StoreInv, TerminalStays
      <4> QED
        BY <2>2, <3>1, <4>1, SameButHoldRules
    <3>5. TerminalStays'
      BY <2>2, <2>3, <3>4 DEF TerminalStays
    <3>6. \A r \in past' : r.version <= case_record'.version
      BY <2>2, <2>4, <3>1 DEF StoreInv
    <3> QED
      BY <2>2, <3>3, <3>5, <3>6 DEF StoreInv, CaseTypeOK
  <2>6. CASE ~IsTerminal(old)
    <3>1. new.version > old.version
      BY <1>2, <2>1, <2>6 DEF Update, UpdateAdmitted, pls_case_update_guard
    <3>2. \A r \in past : r.version < new.version /\ new.version # r.version
      BY <2>2, <2>4, <3>1 DEF StoreInv
    <3>3. VersionNamesRow'
      BY <2>2, <2>3, <3>2 DEF StoreInv, VersionNamesRow
    <3>4. ASSUME NEW r \in past PROVE ~IsTerminal(r)
      <4>1. r \in CaseRows /\ (IsTerminal(r) => SameButHold(r, old))
        BY <2>2 DEF StoreInv, TerminalStays
      <4> QED
        BY <2>2, <2>6, <4>1, SameButHoldRules
    <3>5. TerminalStays'
      BY <2>2, <2>3, <3>4 DEF TerminalStays
    <3>6. \A r \in past' : r.version <= case_record'.version
      BY <2>2, <2>4, <3>2 DEF StoreInv
    <3> QED
      BY <2>2, <3>3, <3>5, <3>6 DEF StoreInv, CaseTypeOK
  <2> QED
    BY <2>5, <2>6
<1> QED
  BY <1>1, <1>2 DEF CaseNext

LEMMA StoreInvariant == CaseSpec => []StoreInv
<1>1. CaseInit => StoreInv
  <2> SUFFICES ASSUME CaseInit PROVE StoreInv
    OBVIOUS
  <2>1. case_record \in CaseRows /\ past = {case_record}
    BY RowAssumption DEF CaseInit
  <2>2. SameButHold(case_record, case_record)
    BY <2>1, SameButHoldRules
  <2>3. case_record.version \in Nat
    BY <2>1 DEF CaseRows
  <2>4. CaseTypeOK /\ VersionNamesRow /\ TerminalStays /\ case_record \in past
    BY <2>1, <2>2 DEF CaseTypeOK, VersionNamesRow, TerminalStays
  <2> QED
    BY <2>1, <2>3, <2>4 DEF StoreInv
<1> QED
  BY <1>1, StoreInvStep, PTL DEF CaseSpec

\* Whatever INSERT and UPDATE statements the worker role sends, a version
\* stands for one content of the row.
THEOREM VersionsIdentifyRows == CaseSpec => []VersionNamesRow
<1>1. StoreInv => VersionNamesRow
  BY DEF StoreInv
<1> QED
  BY <1>1, StoreInvariant, PTL

\* No sequence of statements brings a terminal case back or changes it.
THEOREM TerminalIsForever == CaseSpec => []TerminalStays
<1>1. StoreInv => TerminalStays
  BY DEF StoreInv
<1> QED
  BY <1>1, StoreInvariant, PTL

-----------------------------------------------------------------------------
(***************************************************************************)
(* RunStore: any number of runs and calls.                                 *)
(***************************************************************************)

\* The keys and the foreign key of parent_run_id: the inductive invariant.
RunIntegrity ==
    /\ \A r, s \in agent_run : r.id = s.id \/ AttemptOf(r) = AttemptOf(s) => r = s
    /\ \A r \in agent_run : r.parent \in IdsOf(agent_run) \cup {NULL}
    /\ \A j, k \in model_call : j.applied /\ k.applied /\ j.run = k.run => j = k

RunInv == RunTypeOK /\ RunIntegrity

\* Empty tables satisfy every key and reference.
THEOREM RunsInitially == RunInit => RunInv
BY DEF RunInit, RunInv, RunTypeOK, RunIntegrity

-----------------------------------------------------------------------------
(***************************************************************************)
(* One lemma per statement.                                                *)
(***************************************************************************)

LEMMA InsertRunKeeps ==
  ASSUME RunInv, NEW n \in Runs, InsertRun(n)
  PROVE  RunInv'
<1>1. agent_run' = agent_run \cup {n} /\ model_call' = model_call
  BY DEF InsertRun
<1>2. \A r, s \in agent_run' : r.id = s.id \/ AttemptOf(r) = AttemptOf(s) => r = s
  <2>1. \A r \in agent_run : n.id # r.id /\ AttemptOf(n) # AttemptOf(r)
    BY DEF InsertRun, IdsOf
  <2> QED
    BY <1>1, <2>1 DEF RunInv, RunIntegrity
<1>3. \A r \in agent_run' : r.parent \in IdsOf(agent_run') \cup {NULL}
  <2>1. IdsOf(agent_run') = IdsOf(agent_run) \cup {n.id}
    BY <1>1 DEF IdsOf
  <2>2. n.parent \in IdsOf(agent_run) \cup {n.id, NULL}
    BY DEF InsertRun
  <2> QED
    BY <1>1, <2>1, <2>2 DEF RunInv, RunIntegrity
<1> QED
  BY <1>1, <1>2, <1>3 DEF RunInv, RunTypeOK, RunIntegrity, AttemptOf

LEMMA UpdateRunKeeps ==
  ASSUME RunInv, NEW old \in agent_run, NEW new \in Runs, UpdateRun(old, new)
  PROVE  RunInv'
<1>1. agent_run' = (agent_run \ {old}) \cup {new} /\ model_call' = model_call
  BY DEF UpdateRun
<1>2. /\ new.id = old.id /\ new.parent = old.parent
      /\ AttemptOf(new) = AttemptOf(old)
  BY RunAssumption
  DEF UpdateRun, OnlyProgressChanges, RunInv, RunTypeOK, RunRows, AttemptOf
<1>3. \A r, s \in agent_run' : r.id = s.id \/ AttemptOf(r) = AttemptOf(s) => r = s
  BY <1>1, <1>2 DEF RunInv, RunIntegrity
<1>4. IdsOf(agent_run') = IdsOf(agent_run)
  BY <1>1, <1>2 DEF IdsOf
<1> QED
  BY <1>1, <1>2, <1>3, <1>4 DEF RunInv, RunTypeOK, RunIntegrity, AttemptOf

LEMMA InsertCallKeeps ==
  ASSUME RunInv, NEW k \in Calls, InsertCall(k)
  PROVE  RunInv'
BY DEF RunInv, RunTypeOK, RunIntegrity, InsertCall, AttemptOf

\* The keys hold of every table that statements can make.
THEOREM KeysHold == RunSpec => []RunInv
<1>1. ASSUME RunInv, [RunNext]_runVars
      PROVE  RunInv'
  <2>1. CASE \E r \in Runs : InsertRun(r)
    BY <1>1, <2>1, InsertRunKeeps
  <2>2. CASE \E old \in agent_run, new \in Runs : UpdateRun(old, new)
    BY <1>1, <2>2, UpdateRunKeeps
  <2>3. CASE \E k \in Calls : InsertCall(k)
    BY <1>1, <2>3, InsertCallKeeps
  <2>4. CASE UNCHANGED runVars
    BY <1>1, <2>4 DEF runVars, RunInv, RunTypeOK, RunIntegrity, AttemptOf
  <2> QED
    BY <1>1, <2>1, <2>2, <2>3, <2>4 DEF RunNext
<1> QED
  BY RunsInitially, <1>1, PTL DEF RunSpec

\* An attempt is one run, and a run has one applied call.
LEMMA KeysMeanOneAnswer == RunInv => OneAnswerIsApplied
<1> SUFFICES ASSUME RunInv,
                    NEW a \in Cases \X Roles \X AttemptNumbers,
                    NEW j \in AppliedTo(a), NEW k \in AppliedTo(a)
             PROVE  j = k
  BY DEF OneAnswerIsApplied
<1>1. PICK r \in agent_run : r.id = j.run /\ AttemptOf(r) = a
  BY DEF AppliedTo
<1>2. PICK s \in agent_run : s.id = k.run /\ AttemptOf(s) = a
  BY DEF AppliedTo
<1>3. r = s
  BY <1>1, <1>2 DEF RunInv, RunIntegrity
<1> QED
  BY <1>1, <1>2, <1>3 DEF RunInv, RunIntegrity, AppliedTo

\* However often an attempt is repeated and however late its calls return, one
\* answer at most is applied (uq_model_call_applied_per_attempt, 0003, and the
\* key of agent_run, 0002).
THEOREM OneAnswer == RunSpec => []OneAnswerIsApplied
BY KeysHold, KeysMeanOneAnswer, PTL

-----------------------------------------------------------------------------
(***************************************************************************)
(* The ancestors of a run.                                                 *)
(***************************************************************************)

\* No run that is there names a run to come: a new run is nobody's ancestor.
LEMMA InsertRunKeepsAncestors ==
  ASSUME RunInv, NEW n \in Runs, InsertRun(n), NEW r \in agent_run
  PROVE  Ancestors(r)' = Ancestors(r)
<1>1. agent_run' = agent_run \cup {n} /\ n.id \notin IdsOf(agent_run)
  BY DEF InsertRun
<1>2. n.id # NULL
  BY RunAssumption, IdAssumption DEF RunRows
<1>3. \A s \in agent_run : s.parent # n.id
  BY <1>1, <1>2 DEF RunInv, RunIntegrity
<1>4. IdsOf(agent_run)' = IdsOf(agent_run) \cup {n.id}
  BY <1>1 DEF IdsOf
<1>5. ASSUME NEW S \in SUBSET IdsOf(agent_run), IsAncestorClosed(S, r)
      PROVE  IsAncestorClosed(S, r)'
  <2>1. n.id \notin S
    BY <1>1
  <2> SUFFICES ASSUME NEW p \in agent_run',
                      p.id = r.parent \/ \E s \in agent_run' : s.id \in S /\ s.parent = p.id
               PROVE  p.id \in S
    BY DEF IsAncestorClosed
  <2>2. p.id = r.parent \/ \E s \in agent_run : s.id \in S /\ s.parent = p.id
    BY <1>1, <2>1
  <2>3. p \in agent_run
    BY <1>1, <1>3, <2>2
  <2> QED
    BY <1>5, <2>2, <2>3 DEF IsAncestorClosed
<1>6. ASSUME NEW S \in SUBSET IdsOf(agent_run)', IsAncestorClosed(S, r)'
      PROVE  IsAncestorClosed(S \cap IdsOf(agent_run), r)
  BY <1>1, <1>6 DEF IsAncestorClosed, IdsOf
<1>7. IsAncestorClosed(IdsOf(agent_run), r)
  BY DEF IsAncestorClosed, IdsOf
<1>8. ASSUME NEW i \in Ancestors(r)'
      PROVE  i \in Ancestors(r)
  <2>1. \A S \in SUBSET IdsOf(agent_run) : IsAncestorClosed(S, r) => i \in S
    BY <1>4, <1>5 DEF Ancestors
  <2> QED
    BY <2>1, <1>7 DEF Ancestors
<1>9. ASSUME NEW i \in Ancestors(r)
      PROVE  i \in Ancestors(r)'
  <2>1. i \in IdsOf(agent_run)'
    BY <1>4 DEF Ancestors
  <2>2. ASSUME NEW S \in SUBSET IdsOf(agent_run)', IsAncestorClosed(S, r)'
        PROVE  i \in S
    BY <1>6, <2>2 DEF Ancestors
  <2> QED
    BY <2>1, <2>2 DEF Ancestors
<1> QED
  BY <1>8, <1>9

\* An update leaves the identifiers and the parents.
LEMMA UpdateRunKeepsAncestors ==
  ASSUME RunInv, NEW old \in agent_run, NEW new \in Runs, UpdateRun(old, new),
         NEW r \in agent_run, NEW s \in agent_run', s.parent = r.parent
  PROVE  Ancestors(s)' = Ancestors(r)
<1>1. agent_run' = (agent_run \ {old}) \cup {new}
  BY DEF UpdateRun
<1>2. new.id = old.id /\ new.parent = old.parent
  BY RunAssumption DEF UpdateRun, OnlyProgressChanges, RunInv, RunTypeOK, RunRows
<1>3. IdsOf(agent_run)' = IdsOf(agent_run)
  BY <1>1, <1>2 DEF IdsOf
<1>4. \A S \in SUBSET IdsOf(agent_run) : IsAncestorClosed(S, s)' <=> IsAncestorClosed(S, r)
  BY <1>1, <1>2 DEF IsAncestorClosed
<1> QED
  BY <1>3, <1>4 DEF Ancestors

LEMMA InsertRunKeepsLineage ==
  ASSUME RunInv, NEW n \in Runs, InsertRun(n), NEW r \in agent_run
  PROVE  Lineage(r)' = Lineage(r)
<1>1. Ancestors(r)' = Ancestors(r)
  BY InsertRunKeepsAncestors
<1>2. agent_run' = agent_run \cup {n} /\ n.id \notin IdsOf(agent_run)
  BY DEF InsertRun
<1>3. n.id \notin Ancestors(r)
  BY <1>2 DEF Ancestors
<1> QED
  BY <1>1, <1>2, <1>3 DEF Lineage

LEMMA UpdateRunKeepsLineage ==
  ASSUME RunInv, NEW old \in agent_run, NEW new \in Runs, UpdateRun(old, new),
         NEW r \in agent_run
  PROVE  \E s \in agent_run' :
             s.id = r.id /\ s.purpose = r.purpose /\ Lineage(s)' = Lineage(r)
<1>1. agent_run' = (agent_run \ {old}) \cup {new}
  BY DEF UpdateRun
<1>2. new.id = old.id /\ new.parent = old.parent /\ new.purpose = old.purpose
  BY RunAssumption DEF UpdateRun, OnlyProgressChanges, RunInv, RunTypeOK, RunRows
<1>3. PICK s \in agent_run' : s.id = r.id /\ s.parent = r.parent /\ s.purpose = r.purpose
  BY <1>1, <1>2
<1>4. Ancestors(s)' = Ancestors(r)
  BY <1>3, UpdateRunKeepsAncestors
<1>5. Lineage(s)' = Lineage(r)
  BY <1>1, <1>2, <1>4 DEF Lineage
<1> QED
  BY <1>3, <1>5

\* The ancestors of a run, their purposes and the calls are final: what the Gate
\* Engine has read of them stays true (trg_agent_run_update, and the missing
\* privileges to delete a run and to change a call).
THEOREM LineageIsFinal == RunSpec => LineageStays
<1> DEFINE Kept ==
      /\ \A r \in agent_run :
            \E s \in agent_run' :
               s.id = r.id /\ s.purpose = r.purpose /\ Lineage(s)' = Lineage(r)
      /\ model_call \subseteq model_call'
<1>1. ASSUME RunInv, RunNext
      PROVE  Kept
  <2>1. ASSUME NEW n \in Runs, InsertRun(n)
        PROVE  Kept
    BY <1>1, <2>1, InsertRunKeepsLineage DEF InsertRun
  <2>2. ASSUME NEW old \in agent_run, NEW new \in Runs, UpdateRun(old, new)
        PROVE  Kept
    BY <1>1, <2>2, UpdateRunKeepsLineage DEF UpdateRun
  <2>3. ASSUME NEW k \in Calls, InsertCall(k)
        PROVE  Kept
    <3>1. agent_run' = agent_run /\ model_call \subseteq model_call'
      BY <2>3 DEF InsertCall
    <3>2. \A r \in agent_run : Lineage(r)' = Lineage(r)
      <4> TAKE r \in agent_run
      <4>1. IdsOf(agent_run)' = IdsOf(agent_run)
        BY <3>1
      <4>2. \A S : IsAncestorClosed(S, r)' <=> IsAncestorClosed(S, r)
        BY <3>1 DEF IsAncestorClosed
      <4>3. Ancestors(r)' = Ancestors(r)
        BY <4>1, <4>2 DEF Ancestors
      <4> QED
        BY <3>1, <4>3 DEF Lineage
    <3> QED
      BY <3>1, <3>2
  <2> QED
    BY <1>1, <2>1, <2>2, <2>3 DEF RunNext
<1>2. RunInv /\ [RunNext]_runVars => [Kept]_runVars
  BY <1>1
<1> QED
  BY KeysHold, <1>2, PTL DEF RunSpec, LineageStays

-----------------------------------------------------------------------------
(***************************************************************************)
(* TimeStore: what the view adds up.  The recursion behind FoldSet and the *)
(* inductions over sets are first-order: the smallest subset at which a    *)
(* claim fails is taken, and it does not exist.                            *)
(***************************************************************************)

\* A set of subsets of a finite set has a smallest member.  A property of every
\* subset follows: no smallest subset violates it.
LEMMA SmallestSet ==
  ASSUME NEW S, IsFiniteSet(S), NEW C \in SUBSET (SUBSET S), C # {}
  PROVE  \E T \in C : \A U \in C : U \subseteq T => U = T
<1>1. FiniteSubsetsOf(S) = SUBSET S
  BY FS_FiniteSubsetsOfFinite
<1>2. IsWellFoundedOn(StrictSubsetOrdering(S), SUBSET S)
  BY <1>1, FS_StrictSubsetOrderingWellFounded
<1>3. \E T \in C : \A U \in C : <<U, T>> \notin StrictSubsetOrdering(S)
  BY <1>2, WFMin
<1> QED
  BY <1>3 DEF StrictSubsetOrdering

\* FoldSet takes its elements in the order of CHOOSE.
First(s) == CHOOSE x \in s : TRUE
Rest(s) == s \ {First(s)}

\* The first element is one of the set, and the rest is smaller.
LEMMA FirstIsIn ==
  ASSUME NEW s, s # {}
  PROVE  /\ First(s) \in s
         /\ Rest(s) \subseteq s
         /\ Rest(s) # s
BY DEF First, Rest

\* g gives the fold over every subset of S.
Follows(g, op, base, S) ==
    \A s \in SUBSET S : g[s] = IF s = {} THEN base ELSE op[<<First(s), g[Rest(s)]>>]

\* The recursion determines its values: two functions that follow it agree.
LEMMA FollowsOnce ==
  ASSUME NEW op, NEW base, NEW g, NEW h, NEW U, NEW V, NEW T, IsFiniteSet(T),
         Follows(g, op, base, U), Follows(h, op, base, V),
         T \subseteq U, T \subseteq V
  PROVE  g[T] = h[T]
<1> DEFINE C == {W \in SUBSET T : g[W] # h[W]}
<1>1. SUFFICES ASSUME C # {} PROVE FALSE
  OBVIOUS
<1>2. PICK W \in C : \A X \in C : X \subseteq W => X = W
  <2>1. C \in SUBSET (SUBSET T)
    OBVIOUS
  <2> HIDE DEF C
  <2> QED
    BY <1>1, <2>1, SmallestSet
<1>3. W \in SUBSET U /\ W \in SUBSET V
  OBVIOUS
<1>4. W # {}
  <2> SUFFICES ASSUME W = {} PROVE FALSE
    OBVIOUS
  <2>1. g[W] = base /\ h[W] = base
    BY <1>3 DEF Follows
  <2> QED
    BY <2>1
<1>5. Rest(W) \subseteq W /\ Rest(W) # W
  BY <1>4, FirstIsIn
<1>6. g[Rest(W)] = h[Rest(W)]
  BY <1>2, <1>5
<1> QED
  BY <1>3, <1>4, <1>6 DEF Follows

\* There is a function that follows the recursion, whatever the operator does.
LEMMA FollowsExists ==
  ASSUME NEW op, NEW base, NEW S, IsFiniteSet(S)
  PROVE  \E g : Follows(g, op, base, S)
<1> DEFINE C == {T \in SUBSET S : ~ \E g : Follows(g, op, base, T)}
           G(T) == CHOOSE g : Follows(g, op, base, T)
<1>1. SUFFICES ASSUME C # {} PROVE FALSE
  OBVIOUS
<1>2. PICK T \in C : \A U \in C : U \subseteq T => U = T
  <2>1. C \in SUBSET (SUBSET S)
    OBVIOUS
  <2> HIDE DEF C
  <2> QED
    BY <1>1, <2>1, SmallestSet
<1> DEFINE g == [s \in SUBSET T |-> IF s = {} THEN base
                                    ELSE op[<<First(s), G(Rest(s))[Rest(s)]>>]]
<1>3. \A U \in SUBSET T : U # T => Follows(G(U), op, base, U)
  <2> SUFFICES ASSUME NEW U \in SUBSET T, U # T PROVE Follows(G(U), op, base, U)
    OBVIOUS
  <2>1. U \notin C /\ U \in SUBSET S
    BY <1>2
  <2>2. PICK k : Follows(k, op, base, U)
    BY <2>1
  <2> QED
    BY <2>2
<1>4. \A U \in SUBSET T : U # T => g[U] = G(U)[U]
  <2> SUFFICES ASSUME NEW U \in SUBSET T, U # T PROVE g[U] = G(U)[U]
    OBVIOUS
  <2>1. Follows(G(U), op, base, U)
    BY <1>3
  <2>2. CASE U = {}
    BY <2>1, <2>2 DEF Follows
  <2>3. CASE U # {}
    <3>1. Rest(U) \subseteq U /\ Rest(U) \subseteq T /\ Rest(U) # T
      BY <2>3, FirstIsIn
    <3>2. Follows(G(Rest(U)), op, base, Rest(U))
      BY <1>3, <3>1
    <3>3. IsFiniteSet(Rest(U))
      BY <3>1, FS_Subset
    <3> HIDE DEF G
    <3>4. G(Rest(U))[Rest(U)] = G(U)[Rest(U)]
      BY <2>1, <3>1, <3>2, <3>3, FollowsOnce
    <3>5. G(U)[U] = op[<<First(U), G(U)[Rest(U)]>>]
      BY <2>1, <2>3 DEF Follows
    <3>6. g[U] = op[<<First(U), G(Rest(U))[Rest(U)]>>]
      BY <2>3
    <3> QED
      BY <3>4, <3>5, <3>6
  <2> QED
    BY <2>2, <2>3
<1>5. Follows(g, op, base, T)
  <2> SUFFICES ASSUME NEW s \in SUBSET T
               PROVE  g[s] = IF s = {} THEN base ELSE op[<<First(s), g[Rest(s)]>>]
    BY DEF Follows
  <2>1. CASE s = {}
    BY <2>1
  <2>2. CASE s # {}
    <3>1. Rest(s) \in SUBSET T /\ Rest(s) # T
      BY <2>2, FirstIsIn
    <3>2. g[Rest(s)] = G(Rest(s))[Rest(s)]
      BY <1>4, <3>1
    <3> QED
      BY <2>2, <3>2
  <2> QED
    BY <2>1, <2>2
<1> QED
  BY <1>5

-----------------------------------------------------------------------------
\* Ranges that are not empty, and the moments in one and in any of a set.
Spans == {s \in [low : Int, high : Int] : s.low < s.high}
Moments(s) == s.low .. s.high - 1
Cover(S) == UNION {Moments(s) : s \in S}

\* Spans of which no two overlap or touch.
Apart(S) == \A s, t \in S : s # t => s.high < t.low \/ t.high < s.low
ApartSets == {S \in SUBSET Spans : IsFiniteSet(S) /\ Apart(S)}

\* A finite set of spans has one that starts first and one that ends last: Min and
\* Max of the merged range are bounds of spans that are there.
LEMMA LowestSpan ==
  ASSUME NEW S \in SUBSET Spans, IsFiniteSet(S), S # {}
  PROVE  \E s \in S : \A t \in S : s.low <= t.low
<1> DEFINE Good(T) == \E s \in T : \A t \in T : s.low <= t.low
           C == {T \in SUBSET S : T # {} /\ ~Good(T)}
<1>1. SUFFICES ASSUME C # {} PROVE FALSE
  OBVIOUS
<1>2. PICK T \in C : \A U \in C : U \subseteq T => U = T
  <2>1. C \in SUBSET (SUBSET S)
    OBVIOUS
  <2> HIDE DEF C
  <2> QED
    BY <1>1, <2>1, SmallestSet
<1>3. PICK x \in T : TRUE
  OBVIOUS
<1>4. T \ {x} \subseteq T /\ T \ {x} # T
  OBVIOUS
<1>5. \A t \in T : t.low \in Int
  BY DEF Spans
<1>6. CASE T \ {x} = {}
  <2>1. T = {x}
    BY <1>6
  <2> QED
    BY <1>5, <2>1
<1>7. CASE T \ {x} # {}
  <2>1. Good(T \ {x})
    BY <1>2, <1>4, <1>7
  <2>2. PICK m \in T \ {x} : \A t \in T \ {x} : m.low <= t.low
    BY <2>1
  <2>3. CASE x.low <= m.low
    <3>1. \A t \in T : x.low <= t.low
      BY <1>5, <2>2, <2>3
    <3> QED
      BY <3>1
  <2>4. CASE ~(x.low <= m.low)
    <3>1. \A t \in T : m.low <= t.low
      BY <1>5, <2>2, <2>4
    <3> QED
      BY <3>1
  <2> QED
    BY <2>3, <2>4
<1> QED
  BY <1>6, <1>7

\* The span of a finite set that ends last.
LEMMA HighestSpan ==
  ASSUME NEW S \in SUBSET Spans, IsFiniteSet(S), S # {}
  PROVE  \E s \in S : \A t \in S : s.high >= t.high
<1> DEFINE Good(T) == \E s \in T : \A t \in T : s.high >= t.high
           C == {T \in SUBSET S : T # {} /\ ~Good(T)}
<1>1. SUFFICES ASSUME C # {} PROVE FALSE
  OBVIOUS
<1>2. PICK T \in C : \A U \in C : U \subseteq T => U = T
  <2>1. C \in SUBSET (SUBSET S)
    OBVIOUS
  <2> HIDE DEF C
  <2> QED
    BY <1>1, <2>1, SmallestSet
<1>3. PICK x \in T : TRUE
  OBVIOUS
<1>4. T \ {x} \subseteq T /\ T \ {x} # T
  OBVIOUS
<1>5. \A t \in T : t.high \in Int
  BY DEF Spans
<1>6. CASE T \ {x} = {}
  <2>1. T = {x}
    BY <1>6
  <2> QED
    BY <1>5, <2>1
<1>7. CASE T \ {x} # {}
  <2>1. Good(T \ {x})
    BY <1>2, <1>4, <1>7
  <2>2. PICK m \in T \ {x} : \A t \in T \ {x} : m.high >= t.high
    BY <2>1
  <2>3. CASE x.high >= m.high
    <3>1. \A t \in T : x.high >= t.high
      BY <1>5, <2>2, <2>3
    <3> QED
      BY <3>1
  <2>4. CASE ~(x.high >= m.high)
    <3>1. \A t \in T : m.high >= t.high
      BY <1>5, <2>2, <2>4
    <3> QED
      BY <3>1
  <2> QED
    BY <2>3, <2>4
<1> QED
  BY <1>6, <1>7

\* Near: the spans a range overlaps or touches, and itself.
Near(range, spans) ==
    {s \in spans : s.low <= range.high /\ range.low <= s.high} \cup {range}

\* A range and what it touches become one span, from the lowest to the highest.
LEMMA AbsorbIs ==
  ASSUME NEW range \in Spans, NEW spans \in ApartSets
  PROVE  \E a, b \in Near(range, spans) :
            /\ \A s \in Near(range, spans) : a.low <= s.low /\ s.high <= b.high
            /\ Absorb(range, spans) = (spans \ Near(range, spans)) \cup
                                          {[low |-> a.low, high |-> b.high]}
<1> DEFINE near == Near(range, spans)
<1>1. near \in SUBSET Spans /\ near # {}
  BY DEF Near, ApartSets
<1>2. IsFiniteSet(near)
  <2>1. IsFiniteSet({s \in spans : s.low <= range.high /\ range.low <= s.high})
    BY FS_Subset DEF ApartSets
  <2> QED
    BY <2>1, FS_AddElement DEF Near
<1>3. PICK a \in near : \A s \in near : a.low <= s.low
  <2> HIDE DEF near
  <2> QED
    BY <1>1, <1>2, LowestSpan
<1>4. PICK b \in near : \A s \in near : b.high >= s.high
  <2> HIDE DEF near
  <2> QED
    BY <1>1, <1>2, HighestSpan
<1>5. \A s \in near : s.low \in Int /\ s.high \in Int
  BY <1>1 DEF Spans
<1>6. Min({s.low : s \in near}) = a.low
  <2> DEFINE L == {s.low : s \in near}
  <2> HIDE DEF near
  <2>1. a.low \in L /\ \A y \in L : a.low <= y
    BY <1>3
  <2>2. \A x \in L : x \in Int
    BY <1>5
  <2> HIDE DEF L
  <2>3. \A x \in L : (\A y \in L : x <= y) => x = a.low
    BY <2>1, <2>2
  <2>4. Min(L) \in L /\ \A y \in L : Min(L) <= y
    BY <2>1 DEF Min
  <2>5. Min(L) = a.low
    BY <2>3, <2>4
  <2> QED
    BY <2>5 DEF L
<1>7. Max({s.high : s \in near}) = b.high
  <2> DEFINE L == {s.high : s \in near}
  <2> HIDE DEF near
  <2>1. b.high \in L /\ \A y \in L : b.high >= y
    BY <1>4
  <2>2. \A x \in L : x \in Int
    BY <1>5
  <2> HIDE DEF L
  <2>3. \A x \in L : (\A y \in L : x >= y) => x = b.high
    BY <2>1, <2>2
  <2>4. Max(L) \in L /\ \A y \in L : Max(L) >= y
    BY <2>1 DEF Max
  <2>5. Max(L) = b.high
    BY <2>3, <2>4
  <2> QED
    BY <2>5 DEF L
<1>8. Absorb(range, spans) = (spans \ near) \cup
          {[low |-> Min({s.low : s \in near}), high |-> Max({s.high : s \in near})]}
  BY DEF Absorb, Near
<1>9. Absorb(range, spans) = (spans \ near) \cup {[low |-> a.low, high |-> b.high]}
  BY <1>6, <1>7, <1>8
<1>10. \A s \in near : a.low <= s.low /\ s.high <= b.high
  BY <1>3, <1>4, <1>5
<1> QED
  BY <1>3, <1>4, <1>9, <1>10

\* One step of range_agg: no moment is lost or invented, and what comes out is apart.
LEMMA AbsorbKeeps ==
  ASSUME NEW range \in Spans, NEW spans \in ApartSets
  PROVE  /\ Absorb(range, spans) \in ApartSets
         /\ Cover(Absorb(range, spans)) = Cover(spans) \cup Moments(range)
<1> DEFINE near == Near(range, spans)
<1>1. PICK a \in near, b \in near :
         /\ \A s \in near : a.low <= s.low /\ s.high <= b.high
         /\ Absorb(range, spans) = (spans \ near) \cup {[low |-> a.low, high |-> b.high]}
  BY AbsorbIs
<1>2. near \subseteq Spans /\ range \in near /\ near \subseteq spans \cup {range}
  BY DEF Near, ApartSets
<1>3. \A s \in near : s.low \in Int /\ s.high \in Int /\ s.low < s.high
  BY <1>2 DEF Spans
<1>4. \A s \in near : s.low <= range.high /\ range.low <= s.high
  BY <1>3, <1>2 DEF Near
<1>5. \A t \in spans \ near : /\ t.low \in Int /\ t.high \in Int /\ t.low < t.high
                              /\ t.low > range.high \/ t.high < range.low
  BY <1>3, <1>2 DEF Near, Spans, ApartSets
<1>6. \A t \in spans \ near, s \in near \ {range} : t.high < s.low \/ s.high < t.low
  BY <1>2 DEF ApartSets, Apart
<1> DEFINE all == [low |-> a.low, high |-> b.high]
<1>7. all \in Spans
  BY <1>1, <1>2, <1>3 DEF Spans
<1>8. \A t \in spans \ near : all.high < t.low \/ t.high < all.low
  <2> SUFFICES ASSUME NEW t \in spans \ near
               PROVE  b.high < t.low \/ t.high < a.low
    OBVIOUS
  <2> USE <1>2, <1>3
  <2>1. CASE t.low > range.high
    <3>1. b = range \/ b.high < t.low
      BY <1>4, <1>5, <1>6, <2>1
    <3> QED
      BY <2>1, <3>1
  <2>2. CASE t.high < range.low
    <3>1. a = range \/ t.high < a.low
      BY <1>4, <1>5, <1>6, <2>2
    <3> QED
      BY <2>2, <3>1
  <2> QED
    BY <1>5, <2>1, <2>2
<1> DEFINE new == (spans \ near) \cup {all}
<1>9. new \in SUBSET Spans
  BY <1>7 DEF ApartSets
<1>10. Apart(new)
  <2>1. \A s, t \in spans \ near : s # t => s.high < t.low \/ t.high < s.low
    BY DEF ApartSets, Apart
  <2> HIDE DEF near, all
  <2> QED
    BY <1>8, <2>1 DEF Apart
<1>11. IsFiniteSet(new)
  <2>1. IsFiniteSet(spans \ near)
    BY FS_Subset DEF ApartSets
  <2> QED
    BY <2>1, FS_AddElement
<1>12. Moments(all) = Cover(near)
  <2>1. \A s \in near : Moments(s) \subseteq Moments(all)
    <3> SUFFICES ASSUME NEW s \in near, NEW x \in Moments(s) PROVE x \in Moments(all)
      OBVIOUS
    <3>1. x \in Int /\ s.low <= x /\ x <= s.high - 1
      BY <1>3 DEF Moments
    <3>2. a.low <= s.low /\ s.high <= b.high
      BY <1>1
    <3>3. a.low <= x /\ x <= b.high - 1
      BY <1>3, <3>1, <3>2
    <3> QED
      BY <1>3, <3>1, <3>3 DEF Moments
  <2>2. ASSUME NEW x \in Moments(all) PROVE \E s \in near : x \in Moments(s)
    <3>1. x \in Int /\ a.low <= x /\ x <= b.high - 1
      BY <1>3, <2>2 DEF Moments
    <3>2. CASE x < range.low
      <4>1. a.low <= x /\ x <= a.high - 1
        BY <1>2, <1>3, <1>4, <3>1, <3>2
      <4> QED
        BY <1>3, <3>1, <4>1 DEF Moments
    <3>3. CASE x >= range.high
      <4>1. b.low <= x /\ x <= b.high - 1
        BY <1>2, <1>3, <1>4, <3>1, <3>3
      <4> QED
        BY <1>3, <3>1, <4>1 DEF Moments
    <3>4. CASE range.low <= x /\ x < range.high
      <4>1. x <= range.high - 1
        BY <1>2, <1>3, <3>1, <3>4
      <4> QED
        BY <1>2, <1>3, <3>1, <3>4, <4>1 DEF Moments
    <3> QED
      BY <1>2, <1>3, <3>1, <3>2, <3>3, <3>4
  <2> QED
    BY <2>1, <2>2 DEF Cover
<1>13. Cover(new) = Cover(spans) \cup Moments(range)
  <2>1. Cover(new) = Cover(spans \ near) \cup Moments(all)
    BY DEF Cover
  <2>2. Cover(spans) \cup Moments(range) = Cover(spans \ near) \cup Cover(near)
    BY <1>2 DEF Cover
  <2> QED
    BY <1>12, <2>1, <2>2
<1>14. Absorb(range, spans) = new
  BY <1>1
<1> QED
  BY <1>9, <1>10, <1>11, <1>13, <1>14 DEF ApartSets

\* Nothing is apart and covers nothing.
LEMMA NoSpans == {} \in ApartSets /\ Cover({}) = {}
BY FS_EmptySet DEF ApartSets, Apart, Cover

\* Absorb as a function.
AbsorbOne == [p \in Spans \X ApartSets |-> Absorb(p[1], p[2])]

\* range_agg absorbs the ranges one after the other: the function that FoldSet
\* chooses exists, and so it follows the recursion.
LEMMA AbsorbFold ==
  ASSUME NEW S \in SUBSET Spans, IsFiniteSet(S)
  PROVE  \E g : /\ range_agg(S) = g[S]
                /\ \A s \in SUBSET S :
                      g[s] = IF s = {} THEN {} ELSE Absorb(First(s), g[Rest(s)])
<1> DEFINE Is(g) == g = [s \in SUBSET S |->
               IF s = {} THEN {}
               ELSE Absorb(CHOOSE x \in s : TRUE, g[s \ {CHOOSE x \in s : TRUE}])]
<1>1. range_agg(S) = (CHOOSE g : Is(g))[S]
  BY DEF range_agg, FoldSet, MapThenFoldSet
<1>2. PICK h : Follows(h, AbsorbOne, {}, S)
  BY FollowsExists
<1> DEFINE C == {s \in SUBSET S : h[s] \notin ApartSets}
<1>3. C = {}
  <2>1. SUFFICES ASSUME C # {} PROVE FALSE
    OBVIOUS
  <2>2. PICK T \in C : \A U \in C : U \subseteq T => U = T
    <3>1. C \in SUBSET (SUBSET S)
      OBVIOUS
    <3> HIDE DEF C
    <3> QED
      BY <2>1, <3>1, SmallestSet
  <2>3. CASE T = {}
    BY <1>2, <2>3, NoSpans DEF Follows
  <2>4. CASE T # {}
    <3>1. Rest(T) \subseteq T /\ Rest(T) # T /\ First(T) \in Spans
      BY <2>4, FirstIsIn
    <3>2. h[Rest(T)] \in ApartSets
      BY <2>2, <3>1
    <3>3. h[T] = AbsorbOne[<<First(T), h[Rest(T)]>>]
      BY <1>2, <2>4 DEF Follows
    <3>4. h[T] = Absorb(First(T), h[Rest(T)])
      BY <3>1, <3>2, <3>3 DEF AbsorbOne
    <3> QED
      BY <3>1, <3>2, <3>4, AbsorbKeeps
  <2> QED
    BY <2>3, <2>4
<1>4. \A s \in SUBSET S : h[s] = IF s = {} THEN {} ELSE Absorb(First(s), h[Rest(s)])
  <2> SUFFICES ASSUME NEW s \in SUBSET S
               PROVE  h[s] = IF s = {} THEN {} ELSE Absorb(First(s), h[Rest(s)])
    OBVIOUS
  <2>1. CASE s = {}
    BY <1>2, <2>1 DEF Follows
  <2>2. CASE s # {}
    <3>1. Rest(s) \in SUBSET S /\ First(s) \in Spans
      BY <2>2, FirstIsIn
    <3>2. h[Rest(s)] \in ApartSets
      BY <1>3, <3>1
    <3>3. h[s] = AbsorbOne[<<First(s), h[Rest(s)]>>]
      BY <1>2, <2>2 DEF Follows
    <3> QED
      BY <2>2, <3>1, <3>2, <3>3 DEF AbsorbOne
  <2> QED
    BY <2>1, <2>2
<1> DEFINE g == [s \in SUBSET S |-> h[s]]
<1>5. Is(g)
  <2>1. \A s \in SUBSET S : s # {} => Rest(s) \in SUBSET S
    BY FirstIsIn
  <2>2. \A s \in SUBSET S : g[s] = IF s = {} THEN {} ELSE Absorb(First(s), g[Rest(s)])
    BY <1>4, <2>1
  <2> HIDE DEF g
  <2>3. g = [s \in SUBSET S |-> g[s]]
    BY DEF g
  <2> QED
    BY <2>2, <2>3 DEF First, Rest
<1>6. Is(CHOOSE f : Is(f))
  <2> HIDE DEF Is, g
  <2> QED
    BY <1>5
<1> DEFINE f == CHOOSE k : Is(k)
<1>7. \A s \in SUBSET S : f[s] = IF s = {} THEN {} ELSE Absorb(First(s), f[Rest(s)])
  <2> HIDE DEF f
  <2>1. Is(f)
    BY <1>6 DEF f
  <2> QED
    BY <2>1 DEF First, Rest
<1>8. range_agg(S) = f[S]
  BY <1>1
<1> QED
  BY <1>7, <1>8

\* range_agg loses no moment, invents none, and returns spans that are apart.
LEMMA AggCovers ==
  ASSUME NEW S \in SUBSET Spans, IsFiniteSet(S)
  PROVE  range_agg(S) \in ApartSets /\ Cover(range_agg(S)) = Cover(S)
<1>1. PICK g : /\ range_agg(S) = g[S]
               /\ \A s \in SUBSET S :
                     g[s] = IF s = {} THEN {} ELSE Absorb(First(s), g[Rest(s)])
  BY AbsorbFold
<1> DEFINE Right(s) == g[s] \in ApartSets /\ Cover(g[s]) = Cover(s)
           C == {s \in SUBSET S : ~Right(s)}
<1>2. C = {}
  <2>1. SUFFICES ASSUME C # {} PROVE FALSE
    OBVIOUS
  <2>2. PICK T \in C : \A U \in C : U \subseteq T => U = T
    <3>1. C \in SUBSET (SUBSET S)
      OBVIOUS
    <3> HIDE DEF C
    <3> QED
      BY <2>1, <3>1, SmallestSet
  <2>3. CASE T = {}
    <3>1. g[T] = {}
      BY <1>1, <2>3
    <3> QED
      BY <2>3, <3>1, NoSpans
  <2>4. CASE T # {}
    <3>1. Rest(T) \subseteq T /\ Rest(T) # T /\ First(T) \in T /\ First(T) \in Spans
      BY <2>4, FirstIsIn
    <3>2. Right(Rest(T))
      BY <2>2, <3>1
    <3>3. g[T] = Absorb(First(T), g[Rest(T)])
      BY <1>1, <2>4
    <3>4. g[T] \in ApartSets /\ Cover(g[T]) = Cover(g[Rest(T)]) \cup Moments(First(T))
      BY <3>1, <3>2, <3>3, AbsorbKeeps
    <3>5. Cover(T) = Cover(Rest(T)) \cup Moments(First(T))
      BY <3>1 DEF Cover, Rest
    <3> QED
      BY <3>2, <3>4, <3>5
  <2> QED
    BY <2>3, <2>4
<1> QED
  BY <1>1, <1>2

\* The step of preparation_budget, as a function, and its sum.
LengthOne == [p \in Spans \X Int |-> p[2] + (p[1].high - p[1].low)]

Total(S) == FoldSet(LAMBDA span, total : total + (span.high - span.low), 0, S)

\* The sum adds the lengths one after the other.
LEMMA TotalFold ==
  ASSUME NEW S \in SUBSET Spans, IsFiniteSet(S)
  PROVE  \E g : /\ Total(S) = g[S]
                /\ \A s \in SUBSET S :
                      g[s] = IF s = {} THEN 0
                             ELSE g[Rest(s)] + (First(s).high - First(s).low)
<1> DEFINE Is(g) == g = [s \in SUBSET S |->
               IF s = {} THEN 0
               ELSE g[s \ {CHOOSE x \in s : TRUE}]
                    + ((CHOOSE x \in s : TRUE).high - (CHOOSE x \in s : TRUE).low)]
<1>1. Total(S) = (CHOOSE g : Is(g))[S]
  BY DEF Total, FoldSet, MapThenFoldSet
<1>2. PICK h : Follows(h, LengthOne, 0, S)
  BY FollowsExists
<1> DEFINE C == {s \in SUBSET S : h[s] \notin Int}
<1>3. C = {}
  <2>1. SUFFICES ASSUME C # {} PROVE FALSE
    OBVIOUS
  <2>2. PICK T \in C : \A U \in C : U \subseteq T => U = T
    <3>1. C \in SUBSET (SUBSET S)
      OBVIOUS
    <3> HIDE DEF C
    <3> QED
      BY <2>1, <3>1, SmallestSet
  <2>3. CASE T = {}
    <3>1. h[T] = 0
      BY <1>2, <2>3 DEF Follows
    <3> QED
      BY <3>1
  <2>4. CASE T # {}
    <3>1. Rest(T) \subseteq T /\ Rest(T) # T /\ First(T) \in Spans
      BY <2>4, FirstIsIn
    <3>2. h[Rest(T)] \in Int
      BY <2>2, <3>1
    <3>3. h[T] = LengthOne[<<First(T), h[Rest(T)]>>]
      BY <1>2, <2>4 DEF Follows
    <3>4. h[T] = h[Rest(T)] + (First(T).high - First(T).low)
      BY <3>1, <3>2, <3>3 DEF LengthOne
    <3> QED
      BY <3>1, <3>2, <3>4 DEF Spans
  <2> QED
    BY <2>3, <2>4
<1>4. \A s \in SUBSET S : h[s] = IF s = {} THEN 0
                                 ELSE h[Rest(s)] + (First(s).high - First(s).low)
  <2> SUFFICES ASSUME NEW s \in SUBSET S
               PROVE  h[s] = IF s = {} THEN 0
                             ELSE h[Rest(s)] + (First(s).high - First(s).low)
    OBVIOUS
  <2>1. CASE s = {}
    BY <1>2, <2>1 DEF Follows
  <2>2. CASE s # {}
    <3>1. Rest(s) \in SUBSET S /\ First(s) \in Spans
      BY <2>2, FirstIsIn
    <3>2. h[Rest(s)] \in Int
      BY <1>3, <3>1
    <3>3. h[s] = LengthOne[<<First(s), h[Rest(s)]>>]
      BY <1>2, <2>2 DEF Follows
    <3> QED
      BY <2>2, <3>1, <3>2, <3>3 DEF LengthOne
  <2> QED
    BY <2>1, <2>2
<1> DEFINE g == [s \in SUBSET S |-> h[s]]
<1>5. Is(g)
  <2>1. \A s \in SUBSET S : s # {} => Rest(s) \in SUBSET S
    BY FirstIsIn
  <2>2. \A s \in SUBSET S : g[s] = IF s = {} THEN 0
                                   ELSE g[Rest(s)] + (First(s).high - First(s).low)
    BY <1>4, <2>1
  <2> HIDE DEF g
  <2>3. g = [s \in SUBSET S |-> g[s]]
    BY DEF g
  <2> QED
    BY <2>2, <2>3 DEF First, Rest
<1>6. Is(CHOOSE f : Is(f))
  <2> HIDE DEF Is, g
  <2> QED
    BY <1>5
<1> DEFINE f == CHOOSE k : Is(k)
<1>7. \A s \in SUBSET S : f[s] = IF s = {} THEN 0
                                 ELSE f[Rest(s)] + (First(s).high - First(s).low)
  <2> HIDE DEF f
  <2>1. Is(f)
    BY <1>6 DEF f
  <2> QED
    BY <2>1 DEF First, Rest
<1>8. Total(S) = f[S]
  BY <1>1
<1> QED
  BY <1>7, <1>8

\* A span has as many moments as it is long.
LEMMA MomentsCount ==
  ASSUME NEW s \in Spans
  PROVE  IsFiniteSet(Moments(s)) /\ Cardinality(Moments(s)) = s.high - s.low
<1>1. s.low \in Int /\ s.high - 1 \in Int /\ s.low < s.high
  BY DEF Spans
<1>2. PICK a \in Int, b \in Int : a = s.low /\ b = s.high - 1
  BY <1>1
<1>3. IsFiniteSet(a .. b) /\ Cardinality(a .. b) = IF a > b THEN 0 ELSE b - a + 1
  BY FS_Interval
<1>4. Moments(s) = a .. b
  BY <1>2 DEF Moments
<1>5. ~(a > b) /\ b - a + 1 = s.high - s.low
  BY <1>1, <1>2 DEF Spans
<1> QED
  BY <1>3, <1>4, <1>5

\* The lengths of spans that are apart add up to the number of their moments.
LEMMA TotalCounts ==
  ASSUME NEW S \in ApartSets
  PROVE  Total(S) = Cardinality(Cover(S))
<1>1. PICK g : /\ Total(S) = g[S]
               /\ \A s \in SUBSET S :
                     g[s] = IF s = {} THEN 0
                            ELSE g[Rest(s)] + (First(s).high - First(s).low)
  BY TotalFold DEF ApartSets
<1> DEFINE Right(s) == IsFiniteSet(Cover(s)) /\ g[s] = Cardinality(Cover(s))
           C == {s \in SUBSET S : ~Right(s)}
<1>2. C = {}
  <2>1. SUFFICES ASSUME C # {} PROVE FALSE
    OBVIOUS
  <2>2. PICK T \in C : \A U \in C : U \subseteq T => U = T
    <3>1. C \in SUBSET (SUBSET S) /\ IsFiniteSet(S)
      BY DEF ApartSets
    <3> HIDE DEF C
    <3> QED
      BY <2>1, <3>1, SmallestSet
  <2>3. CASE T = {}
    <3>1. g[T] = 0
      BY <1>1, <2>3
    <3>2. Cover(T) = {}
      BY <2>3, NoSpans
    <3> QED
      BY <3>1, <3>2, FS_EmptySet
  <2>4. CASE T # {}
    <3> DEFINE x == First(T)
               U == Rest(T)
    <3>1. U \subseteq T /\ U # T /\ x \in T /\ x \notin U /\ x \in Spans
      BY <2>4, FirstIsIn DEF Rest, ApartSets
    <3>2. IsFiniteSet(Cover(U)) /\ g[U] = Cardinality(Cover(U))
      BY <2>2, <3>1
    <3>3. g[T] = g[U] + (x.high - x.low)
      BY <1>1, <2>4
    <3>4. IsFiniteSet(Moments(x)) /\ Cardinality(Moments(x)) = x.high - x.low
      BY <3>1, MomentsCount
    <3>5. Cover(T) = Cover(U) \cup Moments(x)
      BY <3>1 DEF Cover, Rest
    <3>6. Cover(U) \cap Moments(x) = {}
      <4> SUFFICES ASSUME NEW t \in U, NEW y \in Moments(t), y \in Moments(x) PROVE FALSE
        BY DEF Cover
      <4>1. t \in Spans /\ t # x
        BY <3>1 DEF ApartSets
      <4>2. t.high < x.low \/ x.high < t.low
        BY <3>1, <4>1 DEF ApartSets, Apart
      <4>3. /\ y \in Int /\ t.low <= y /\ y <= t.high - 1
            /\ x.low <= y /\ y <= x.high - 1
        BY <3>1, <4>1 DEF Moments, Spans
      <4> QED
        BY <3>1, <4>1, <4>2, <4>3 DEF Spans
    <3>7. /\ IsFiniteSet(Cover(T))
          /\ Cardinality(Cover(T)) =
                Cardinality(Cover(U)) + Cardinality(Moments(x)) - Cardinality({})
      <4> HIDE DEF x, U
      <4> QED
        BY <3>2, <3>4, <3>5, <3>6, FS_Union
    <3>8. Cardinality({}) = 0 /\ Cardinality(Cover(U)) \in Nat
      BY <3>2, FS_EmptySet, FS_CardinalityType
    <3>9. x.high - x.low \in Int
      BY <3>1 DEF Spans
    <3>10. g[T] = Cardinality(Cover(T))
      BY <3>2, <3>3, <3>4, <3>7, <3>8, <3>9
    <3> QED
      BY <3>7, <3>10
  <2> QED
    BY <2>3, <2>4
<1> QED
  BY <1>1, <1>2

-----------------------------------------------------------------------------
\* Rows as the statements leave them: finitely many, of moments.
IntervalRows ==
    [id : IntervalIds, case : Cases, started : Nat, ended : Nat \cup {OPEN}]

IntervalInv ==
    /\ clock \in Nat
    /\ preparation_interval \subseteq IntervalRows
    /\ IsFiniteSet(preparation_interval)
    /\ reading \in Nat \cup {IDLE}

\* The rows stay so from the empty table on.
LEMMA IntervalsInit == TimeInit => IntervalInv
BY FS_EmptySet DEF TimeInit, IntervalInv

\* Every statement keeps the rows so.
LEMMA IntervalsStep == IntervalInv /\ [TimeNext]_timeVars => IntervalInv'
<1> SUFFICES ASSUME IntervalInv, [TimeNext]_timeVars PROVE IntervalInv'
  OBVIOUS
<1> USE DEF IntervalInv
<1>1. CASE Tick
  BY <1>1 DEF Tick
<1>2. CASE \E i \in IntervalIds, c \in Cases, start \in 0 .. clock : InsertInterval(i, c, start)
  <2>1. PICK i \in IntervalIds, c \in Cases, start \in 0 .. clock : InsertInterval(i, c, start)
    BY <1>2
  <2> DEFINE row == [id |-> i, case |-> c, started |-> start, ended |-> OPEN]
  <2>2. row \in IntervalRows
    BY DEF IntervalRows
  <2> HIDE DEF row
  <2>3. preparation_interval' = preparation_interval \cup {row}
    BY <2>1 DEF InsertInterval, row
  <2>4. IsFiniteSet(preparation_interval')
    BY <2>3, FS_AddElement
  <2> QED
    BY <2>1, <2>2, <2>3, <2>4 DEF InsertInterval
<1>3. ASSUME NEW row \in preparation_interval, NEW moment \in Nat \cup {OPEN},
             UpdateEnd(row, moment)
      PROVE  IntervalInv'
  <2> DEFINE new == [row EXCEPT !.ended = moment]
  <2>1. new \in IntervalRows
    BY DEF IntervalRows
  <2> HIDE DEF new
  <2>2. preparation_interval' = (preparation_interval \ {row}) \cup {new}
    BY <1>3 DEF UpdateEnd, new
  <2>3. IsFiniteSet(preparation_interval')
    BY <2>2, FS_AddElement, FS_RemoveElement
  <2> QED
    BY <1>3, <2>1, <2>2, <2>3 DEF UpdateEnd
<1>4. CASE \E row \in preparation_interval, moment \in 0 .. clock : UpdateEnd(row, moment)
  BY <1>3, <1>4
<1>5. CASE \E row \in preparation_interval : UpdateEnd(row, OPEN)
  BY <1>3, <1>5
<1>6. CASE BeginReading
  BY <1>6 DEF BeginReading
<1>7. CASE \E c \in Cases : ReadBudget(c)
  BY <1>7 DEF ReadBudget
<1>8. CASE EndReading
  BY <1>8 DEF EndReading
<1>9. CASE UNCHANGED timeVars
  BY <1>9 DEF timeVars
<1> QED
  BY <1>1, <1>2, <1>4, <1>5, <1>6, <1>7, <1>8, <1>9 DEF TimeNext

\* What the view adds up for a case are the moments somebody worked on it.
LEMMA BudgetCounts ==
  ASSUME IntervalInv, NEW c \in Cases, NEW now \in Nat, ~Reversed(c, now)
  PROVE  preparation_budget(c, now) = Cardinality(Worked(RowsOf(c), now))
<1> DEFINE busy == {r \in RowsOf(c) : r.started < Upper(r, now)}
           SpanOf(row) == [low |-> row.started, high |-> Upper(row, now)]
<1>1. \A row \in RowsOf(c) : row.started \in Int /\ Upper(row, now) \in Int
  BY DEF RowsOf, Upper, IntervalInv, IntervalRows
<1>2. RangesOf(c, now) = {SpanOf(row) : row \in busy}
  BY DEF RangesOf
<1>3. RangesOf(c, now) \in SUBSET Spans
  BY <1>1, <1>2 DEF Spans
<1>4. IsFiniteSet(RangesOf(c, now))
  <2>1. IsFiniteSet(busy)
    BY FS_Subset DEF IntervalInv, RowsOf
  <2> DEFINE f == [row \in busy |-> SpanOf(row)]
  <2>2. f \in Surjection(busy, {SpanOf(row) : row \in busy})
    BY DEF Surjection
  <2> HIDE DEF busy, f, SpanOf
  <2> QED
    BY <1>2, <2>1, <2>2, FS_Surjection
<1>5. Cover(RangesOf(c, now)) = Worked(RowsOf(c), now)
  <2>1. Cover(RangesOf(c, now)) = UNION {Moments(SpanOf(row)) : row \in busy}
    BY <1>2 DEF Cover
  <2>2. \A row \in RowsOf(c) : Moments(SpanOf(row)) = row.started .. (Upper(row, now) - 1)
    BY DEF Moments
  <2>3. \A row \in RowsOf(c) \ busy : row.started .. (Upper(row, now) - 1) = {}
    BY <1>1
  <2> QED
    BY <2>1, <2>2, <2>3 DEF Worked
<1>6. preparation_budget(c, now) = Total(range_agg(RangesOf(c, now)))
  BY DEF preparation_budget, Total
<1> QED
  BY <1>3, <1>4, <1>5, <1>6, AggCovers, TotalCounts

\* A budget the view answers is the number of moments in which at least one job
\* was at work: merging touching and overlapping ranges, whatever order the
\* server takes them in, counts no moment twice and drops none.
THEOREM TimeCountsOnce == TimeSpec => []TimeIsCountedOnce
<1>1. TimeInit => TimeIsCountedOnce
  BY DEF TimeInit, TimeIsCountedOnce
<1>2. IntervalInv /\ TimeIsCountedOnce /\ [TimeNext]_timeVars => TimeIsCountedOnce'
  <2> SUFFICES ASSUME IntervalInv, TimeIsCountedOnce, [TimeNext]_timeVars
               PROVE  TimeIsCountedOnce'
    OBVIOUS
  <2>1. ASSUME NEW c \in Cases, ReadBudget(c) PROVE TimeIsCountedOnce'
    <3>1. CASE Reversed(c, reading)
      BY <2>1, <3>1 DEF ReadBudget, TimeIsCountedOnce
    <3>2. CASE ~Reversed(c, reading) /\ RangesOf(c, reading) = {}
      BY <2>1, <3>2 DEF ReadBudget, TimeIsCountedOnce
    <3>3. CASE ~Reversed(c, reading) /\ RangesOf(c, reading) # {}
      <4>1. reading \in Nat
        BY <2>1 DEF ReadBudget, IntervalInv
      <4>2. answer' = [kind |-> "minutes", case |-> c, at |-> reading,
                       rows |-> RowsOf(c), minutes |-> preparation_budget(c, reading)]
        BY <2>1, <3>3 DEF ReadBudget
      <4>3. preparation_budget(c, reading) = Cardinality(Worked(RowsOf(c), reading))
        BY <3>3, <4>1, BudgetCounts
      <4>4. /\ answer'.minutes = preparation_budget(c, reading)
            /\ answer'.rows = RowsOf(c) /\ answer'.at = reading
        BY <4>2
      <4> QED
        BY <4>3, <4>4 DEF TimeIsCountedOnce
    <3> QED
      BY <3>1, <3>2, <3>3
  <2>2. CASE UNCHANGED answer
    BY <2>2 DEF TimeIsCountedOnce
  <2> QED
    BY <2>1, <2>2 DEF TimeNext, Tick, InsertInterval, UpdateEnd, BeginReading, EndReading,
                      timeVars
<1> QED
  BY <1>1, <1>2, IntervalsInit, IntervalsStep, PTL DEF TimeSpec

=============================================================================
