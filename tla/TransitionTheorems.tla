--------------------------- MODULE TransitionTheorems ---------------------------
(***************************************************************************)
(* The ledger's part of the inductive invariant, and the theorems about    *)
(* TransitionProtocol, the refinement of CaseHistory among them.  Only     *)
(* three steps change the tables the invariant speaks of: a commit,        *)
(* entering a hold and claiming the slot.                                  *)
(***************************************************************************)
EXTENDS TransitionProtocol_proofs, TransitionRefinement, FiniteSetTheorems

LEMMA RowInit == Init => RowInv
<1> SUFFICES ASSUME Init PROVE RowInv
  OBVIOUS
<1>1. TypeOK
  BY TypeInit
<1>2. WorkersInv
  <2> SUFFICES ASSUME NEW w \in Workers
               PROVE  /\ CurrentFacts(w) /\ AdmittedFacts(w)
                      /\ PrivateWrites(w) /\ HonestVersions(w)
    BY DEF WorkersInv
  <2>1. pc[w] = "idle" /\ txn[w] = NoTxn
    BY DEF Init
  <2>2. CurrentFacts(w) /\ AdmittedFacts(w) /\ PrivateWrites(w)
    BY <2>1 DEF CurrentFacts, AdmittedFacts, PrivateWrites, NoTxn, Locked, Admitted, Moved
  <2>3. cmd[w] = NoCmd /\ NoCmd.case = NoCase
    BY DEF Init, NoCmd
  <2>4. cmd[w].case \notin Cases
    BY <2>3, CaseAssumption
  <2>5. reply[w] # "version conflict"
    BY DEF Init
  <2>6. HonestVersions(w)
    BY <2>4, <2>5 DEF HonestVersions
  <2> QED
    BY <2>2, <2>6
<1>3. ColumnsAgree
  BY SeedAssumption DEF Init, ColumnsAgree
<1>4. SlotHolderIsLive
  BY CaseAssumption DEF Init, SlotHolderIsLive
<1>5. LedgerInv /\ LedgerChains
  BY DEF Init, LedgerInv, LedgerChains
<1> QED
  BY <1>1, <1>2, <1>3, <1>4, <1>5 DEF RowInv

LEMMA TableSteps ==
  ASSUME [Next]_vars
  PROVE  \/ \E w \in Workers : Commit(w)
         \/ \E c \in Cases : EnterHold(c) \/ ClaimSlot(c)
         \/ UNCHANGED tables
<1>1. ASSUME NEW w \in Workers,
             Starts(w) \/ LoadCaseFacts(w) \/ Writes(w) \/ Aborts(w)
      PROVE  UNCHANGED tables
  BY <1>1 DEF Starts, RefuseUnknownState, BeginTransaction, LoadCaseFacts, Writes,
     PassGuards, AppendEvent, AppendTransition, UpdateProjection, AppendOutbox,
     Aborts, Rollback
<1>2. ASSUME Tick \/ UNCHANGED vars PROVE UNCHANGED tables
  BY <1>2 DEF Tick, vars
<1> QED
  BY <1>1, <1>2, StepCases

LEMMA HeldRowFields ==
  ASSUME NEW r \in CaseRows
  PROVE  /\ HeldRow(r).state = r.state
         /\ HeldRow(r).status = r.status
         /\ HeldRow(r).lockedAt = r.lockedAt
         /\ HeldRow(r).hold = TRUE
         /\ HeldRow(r).version = IF IsTerminal(r) THEN r.version ELSE r.version + 1
BY DEF HeldRow, CaseRows

\* The row a commit installs.
LEMMA CommittedRow ==
  ASSUME TypeOK, WorkersInv, NEW w \in Workers, Commit(w)
  PROVE  LET c == cmd[w].case IN
         /\ \A d \in Cases : d # c => case_record'[d] = case_record[d]
         /\ case_record'[c].state = cmd[w].to
         /\ case_record'[c].status = IF cmd[w].to \in STATUS_STATES THEN cmd[w].to ELSE NULL
         /\ case_record'[c].version = case_record[c].version + 1
         /\ IsTerminal(case_record'[c]) <=> cmd[w].to \in TERMINAL_STATES
         /\ case_record'[c].hold = case_record[c].hold
<1> DEFINE c == cmd[w].case
           row == case_record[c]
           new == Projected(row, cmd[w].to, row.version + 1, txn[w].began)
<1>1. /\ c \in Cases /\ row \in CaseRows /\ ~Frozen(row)
      /\ txn[w].began \in 1 .. clock
      /\ case_record' = [case_record EXCEPT ![c] = new]
  BY CommitEffect
<1>2. case_record'[c] = new /\ \A d \in Cases : d # c => case_record'[d] = case_record[d]
  BY <1>1 DEF TypeOK
<1>3. /\ new.state = cmd[w].to
      /\ new.status = IF cmd[w].to \in STATUS_STATES THEN cmd[w].to ELSE NULL
      /\ new.version = row.version + 1
      /\ new.lockedAt = IF cmd[w].to \in TERMINAL_STATES THEN txn[w].began ELSE row.lockedAt
      /\ new.hold = row.hold
  BY <1>1, ProjectedFields
<1>4. row.lockedAt = NoTime
  BY <1>1 DEF Frozen, IsTerminal
<1>5. txn[w].began # NoTime
  BY <1>1, BoundAssumption DEF TypeOK, NoTime
<1>6. new.lockedAt # NoTime <=> cmd[w].to \in TERMINAL_STATES
  BY <1>3, <1>4, <1>5
<1> HIDE DEF new
<1> QED
  BY <1>2, <1>3, <1>6 DEF IsTerminal

\* The row that entering a hold leaves.
LEMMA HoldEffect ==
  ASSUME TypeOK, NEW c \in Cases, EnterHold(c)
  PROVE  /\ \A d \in Cases : d # c => case_record'[d] = case_record[d]
         /\ case_record'[c].state = case_record[c].state
         /\ case_record'[c].status = case_record[c].status
         /\ case_record'[c].lockedAt = case_record[c].lockedAt
         /\ IsTerminal(case_record'[c]) <=> IsTerminal(case_record[c])
         /\ ~case_record[c].hold
         /\ case_record'[c].hold
         /\ case_record'[c].version =
               IF IsTerminal(case_record[c])
               THEN case_record[c].version ELSE case_record[c].version + 1
         /\ UNCHANGED <<active_experiment_slot, event, state_transition, outbox>>
<1>1. case_record[c] \in CaseRows
  BY DEF TypeOK
<1>2. case_record'[c] = HeldRow(case_record[c])
  BY DEF EnterHold, TypeOK
<1>3. \A d \in Cases : d # c => case_record'[d] = case_record[d]
  BY DEF EnterHold, TypeOK
<1>4. case_record'[c].lockedAt = case_record[c].lockedAt
  BY <1>1, <1>2, HeldRowFields
<1>5. IsTerminal(case_record'[c]) <=> IsTerminal(case_record[c])
  BY <1>4 DEF IsTerminal
<1>6. ~case_record[c].hold /\ UNCHANGED <<active_experiment_slot, event, state_transition, outbox>>
  BY DEF EnterHold
<1> QED
  BY <1>1, <1>2, <1>3, <1>4, <1>5, <1>6, HeldRowFields

LEMMA ColumnsStep ==
  ASSUME TypeOK, WorkersInv, ColumnsAgree, [Next]_vars
  PROVE  ColumnsAgree'
<1>1. ASSUME NEW w \in Workers, Commit(w) PROVE ColumnsAgree'
  BY <1>1, CommittedRow DEF ColumnsAgree
<1>2. ASSUME NEW c \in Cases, EnterHold(c) PROVE ColumnsAgree'
  BY <1>2, HoldEffect DEF ColumnsAgree
<1>3. ASSUME NEW c \in Cases, ClaimSlot(c) PROVE ColumnsAgree'
  BY <1>3 DEF ClaimSlot, ColumnsAgree
<1>4. CASE UNCHANGED tables
  BY <1>4 DEF tables, ColumnsAgree
<1> QED
  BY <1>1, <1>2, <1>3, <1>4, TableSteps

LEMMA SlotStep ==
  ASSUME TypeOK, WorkersInv, SlotHolderIsLive, [Next]_vars
  PROVE  SlotHolderIsLive'
<1>1. ASSUME NEW w \in Workers, Commit(w) PROVE SlotHolderIsLive'
  <2> DEFINE c == cmd[w].case
  <2> SUFFICES ASSUME NEW d \in Cases, active_experiment_slot' = d
               PROVE  ~IsTerminal(case_record'[d])
    BY DEF SlotHolderIsLive
  <2>1. active_experiment_slot' =
            IF cmd[w].to \in TERMINAL_STATES /\ active_experiment_slot = c
            THEN NoCase ELSE active_experiment_slot
    BY <1>1, CommitEffect
  <2>2. active_experiment_slot = d /\ ~(cmd[w].to \in TERMINAL_STATES /\ d = c)
    BY <2>1, CaseAssumption
  <2>3. CASE d = c
    BY <1>1, <2>2, <2>3, CommittedRow
  <2>4. CASE d # c
    BY <1>1, <2>2, <2>4, CommittedRow DEF SlotHolderIsLive
  <2> QED
    BY <2>3, <2>4
<1>2. ASSUME NEW c \in Cases, EnterHold(c) PROVE SlotHolderIsLive'
  BY <1>2, HoldEffect DEF SlotHolderIsLive
<1>3. ASSUME NEW c \in Cases, ClaimSlot(c) PROVE SlotHolderIsLive'
  BY <1>3 DEF ClaimSlot, SlotHolderIsLive
<1>4. CASE UNCHANGED tables
  BY <1>4 DEF tables, SlotHolderIsLive
<1> QED
  BY <1>1, <1>2, <1>3, <1>4, TableSteps

LEMMA TopType ==
  ASSUME TypeOK, NEW c \in Cases
  PROVE  /\ case_record[c].version \in Nat
         /\ Top(c) \in Int
         /\ Top(c) <= case_record[c].version
         /\ ~Frozen(case_record[c]) => Top(c) = case_record[c].version
<1>1. case_record[c].version \in Nat
  BY DEF TypeOK, CaseRows
<1>2. CASE case_record[c].hold /\ ~IsTerminal(case_record[c])
  <2>1. Top(c) = case_record[c].version - 1
    BY <1>2 DEF Top
  <2>2. Frozen(case_record[c])
    BY <1>2 DEF Frozen
  <2> QED
    BY <1>1, <2>1, <2>2
<1>3. CASE ~(case_record[c].hold /\ ~IsTerminal(case_record[c]))
  <2>1. Top(c) = case_record[c].version - 0
    BY <1>3 DEF Top
  <2> QED
    BY <1>1, <2>1
<1> QED
  BY <1>2, <1>3

\* Only a commit moves the top of a case.
LEMMA TopStep ==
  ASSUME TypeOK, NEW c \in Cases, EnterHold(c), NEW d \in Cases
  PROVE  Top(d)' = Top(d) /\ case_record'[d].state = case_record[d].state
<1>1. case_record[d].version \in Nat
  BY DEF TypeOK, CaseRows
<1>2. CASE d # c
  BY <1>2, HoldEffect DEF Top
<1>3. CASE d = c /\ IsTerminal(case_record[c])
  BY <1>3, HoldEffect DEF Top
<1>4. CASE d = c /\ ~IsTerminal(case_record[c])
  <2>1. ~case_record[c].hold
    BY HoldEffect
  <2>2. /\ case_record'[c].hold /\ ~IsTerminal(case_record'[c])
        /\ case_record'[c].version = case_record[c].version + 1
    BY <1>4, HoldEffect
  <2>3. Top(c) = case_record[c].version - 0
    BY <2>1 DEF Top
  <2>4. Top(c)' = case_record'[c].version - 1
    BY <2>2 DEF Top
  <2>5. Top(c)' = Top(c)
    BY <1>1, <1>4, <2>2, <2>3, <2>4
  <2> QED
    BY <1>4, <2>5, HoldEffect
<1> QED
  BY <1>2, <1>3, <1>4

LEMMA CommitTop ==
  ASSUME TypeOK, WorkersInv, NEW w \in Workers, Commit(w),
         NEW c, c = cmd[w].case
  PROVE  /\ c \in Cases
         /\ Top(c) \in Nat
         /\ Top(c) = case_record[c].version
         /\ Top(c)' = Top(c) + 1
         /\ case_record'[c].state = cmd[w].to
         /\ \A d \in Cases : d # c => /\ Top(d)' = Top(d)
                                      /\ case_record'[d] = case_record[d]
         /\ TransitionRow(w) \in TransitionRows
         /\ TransitionRow(w).case = c
         /\ TransitionRow(w).before = Top(c)
         /\ TransitionRow(w).after = Top(c) + 1
         /\ TransitionRow(w).from = case_record[c].state
         /\ TransitionRow(w).to = cmd[w].to
         /\ state_transition' = state_transition \cup {TransitionRow(w)}
<1>1. c \in Cases /\ ~Frozen(case_record[c])
  BY CommitEffect
<1>2. Top(c) = case_record[c].version /\ case_record[c].version \in Nat
  BY <1>1, TopType
<1>3. /\ case_record'[c].state = cmd[w].to
      /\ case_record'[c].version = case_record[c].version + 1
      /\ ~case_record'[c].hold
  BY <1>1, CommittedRow DEF Frozen
<1>4. Top(c)' = case_record'[c].version - 0
  BY <1>3 DEF Top
<1>5. Top(c)' = Top(c) + 1
  BY <1>2, <1>3, <1>4
<1>6. ASSUME NEW d \in Cases, d # c
      PROVE  Top(d)' = Top(d) /\ case_record'[d] = case_record[d]
  <2>1. case_record'[d] = case_record[d]
    BY <1>6, CommittedRow
  <2> QED
    BY <2>1 DEF Top
<1>7. pc[w] \in Locked
  BY DEF Commit, Continue, Locked, Steps
<1>8. TransitionRow(w) \in TransitionRows
  BY <1>7, RowTypes
<1>9. /\ TransitionRow(w) = [case |-> c, event |-> Id(w),
                             from |-> case_record[c].state, to |-> cmd[w].to,
                             before |-> case_record[c].version,
                             after |-> case_record[c].version + 1]
      /\ state_transition' = state_transition \cup {TransitionRow(w)}
  BY CommitEffect
<1> QED
  BY <1>1, <1>2, <1>3, <1>5, <1>6, <1>8, <1>9

LEMMA LedgerStep ==
  ASSUME TypeOK, WorkersInv, LedgerInv, [Next]_vars
  PROVE  LedgerInv'
<1>1. state_transition \subseteq TransitionRows
  BY DEF TypeOK
<1>2. ASSUME NEW w \in Workers, Commit(w) PROVE LedgerInv'
  <2> DEFINE new == TransitionRow(w)
  <2>0. PICK c : c = cmd[w].case
    OBVIOUS
  <2>1. /\ c \in Cases
        /\ Top(c) \in Nat
        /\ Top(c)' = Top(c) + 1
        /\ case_record'[c].state = cmd[w].to
        /\ \A d \in Cases : d # c => /\ Top(d)' = Top(d)
                                     /\ case_record'[d] = case_record[d]
        /\ new.case = c /\ new.before = Top(c) /\ new.after = Top(c) + 1
        /\ new.to = cmd[w].to
        /\ state_transition' = state_transition \cup {new}
    BY <1>2, <2>0, CommitTop
  <2> HIDE DEF new
  <2> SUFFICES ASSUME NEW t \in state_transition'
               PROVE  /\ t.after = t.before + 1
                      /\ t.after <= Top(t.case)'
                      /\ t.after = Top(t.case)' => t.to = case_record'[t.case].state
                      /\ \E u \in state_transition' :
                            u.case = t.case /\ u.after = Top(t.case)'
    BY DEF LedgerInv
  <2>2. CASE t = new
    <3>1. t.case = c /\ t.after = Top(c)' /\ t.to = case_record'[c].state
      BY <2>1, <2>2
    <3>2. t.after = t.before + 1 /\ t.after <= Top(c)'
      BY <2>1, <2>2
    <3> QED
      BY <2>2, <3>1, <3>2
  <2>3. CASE t # new /\ t.case = c
    <3>1. t \in state_transition
      BY <2>1, <2>3
    <3>2. t.after \in Nat /\ t.before \in Nat
      BY <1>1, <3>1 DEF TransitionRows
    <3>3. t.after = t.before + 1 /\ t.after <= Top(c)
      BY <2>3, <3>1 DEF LedgerInv
    <3>4. t.after <= Top(c)' /\ t.after # Top(c)'
      BY <2>1, <3>2, <3>3
    <3>5. \E u \in state_transition' : u.case = c /\ u.after = Top(c)'
      BY <2>1
    <3> QED
      BY <2>3, <3>3, <3>4, <3>5
  <2>4. CASE t # new /\ t.case # c
    <3>1. t \in state_transition /\ t.case \in Cases
      BY <1>1, <2>1, <2>4 DEF TransitionRows
    <3> QED
      BY <2>1, <2>4, <3>1 DEF LedgerInv
  <2> QED
    BY <2>2, <2>3, <2>4
<1>3. ASSUME NEW c \in Cases, EnterHold(c) PROVE LedgerInv'
  <2>1. state_transition' = state_transition
    BY <1>3, HoldEffect
  <2>2. \A t \in state_transition :
           /\ Top(t.case)' = Top(t.case)
           /\ case_record'[t.case].state = case_record[t.case].state
    BY <1>1, <1>3, TopStep DEF TransitionRows
  <2> QED
    BY <2>1, <2>2 DEF LedgerInv
<1>4. ASSUME NEW c \in Cases, ClaimSlot(c) PROVE LedgerInv'
  BY <1>4 DEF ClaimSlot, LedgerInv, Top
<1>5. CASE UNCHANGED tables
  BY <1>5 DEF tables, LedgerInv, Top
<1> QED
  BY <1>2, <1>3, <1>4, <1>5, TableSteps

LEMMA ChainStep ==
  ASSUME TypeOK, WorkersInv, LedgerInv, LedgerChains, [Next]_vars
  PROVE  LedgerChains'
<1>1. state_transition \subseteq TransitionRows
  BY DEF TypeOK
<1>2. ASSUME NEW w \in Workers, Commit(w) PROVE LedgerChains'
  <2> DEFINE new == TransitionRow(w)
  <2>0. PICK c : c = cmd[w].case
    OBVIOUS
  <2>1. /\ c \in Cases
        /\ Top(c) \in Nat
        /\ new.case = c /\ new.before = Top(c) /\ new.after = Top(c) + 1
        /\ new.from = case_record[c].state
        /\ state_transition' = state_transition \cup {new}
    BY <1>2, <2>0, CommitTop
  <2> HIDE DEF new
  <2> SUFFICES ASSUME NEW s \in state_transition', NEW t \in state_transition',
                      s.case = t.case
               PROVE  /\ s.before = t.before => s = t
                      /\ s.after = t.before => s.to = t.from
                      /\ s.before < t.before =>
                            \E u \in state_transition' :
                               u.case = t.case /\ u.after = t.before
    BY DEF LedgerChains, TransitionsOf
  <2>2. ASSUME NEW u \in state_transition, u.case = c
        PROVE  /\ u.before \in Nat /\ u.after \in Nat
               /\ u.after = u.before + 1 /\ u.after <= Top(c)
    BY <1>1, <2>2 DEF LedgerInv, TransitionRows
  <2>3. CASE s \in state_transition /\ t \in state_transition
    <3>1. /\ s.before = t.before => s = t
          /\ s.after = t.before => s.to = t.from
          /\ s.before < t.before =>
                \E u \in state_transition : u.case = t.case /\ u.after = t.before
      BY <2>3 DEF LedgerChains, TransitionsOf
    <3> QED
      BY <2>1, <3>1
  <2>4. CASE s = new /\ t = new
    <3>1. s.after # t.before /\ ~(s.before < t.before)
      BY <2>1, <2>4
    <3> QED
      BY <2>4, <3>1
  <2>5. CASE s \in state_transition /\ t = new
    <3>1. s.case = c /\ s.before # t.before
      BY <2>1, <2>2, <2>5
    <3>2. s.after = Top(c) => s.to = case_record[c].state
      BY <2>5, <3>1 DEF LedgerInv
    <3>3. \E u \in state_transition : u.case = c /\ u.after = Top(c)
      BY <2>5, <3>1 DEF LedgerInv
    <3> QED
      BY <2>1, <2>5, <3>1, <3>2, <3>3
  <2>6. CASE s = new /\ t \in state_transition
    <3>1. t.case = c
      BY <2>1, <2>6
    <3>2. t.before < Top(c)
      BY <2>1, <2>2, <2>6, <3>1
    <3>3. /\ s.before # t.before
          /\ s.after # t.before
          /\ ~(s.before < t.before)
      BY <2>1, <2>2, <2>6, <3>1, <3>2
    <3> QED
      BY <3>3
  <2> QED
    BY <2>1, <2>3, <2>4, <2>5, <2>6
<1>3. CASE state_transition' = state_transition
  BY <1>3 DEF LedgerChains, TransitionsOf
<1>4. ASSUME NEW c \in Cases, EnterHold(c) \/ ClaimSlot(c)
      PROVE  state_transition' = state_transition
  BY <1>4 DEF EnterHold, ClaimSlot
<1>5. CASE UNCHANGED tables
  BY <1>3, <1>5 DEF tables
<1> QED
  BY <1>2, <1>3, <1>4, <1>5, TableSteps

LEMMA RowStep ==
  ASSUME RowInv, [Next]_vars
  PROVE  RowInv'
<1>1. TypeOK' /\ WorkersInv'
  BY TypeStep, WorkersStep DEF RowInv
<1>2. ColumnsAgree' /\ SlotHolderIsLive' /\ LedgerInv' /\ LedgerChains'
  BY ColumnsStep, SlotStep, LedgerStep, ChainStep DEF RowInv
<1> QED
  BY <1>1, <1>2 DEF RowInv

-----------------------------------------------------------------------------
(***************************************************************************)
(* The notifications.                                                      *)
(***************************************************************************)

LEMMA NoticeInit == Init => NoticeInv
BY DEF Init, NoticeInv, NoticeAnnouncedOnce, NoTxn

\* Transactions that give up rows, or write none, keep the notifications apart.
LEMMA FewerNotices ==
  ASSUME NoticeInv, outbox' = outbox,
         \A w \in Workers : txn'[w].outbox \subseteq txn[w].outbox
  PROVE  NoticeInv'
BY DEF NoticeInv, NoticeAnnouncedOnce

\* The rows in flight before and after a step that is not one of the outbox.
LEMMA OtherOutboxSteps ==
  ASSUME TypeOK, NEW w \in Workers,
         \/ Starts(w) \/ LoadCaseFacts(w) \/ Aborts(w)
         \/ PassGuards(w) \/ AppendEvent(w) \/ AppendTransition(w) \/ UpdateProjection(w)
  PROVE  outbox' = outbox /\ \A v \in Workers : txn'[v].outbox \subseteq txn[v].outbox
<1>1. outbox' = outbox
  BY DEF Starts, RefuseUnknownState, BeginTransaction, LoadCaseFacts, Aborts, Rollback,
     PassGuards, AppendEvent, AppendTransition, UpdateProjection, tables
<1>2. txn \in [Workers -> Transactions]
  BY DEF TypeOK
<1>3. ASSUME Aborts(w)
      PROVE  \A v \in Workers : txn'[v].outbox \subseteq txn[v].outbox
  <2>1. txn' = [txn EXCEPT ![w] = NoTxn]
    BY <1>3 DEF Aborts, Rollback
  <2>2. NoTxn.outbox = {}
    BY DEF NoTxn
  <2> QED
    BY <1>2, <2>1, <2>2
<1>4. ASSUME Starts(w)
      PROVE  \A v \in Workers : txn'[v].outbox \subseteq txn[v].outbox
  <2>1. CASE RefuseUnknownState(w)
    BY <2>1 DEF RefuseUnknownState
  <2>2. CASE BeginTransaction(w)
    <3>1. PICK batch \in Batches : txn' = [txn EXCEPT ![w].began = clock, ![w].left = batch]
      BY <2>2 DEF BeginTransaction
    <3> QED
      BY <1>2, <3>1 DEF Transactions
  <2> QED
    BY <1>4, <2>1, <2>2 DEF Starts
<1>5. ASSUME \/ LoadCaseFacts(w) \/ PassGuards(w)
             \/ AppendEvent(w) \/ AppendTransition(w) \/ UpdateProjection(w)
      PROVE  \A v \in Workers : txn'[v].outbox \subseteq txn[v].outbox
  <2>1. CASE LoadCaseFacts(w)
    BY <1>2, <2>1 DEF LoadCaseFacts, Transactions
  <2>2. CASE PassGuards(w)
    BY <2>2 DEF PassGuards
  <2>3. CASE AppendEvent(w)
    BY <1>2, <2>3 DEF AppendEvent, Transactions
  <2>4. CASE AppendTransition(w)
    BY <1>2, <2>4 DEF AppendTransition, Transactions
  <2>5. CASE UpdateProjection(w)
    BY <1>2, <2>5 DEF UpdateProjection, Transactions
  <2> QED
    BY <1>5, <2>1, <2>2, <2>3, <2>4, <2>5
<1> QED
  BY <1>1, <1>3, <1>4, <1>5

LEMMA AppendOutboxStep ==
  ASSUME TypeOK, NEW w \in Workers, AppendOutbox(w)
  PROVE  LET new == [notice |-> Head(txn[w].left), case |-> cmd[w].case, event |-> Id(w)] IN
         /\ txn'[w].outbox = txn[w].outbox \cup {new}
         /\ txn'[w].left = Tail(txn[w].left)
         /\ \A v \in Workers \ {w} : txn'[v] = txn[v]
         /\ outbox' = outbox
         /\ \A p \in outbox : p.notice # new.notice
         /\ \A v \in Workers : \A p \in txn[v].outbox : p.notice # new.notice
<1> DEFINE new == [notice |-> Head(txn[w].left), case |-> cmd[w].case, event |-> Id(w)]
<1>1. txn' = [txn EXCEPT ![w].outbox = txn[w].outbox \cup {new},
                         ![w].left = Tail(txn[w].left)]
  BY DEF AppendOutbox
<1>2. txn \in [Workers -> Transactions]
  BY DEF TypeOK
<1>3. /\ txn'[w].outbox = txn[w].outbox \cup {new}
      /\ txn'[w].left = Tail(txn[w].left)
      /\ \A v \in Workers \ {w} : txn'[v] = txn[v]
  BY <1>1, <1>2 DEF Transactions
<1>4. outbox' = outbox
  BY DEF AppendOutbox, tables
<1>5. new.notice = Head(txn[w].left)
  OBVIOUS
<1>6. ~NoticeTaken(w) /\ Sending(w) /\ \A v \in Workers : ~WaitsFor(w, v)
  BY DEF AppendOutbox
<1>7. \A p \in outbox \cup txn[w].outbox : p.notice # Head(txn[w].left)
  BY <1>6 DEF NoticeTaken, InFlight
<1>8. \A v \in Workers \ {w} : \A p \in txn[v].outbox : p.notice # Head(txn[w].left)
  BY <1>6 DEF WaitsFor, InFlight
<1> HIDE DEF new
<1>9. \A v \in Workers : \A p \in txn[v].outbox : p.notice # new.notice
  BY <1>5, <1>7, <1>8
<1> QED
  BY <1>3, <1>4, <1>5, <1>7, <1>9 DEF new

LEMMA NoticeStep ==
  ASSUME TypeOK, WorkersInv, NoticeInv, [Next]_vars
  PROVE  NoticeInv'
<1>1. ASSUME NEW w \in Workers, AppendOutbox(w) PROVE NoticeInv'
  <2>1. PICK new : /\ txn'[w].outbox = txn[w].outbox \cup {new}
                   /\ \A p \in outbox : p.notice # new.notice
                   /\ \A v \in Workers : \A p \in txn[v].outbox : p.notice # new.notice
    BY <1>1, AppendOutboxStep
  <2>2. outbox' = outbox /\ \A v \in Workers \ {w} : txn'[v] = txn[v]
    BY <1>1, AppendOutboxStep
  <2>3. NoticeAnnouncedOnce'
    BY <2>2 DEF NoticeInv, NoticeAnnouncedOnce
  <2>4. ASSUME NEW u \in Workers, NEW o \in txn'[u].outbox
        PROVE  /\ \A p \in txn'[u].outbox : o.notice = p.notice => o = p
               /\ \A p \in outbox' : o.notice # p.notice
               /\ \A v \in Workers \ {u} : \A p \in txn'[v].outbox : o.notice # p.notice
    <3>1. CASE u = w
      BY <2>1, <2>2, <2>4, <3>1 DEF NoticeInv
    <3>2. CASE u # w
      BY <2>1, <2>2, <2>4, <3>2 DEF NoticeInv
    <3> QED
      BY <3>1, <3>2
  <2> QED
    BY <2>3, <2>4 DEF NoticeInv
<1>2. ASSUME NEW w \in Workers, Commit(w) PROVE NoticeInv'
  <2>1. outbox' = outbox \cup txn[w].outbox
    BY <1>2 DEF Commit
  <2>2. txn'[w].outbox = {} /\ \A v \in Workers \ {w} : txn'[v] = txn[v]
    BY <1>2 DEF Commit, TypeOK, NoTxn
  <2>3. NoticeAnnouncedOnce'
    BY <2>1 DEF NoticeInv, NoticeAnnouncedOnce
  <2> QED
    BY <2>1, <2>2, <2>3 DEF NoticeInv
<1>3. ASSUME NEW w \in Workers, Starts(w) \/ LoadCaseFacts(w) \/ Aborts(w) \/ Writes(w)
      PROVE  NoticeInv'
  BY <1>1, <1>3, OtherOutboxSteps, FewerNotices DEF Writes
<1>4. ASSUME \/ \E c \in Cases : EnterHold(c) \/ ClaimSlot(c)
             \/ Tick \/ UNCHANGED vars
      PROVE  NoticeInv'
  <2>1. outbox' = outbox /\ txn' = txn
    BY <1>4 DEF EnterHold, ClaimSlot, Tick, vars, tables, workerState
  <2> QED
    BY <2>1, FewerNotices
<1> QED
  BY <1>2, <1>3, <1>4, StepCases

-----------------------------------------------------------------------------
(***************************************************************************)
(* What the caller is told.                                                *)
(***************************************************************************)

\* AnswerMatchesEffect, of one worker.
Answered(w) ==
    /\ pc[w] # "idle" \/ reply[w] \in Refusals => NoEffect(w)
    /\ pc[w] = "idle" /\ reply[w] = "committed" => FullEffect(w)
    /\ pc[w] = "idle" /\ reply[w] = "lost" => NoEffect(w) \/ FullEffect(w)

\* The committed rows of a worker's last command stay.
SameEffect(w) ==
    /\ EventsOf(w)' = EventsOf(w)
    /\ MovesOf(w)' = MovesOf(w)
    /\ NoticesOf(w)' = NoticesOf(w)

LEMMA RefusalNames ==
  /\ "committed" \notin Refusals /\ "lost" \notin Refusals /\ "none" \notin Refusals
  /\ "unknown state" \in Refusals
BY DEF Refusals

LEMMA EffectInit == Init => EffectInv
<1> SUFFICES ASSUME Init PROVE EffectInv
  OBVIOUS
<1>1. ASSUME NEW w \in Workers PROVE Answered(w) /\ OwnWrites(w)
  <2>1. pc[w] = "idle" /\ reply[w] = "none" /\ txn[w].outbox = {}
    BY DEF Init, NoTxn
  <2> QED
    BY <2>1, RefusalNames DEF Answered, OwnWrites, Moved, Locked, Steps
<1>2. NoFutureIds
  BY DEF Init, NoFutureIds
<1> QED
  BY <1>1, <1>2 DEF EffectInv, AnswerMatchesEffect, Answered

\* Others neither see nor disturb what a worker has written.
LEMMA KeepsEffect ==
  ASSUME NEW v \in Workers, Keeps(v), SameEffect(v), Answered(v), OwnWrites(v)
  PROVE  Answered(v)' /\ OwnWrites(v)'
<1>1. /\ pc'[v] = pc[v] /\ cmd'[v] = cmd[v] /\ txn'[v] = txn[v]
      /\ attempts'[v] = attempts[v] /\ reply'[v] = reply[v]
  BY DEF Keeps
<1>2. NoEffect(v)' <=> NoEffect(v)
  BY DEF SameEffect, NoEffect
<1>3. FullEffect(v)' <=> FullEffect(v)
  BY <1>1 DEF SameEffect, FullEffect
<1>4. Answered(v)'
  BY <1>1, <1>2, <1>3 DEF Answered
<1>5. OwnWrites(v)'
  BY <1>1 DEF OwnWrites, Id, Now, InFlight, Elements
<1> QED
  BY <1>4, <1>5

LEMMA UnchangedEffect ==
  ASSUME NEW v \in Workers, attempts'[v] = attempts[v],
         UNCHANGED <<event, state_transition, outbox>>
  PROVE  SameEffect(v)
BY DEF SameEffect, EventsOf, MovesOf, NoticesOf, Id

\* A command gets an identifier no row carries.
LEMMA NewIdIsFresh ==
  ASSUME TypeOK, NoFutureIds, NEW w \in Workers, attempts'[w] = attempts[w] + 1,
         UNCHANGED <<event, state_transition, outbox>>
  PROVE  NoEffect(w)'
<1>1. attempts[w] \in Nat
  BY BoundAssumption DEF TypeOK
<1>2. ASSUME NEW id, id = <<w, attempts[w] + 1>>
      PROVE  ~(id[2] <= attempts[id[1]])
  BY <1>1, <1>2
<1>3. Id(w)' = <<w, attempts[w] + 1>>
  BY DEF Id
<1>4. EventsOf(w)' = {}
  BY <1>2, <1>3 DEF EventsOf, NoFutureIds
<1>5. MovesOf(w)' = {}
  BY <1>2, <1>3 DEF MovesOf, NoFutureIds
<1>6. NoticesOf(w)' = {}
  BY <1>2, <1>3 DEF NoticesOf, NoFutureIds
<1> QED
  BY <1>4, <1>5, <1>6 DEF NoEffect

LEMMA StartAnswers ==
  ASSUME TypeOK, WorkersInv, NoFutureIds, NEW w \in Workers, Starts(w)
  PROVE  Answered(w)' /\ OwnWrites(w)'
<1>1. NoEffect(w)'
  BY NewIdIsFresh DEF Starts, RefuseUnknownState, BeginTransaction, TypeOK, tables
<1>2. pc[w] = "idle" /\ txn[w].outbox = {}
  BY DEF Starts, RefuseUnknownState, BeginTransaction, MayStart, WorkersInv, PrivateWrites
<1>3. CASE RefuseUnknownState(w)
  <2>1. pc'[w] = "idle" /\ txn'[w] = txn[w] /\ reply'[w] = "unknown state"
    BY <1>2, <1>3 DEF RefuseUnknownState, TypeOK
  <2> QED
    BY <1>1, <1>2, <2>1 DEF Answered, OwnWrites, Locked, Moved, Steps
<1>4. CASE BeginTransaction(w)
  <2>1. PICK c \in Cases \cup {NoCase}, to \in KnownTargets, batch \in Batches :
          \E expected \in VersionsRead(c) :
            /\ cmd' = [cmd EXCEPT ![w] = [case |-> c, expected |-> expected,
                                          to |-> to, notices |-> batch]]
            /\ txn' = [txn EXCEPT ![w].began = clock, ![w].left = batch]
    BY <1>4 DEF BeginTransaction
  <2>2. cmd'[w].notices = batch
    BY <2>1 DEF TypeOK
  <2>3. txn'[w].left = batch /\ txn'[w].outbox = txn[w].outbox
    BY <2>1 DEF TypeOK, Transactions
  <2>4. pc'[w] = "load"
    BY <1>4 DEF BeginTransaction, Continue, TypeOK
  <2>5. Answered(w)'
    BY <1>1, <2>4 DEF Answered
  <2> QED
    BY <1>2, <2>2, <2>3, <2>4, <2>5 DEF OwnWrites, Moved
<1> QED
  BY <1>3, <1>4 DEF Starts

LEMMA AbortAnswers ==
  ASSUME TypeOK, NEW w \in Workers, Answered(w), Aborts(w)
  PROVE  Answered(w)' /\ OwnWrites(w)'
<1>1. PICK r \in Refusals \cup {"lost"} : Rollback(w, r)
  BY DEF Aborts
<1>2. /\ pc'[w] = "idle" /\ reply'[w] = r /\ txn'[w] = NoTxn
      /\ attempts' = attempts /\ UNCHANGED <<event, state_transition, outbox>>
  BY <1>1 DEF Rollback, TypeOK, tables
<1>3. NoEffect(w)
  BY DEF Aborts, Answered
<1>4. NoEffect(w)'
  BY <1>2, <1>3, UnchangedEffect DEF SameEffect, NoEffect
<1>5. Answered(w)'
  BY <1>2, <1>4, RefusalNames DEF Answered
<1>6. NoTxn.outbox = {}
  BY DEF NoTxn
<1> QED
  BY <1>2, <1>5, <1>6 DEF OwnWrites, Moved, Locked, Steps

LEMMA LoadAnswers ==
  ASSUME TypeOK, NEW w \in Workers, Answered(w), OwnWrites(w), LoadCaseFacts(w)
  PROVE  Answered(w)' /\ OwnWrites(w)'
<1>1. /\ pc[w] = "load" /\ pc'[w] = "check" /\ cmd' = cmd
      /\ attempts' = attempts /\ UNCHANGED <<event, state_transition, outbox>>
  BY DEF LoadCaseFacts, Continue, TypeOK, tables
<1>2. txn'[w].outbox = txn[w].outbox /\ txn'[w].left = txn[w].left
  BY DEF LoadCaseFacts, TypeOK, Transactions
<1>3. NoEffect(w)'
  BY <1>1, UnchangedEffect DEF Answered, SameEffect, NoEffect
<1>4. Answered(w)'
  BY <1>1, <1>3 DEF Answered
<1>5. OwnWrites(w)'
  BY <1>1, <1>2 DEF OwnWrites, Moved, Locked, Steps
<1> QED
  BY <1>4, <1>5

LEMMA HeadAndTail ==
  ASSUME NEW S, NEW s \in Seq(S), s # <<>>
  PROVE  Elements(s) = {Head(s)} \cup Elements(Tail(s))
<1>1. /\ Len(s) \in Nat \ {0} /\ DOMAIN s = 1 .. Len(s)
      /\ Tail(s) \in Seq(S) /\ Len(Tail(s)) = Len(s) - 1
      /\ \A i \in 1 .. Len(Tail(s)) : Tail(s)[i] = s[i + 1]
  BY HeadTailProperties
<1>2. DOMAIN Tail(s) = 1 .. Len(s) - 1
  BY <1>1
<1>3. Head(s) = s[1]
  BY <1>1
<1>4. ASSUME NEW i \in 1 .. Len(s)
      PROVE  s[i] \in {Head(s)} \cup Elements(Tail(s))
  <2>1. CASE i = 1
    BY <1>3, <2>1
  <2>2. CASE i # 1
    <3>1. i - 1 \in 1 .. Len(s) - 1 /\ (i - 1) + 1 = i
      BY <1>1, <2>2
    <3>2. Tail(s)[i - 1] = s[i]
      BY <1>1, <3>1
    <3> QED
      BY <1>2, <3>1, <3>2 DEF Elements
  <2> QED
    BY <2>1, <2>2
<1>5. ASSUME NEW i \in 1 .. Len(s) - 1
      PROVE  Tail(s)[i] \in Elements(s)
  BY <1>1, <1>5 DEF Elements
<1>6. Head(s) \in Elements(s)
  BY <1>1, <1>3 DEF Elements
<1> QED
  BY <1>1, <1>2, <1>4, <1>5, <1>6 DEF Elements

LEMMA WriteAnswers ==
  ASSUME TypeOK, NEW w \in Workers, Answered(w), OwnWrites(w), Writes(w)
  PROVE  Answered(w)' /\ OwnWrites(w)'
<1>1. /\ pc[w] \in Locked /\ pc'[w] \in Admitted
      /\ cmd' = cmd /\ attempts' = attempts
      /\ UNCHANGED <<event, state_transition, outbox>>
  BY DEF Writes, PassGuards, AppendEvent, AppendTransition, UpdateProjection,
     AppendOutbox,
     Sending, Continue, Locked, Admitted, Steps, TypeOK, tables
<1>2. pc[w] # "idle" /\ pc'[w] # "idle"
  BY <1>1 DEF Locked, Admitted
<1>3. NoEffect(w)'
  BY <1>1, <1>2, UnchangedEffect DEF Answered, SameEffect, NoEffect
<1>4. Answered(w)'
  BY <1>2, <1>3 DEF Answered
<1>5. txn[w] \in Transactions /\ Id(w)' = Id(w)
  BY <1>1 DEF TypeOK, Id
<1>6. CASE PassGuards(w)
  <2>1. txn' = txn /\ pc[w] = "check" /\ pc'[w] = "append_event"
    BY <1>6 DEF PassGuards, Continue, TypeOK
  <2> QED
    BY <1>1, <1>4, <1>5, <2>1 DEF OwnWrites, Moved, Locked, Steps
<1>7. CASE AppendEvent(w)
  <2>1. pc[w] = "append_event" /\ pc'[w] = "append_transition"
    BY <1>7 DEF AppendEvent, Continue, TypeOK
  <2>2. /\ txn'[w].events = {[id |-> Id(w), case |-> cmd[w].case, at |-> Now(w)]}
        /\ txn'[w].outbox = txn[w].outbox /\ txn'[w].left = txn[w].left
        /\ txn'[w].began = txn[w].began
    BY <1>5, <1>7 DEF AppendEvent, TypeOK, Transactions
  <2> QED
    BY <1>1, <1>4, <1>5, <2>1, <2>2 DEF OwnWrites, Moved, Locked, Steps, Now
<1>8. CASE AppendTransition(w)
  <2>1. pc[w] = "append_transition" /\ pc'[w] = "update_projection"
    BY <1>8 DEF AppendTransition, Continue, TypeOK
  <2>2. /\ txn'[w].events = txn[w].events
        /\ txn'[w].outbox = txn[w].outbox /\ txn'[w].left = txn[w].left
        /\ txn'[w].began = txn[w].began
    BY <1>5, <1>8 DEF AppendTransition, TypeOK, Transactions
  <2> QED
    BY <1>1, <1>4, <1>5, <2>1, <2>2 DEF OwnWrites, Moved, Locked, Steps, Now
<1>9. CASE UpdateProjection(w)
  <2>1. pc[w] = "update_projection" /\ pc'[w] = "append_outbox"
    BY <1>9 DEF UpdateProjection, Continue, TypeOK
  <2>2. /\ txn'[w].events = txn[w].events
        /\ txn'[w].outbox = txn[w].outbox /\ txn'[w].left = txn[w].left
        /\ txn'[w].began = txn[w].began
    BY <1>5, <1>9 DEF UpdateProjection, TypeOK, Transactions
  <2>3. txn[w].outbox = {} /\ txn[w].left = cmd[w].notices
    BY <2>1 DEF OwnWrites, Locked, Steps
  <2>4. InFlight(w)' \cup Elements(txn'[w].left) = Elements(cmd'[w].notices)
    BY <1>1, <2>2, <2>3 DEF InFlight
  <2> QED
    BY <1>1, <1>4, <1>5, <2>1, <2>2, <2>3, <2>4 DEF OwnWrites, Moved, Locked, Now
<1>10. CASE AppendOutbox(w)
  <2> DEFINE new == [notice |-> Head(txn[w].left), case |-> cmd[w].case, event |-> Id(w)]
  <2>1. pc[w] = "append_outbox" /\ pc'[w] = "append_outbox" /\ txn[w].left # <<>>
    BY <1>10 DEF AppendOutbox, Sending
  <2>2. txn'[w].outbox = txn[w].outbox \cup {new} /\ txn'[w].left = Tail(txn[w].left)
    BY <1>10, AppendOutboxStep
  <2>3. txn'[w].events = txn[w].events /\ txn'[w].began = txn[w].began
    BY <1>5, <1>10 DEF AppendOutbox, TypeOK, Transactions
  <2>4. new.notice = Head(txn[w].left) /\ new.event = Id(w)
    OBVIOUS
  <2> HIDE DEF new
  <2>5. Elements(txn[w].left) = {Head(txn[w].left)} \cup Elements(Tail(txn[w].left))
    BY <1>5, <2>1, HeadAndTail DEF Transactions
  <2>6. InFlight(w)' = InFlight(w) \cup {Head(txn[w].left)}
    BY <2>2, <2>4 DEF InFlight
  <2>7. InFlight(w) \cup Elements(txn[w].left) = Elements(cmd[w].notices)
    BY <2>1 DEF OwnWrites
  <2>8. InFlight(w)' \cup Elements(txn'[w].left) = Elements(cmd'[w].notices)
    BY <1>1, <2>2, <2>5, <2>6, <2>7
  <2>9. \A o \in txn'[w].outbox : o.event = Id(w)'
    BY <1>5, <2>2, <2>4 DEF OwnWrites
  <2>10. txn'[w].events = {[id |-> Id(w), case |-> cmd[w].case, at |-> Now(w)]}
    BY <2>1, <2>3 DEF OwnWrites, Moved
  <2>11. Now(w)' = Now(w) /\ cmd'[w] = cmd[w]
    BY <1>1, <2>3 DEF Now
  <2>12. OwnWrites(w)'
    BY <1>5, <2>1, <2>8, <2>9, <2>10, <2>11 DEF OwnWrites, Elements
  <2> QED
    BY <1>4, <2>12
<1> QED
  BY <1>6, <1>7, <1>8, <1>9, <1>10 DEF Writes

\* The rows a commit adds, in terms of the command.
LEMMA CommitRows ==
  ASSUME TypeOK, WorkersInv, NEW w \in Workers, OwnWrites(w), Commit(w)
  PROVE  /\ event' = event \cup
                {[id |-> Id(w), case |-> cmd[w].case, at |-> txn[w].began]}
         /\ state_transition' = state_transition \cup {TransitionRow(w)}
         /\ outbox' = outbox \cup txn[w].outbox
         /\ \A o \in txn[w].outbox : o.event = Id(w) /\ o.case = cmd[w].case
         /\ {o.notice : o \in txn[w].outbox} = Elements(cmd[w].notices)
<1>1. pc[w] = "append_outbox" /\ txn[w].left = <<>>
  BY DEF Commit, Continue, Sent
<1>2. event' = event \cup {[id |-> Id(w), case |-> cmd[w].case, at |-> txn[w].began]}
  BY <1>1 DEF OwnWrites, Moved, Commit, Now
<1>3. state_transition' = state_transition \cup {TransitionRow(w)}
  BY CommitEffect
<1>4. outbox' = outbox \cup txn[w].outbox
  BY DEF Commit
<1>5. \A o \in txn[w].outbox : o.event = Id(w) /\ o.case = cmd[w].case
  BY DEF OwnWrites, WorkersInv, PrivateWrites
<1>6. Elements(<<>>) = {}
  BY DEF Elements
<1>7. {o.notice : o \in txn[w].outbox} = Elements(cmd[w].notices)
  BY <1>1, <1>6 DEF OwnWrites, InFlight
<1> QED
  BY <1>2, <1>3, <1>4, <1>5, <1>7

LEMMA CommitAnswers ==
  ASSUME TypeOK, WorkersInv, NEW w \in Workers, Answered(w), OwnWrites(w), Commit(w)
  PROVE  Answered(w)' /\ OwnWrites(w)'
<1> DEFINE e == [id |-> Id(w), case |-> cmd[w].case, at |-> txn[w].began]
           t == TransitionRow(w)
<1>1. /\ pc[w] # "idle" /\ pc'[w] = "idle" /\ cmd' = cmd /\ attempts' = attempts
      /\ txn'[w] = NoTxn /\ reply'[w] \in {"committed", "lost"}
  BY DEF Commit, Continue, TypeOK
<1>2. NoEffect(w) /\ Id(w)' = Id(w)
  BY <1>1 DEF Answered, Id
<1>3. EventsOf(w)' = {e} /\ e.case = cmd'[w].case
  <2>1. event' = event \cup {e} /\ e.id = Id(w)
    BY CommitRows
  <2> QED
    BY <1>1, <1>2, <2>1 DEF NoEffect, EventsOf
<1>4. /\ MovesOf(w)' = {t} /\ t.case = cmd'[w].case
      /\ t.before = cmd'[w].expected /\ t.to = cmd'[w].to
  <2>1. /\ state_transition' = state_transition \cup {t}
        /\ t.event = Id(w) /\ t.case = cmd[w].case
        /\ t.before = cmd[w].expected /\ t.to = cmd[w].to
    BY CommitEffect
  <2> HIDE DEF t
  <2> QED
    BY <1>1, <1>2, <2>1 DEF NoEffect, MovesOf
<1>5. NoticesOf(w)' = txn[w].outbox
  BY <1>2, CommitRows DEF NoEffect, NoticesOf
<1>6. /\ {o.notice : o \in NoticesOf(w)'} = Elements(cmd'[w].notices)
      /\ \A o \in NoticesOf(w)' : o.case = cmd'[w].case
  BY <1>1, <1>5, CommitRows
<1> HIDE DEF e, t
<1>7. FullEffect(w)'
  <2>1. \E x \in EventsOf(w)' : EventsOf(w)' = {x} /\ x.case = cmd'[w].case
    BY <1>3
  <2>2. \E x \in MovesOf(w)' : /\ MovesOf(w)' = {x} /\ x.case = cmd'[w].case
                               /\ x.before = cmd'[w].expected /\ x.to = cmd'[w].to
    BY <1>4
  <2> QED
    BY <1>6, <2>1, <2>2 DEF FullEffect, Elements
<1>8. Answered(w)'
  BY <1>1, <1>7, RefusalNames DEF Answered
<1>9. NoTxn.outbox = {}
  BY DEF NoTxn
<1> QED
  BY <1>1, <1>8, <1>9 DEF OwnWrites, Moved, Locked, Steps

\* A commit adds nothing under the identifiers of others.
LEMMA CommitElsewhere ==
  ASSUME TypeOK, WorkersInv, NEW w \in Workers, OwnWrites(w), Commit(w),
         NEW v \in Workers \ {w}
  PROVE  SameEffect(v)
<1>1. Id(v)' = Id(v) /\ Id(v) # Id(w)
  BY DEF Commit, Id
<1>2. EventsOf(v)' = EventsOf(v)
  <2> DEFINE e == [id |-> Id(w), case |-> cmd[w].case, at |-> txn[w].began]
  <2>1. event' = event \cup {e} /\ e.id = Id(w)
    BY CommitRows
  <2> HIDE DEF e
  <2> QED
    BY <1>1, <2>1 DEF EventsOf
<1>3. MovesOf(v)' = MovesOf(v)
  <2> DEFINE t == TransitionRow(w)
  <2>1. state_transition' = state_transition \cup {t} /\ t.event = Id(w)
    BY CommitRows DEF TransitionRow
  <2> HIDE DEF t
  <2> QED
    BY <1>1, <2>1 DEF MovesOf
<1>4. NoticesOf(v)' = NoticesOf(v)
  BY <1>1, CommitRows DEF NoticesOf
<1> QED
  BY <1>2, <1>3, <1>4 DEF SameEffect

LEMMA FutureStep ==
  ASSUME TypeOK, WorkersInv, EffectInv, [Next]_vars
  PROVE  NoFutureIds'
<1>1. NoFutureIds /\ \A w \in Workers : attempts[w] \in Nat
  BY BoundAssumption DEF EffectInv, TypeOK
<1>2. /\ \A e \in event : e.id[1] \in Workers /\ e.id[2] \in Nat
      /\ \A t \in state_transition : t.event[1] \in Workers /\ t.event[2] \in Nat
      /\ \A o \in outbox : o.event[1] \in Workers /\ o.event[2] \in Nat
  BY DEF TypeOK, EventRows, TransitionRows, OutboxRows, Ids
<1>3. ASSUME UNCHANGED <<event, state_transition, outbox>>,
             \A w \in Workers : attempts'[w] \in Nat /\ attempts'[w] >= attempts[w]
      PROVE  NoFutureIds'
  <2>1. \A n \in Nat, w \in Workers : n <= attempts[w] => n <= attempts'[w]
    BY <1>1, <1>3
  <2> QED
    BY <1>1, <1>2, <1>3, <2>1 DEF NoFutureIds
<1>4. ASSUME NEW w \in Workers, Starts(w) PROVE NoFutureIds'
  <2>1. attempts' = [attempts EXCEPT ![w] = attempts[w] + 1]
    BY <1>4 DEF Starts, RefuseUnknownState, BeginTransaction
  <2>2. UNCHANGED <<event, state_transition, outbox>>
    BY <1>4 DEF Starts, RefuseUnknownState, BeginTransaction, tables
  <2>3. \A v \in Workers : attempts'[v] \in Nat /\ attempts'[v] >= attempts[v]
    BY <1>1, <2>1 DEF TypeOK
  <2> QED
    BY <1>3, <2>2, <2>3
<1>5. ASSUME NEW w \in Workers, Commit(w) PROVE NoFutureIds'
  <2> DEFINE e == [id |-> Id(w), case |-> cmd[w].case, at |-> txn[w].began]
             t == TransitionRow(w)
  <2>1. OwnWrites(w)
    BY DEF EffectInv
  <2>2. /\ event' = event \cup {e} /\ e.id = Id(w)
        /\ state_transition' = state_transition \cup {t} /\ t.event = Id(w)
        /\ outbox' = outbox \cup txn[w].outbox
        /\ \A o \in txn[w].outbox : o.event = Id(w)
    BY <1>5, <2>1, CommitRows DEF TransitionRow
  <2>3. Id(w)[1] = w /\ Id(w)[2] = attempts[w] /\ attempts' = attempts
    BY <1>5 DEF Id, Commit
  <2> HIDE DEF e, t
  <2> QED
    BY <1>1, <2>2, <2>3 DEF NoFutureIds
<1>6. ASSUME NEW w \in Workers, LoadCaseFacts(w) \/ Writes(w) \/ Aborts(w)
      PROVE  attempts' = attempts /\ UNCHANGED <<event, state_transition, outbox>>
  BY <1>6 DEF LoadCaseFacts, Writes, PassGuards, AppendEvent, AppendTransition,
     UpdateProjection, AppendOutbox, Aborts, Rollback, tables
<1>7. ASSUME \/ \E c \in Cases : EnterHold(c) \/ ClaimSlot(c)
             \/ Tick \/ UNCHANGED vars
      PROVE  attempts' = attempts /\ UNCHANGED <<event, state_transition, outbox>>
  BY <1>7 DEF EnterHold, ClaimSlot, Tick, vars, tables, workerState
<1>8. ASSUME attempts' = attempts, UNCHANGED <<event, state_transition, outbox>>
      PROVE  NoFutureIds'
  BY <1>1, <1>8 DEF NoFutureIds
<1> QED
  BY <1>4, <1>5, <1>6, <1>7, <1>8, StepCases

LEMMA EffectStep ==
  ASSUME TypeOK, WorkersInv, EffectInv, [Next]_vars
  PROVE  EffectInv'
<1>1. ASSUME NEW v \in Workers PROVE Answered(v)' /\ OwnWrites(v)'
  <2>1. Answered(v) /\ OwnWrites(v) /\ NoFutureIds
    BY DEF EffectInv, AnswerMatchesEffect, Answered
  <2>2. CASE Starts(v) \/ LoadCaseFacts(v) \/ Writes(v) \/ Commit(v) \/ Aborts(v)
    BY <2>1, <2>2, StartAnswers, LoadAnswers, WriteAnswers, CommitAnswers, AbortAnswers
  <2>3. CASE ~(Starts(v) \/ LoadCaseFacts(v) \/ Writes(v) \/ Commit(v) \/ Aborts(v))
    <3>1. \/ \E w \in Workers \ {v} : \/ Starts(w) \/ LoadCaseFacts(w) \/ Writes(w)
                                     \/ Commit(w) \/ Aborts(w)
          \/ \E c \in Cases : EnterHold(c) \/ ClaimSlot(c)
          \/ Tick
          \/ UNCHANGED vars
      BY <2>3, StepCases
    <3>2. Keeps(v)
      BY <3>1, Bystanders
    <3>3. SameEffect(v)
      <4>1. CASE \E w \in Workers \ {v} : Commit(w)
        BY <4>1, CommitElsewhere DEF EffectInv
      <4>2. CASE ~\E w \in Workers : Commit(w)
        <5>1. UNCHANGED <<event, state_transition, outbox>>
          BY <4>2, TableSteps DEF EnterHold, ClaimSlot, tables
        <5> QED
          BY <3>2, <5>1, UnchangedEffect DEF Keeps
      <4> QED
        BY <2>3, <4>1, <4>2
    <3> QED
      BY <2>1, <3>2, <3>3, KeepsEffect
  <2> QED
    BY <2>2, <2>3
<1>2. NoFutureIds'
  BY FutureStep
<1> QED
  BY <1>1, <1>2 DEF EffectInv, AnswerMatchesEffect, Answered

-----------------------------------------------------------------------------
(***************************************************************************)
(* The order of the history.                                               *)
(***************************************************************************)

LEMMA ChronicleInit == Init => ChronicleInv
BY DEF Init, ChronicleInv, HistoryIsChronological

\* An event tells when its transition occurred: no two carry one identifier.
LEMMA Occurrence ==
  ASSUME \A e, f \in event : e.id = f.id => e = f,
         NEW e \in event, NEW t, e.id = t.event
  PROVE  OccurredAt(t) = e.at
<1>1. \A f \in event : f.id = t.event => f = e
  OBVIOUS
<1>2. (CHOOSE f \in event : f.id = t.event) = e
  BY <1>1
<1> QED
  BY <1>2 DEF OccurredAt

LEMMA OccurredBefore ==
  ASSUME TypeOK, ChronicleInv, NEW t \in state_transition
  PROVE  OccurredAt(t) \in Nat /\ OccurredAt(t) <= clock
<1>1. PICK e \in event : e.id = t.event
  BY DEF ChronicleInv
<1>2. OccurredAt(t) = e.at
  BY <1>1, Occurrence DEF ChronicleInv
<1> QED
  BY <1>1, <1>2 DEF ChronicleInv, TypeOK, EventRows

\* A command that goes on keeps its start; a new one starts now.
Timing(v) ==
    pc'[v] # "idle" =>
        \/ txn'[v].began = clock
        \/ /\ pc[v] # "idle"
           /\ cmd'[v] = cmd[v]
           /\ txn'[v].began = txn[v].began

LEMMA TimingStep ==
  ASSUME TypeOK, WorkersInv, [Next]_vars, NEW v \in Workers
  PROVE  Timing(v)
<1>1. txn[v] \in Transactions
  BY DEF TypeOK
<1>2. CASE Starts(v)
  <2>1. CASE RefuseUnknownState(v)
    BY <2>1 DEF RefuseUnknownState, MayStart, Timing
  <2>2. CASE BeginTransaction(v)
    <3>1. PICK batch \in Batches : txn' = [txn EXCEPT ![v].began = clock, ![v].left = batch]
      BY <2>2 DEF BeginTransaction
    <3>2. txn'[v].began = clock
      BY <1>1, <3>1 DEF TypeOK, Transactions
    <3> QED
      BY <3>2 DEF Timing
  <2> QED
    BY <1>2, <2>1, <2>2 DEF Starts
<1>3. CASE LoadCaseFacts(v)
  <2>1. pc[v] # "idle" /\ cmd' = cmd
    BY <1>3 DEF LoadCaseFacts, Continue
  <2>2. txn'[v].began = txn[v].began
    BY <1>1, <1>3 DEF LoadCaseFacts, TypeOK, Transactions
  <2> QED
    BY <2>1, <2>2 DEF Timing
<1>4. CASE Writes(v)
  <2>1. pc[v] # "idle" /\ cmd' = cmd
    BY <1>4 DEF Writes, PassGuards, AppendEvent, AppendTransition, UpdateProjection,
       AppendOutbox, Sending, Continue
  <2>2. ASSUME PassGuards(v) PROVE txn'[v].began = txn[v].began
    BY <2>2 DEF PassGuards
  <2>3. ASSUME AppendEvent(v) \/ AppendTransition(v)
        PROVE  txn'[v].began = txn[v].began
    BY <1>1, <2>3 DEF AppendEvent, AppendTransition, TypeOK, Transactions
  <2>4. ASSUME UpdateProjection(v) PROVE txn'[v].began = txn[v].began
    BY <1>1, <2>4 DEF UpdateProjection, TypeOK, Transactions
  <2>5. ASSUME AppendOutbox(v) PROVE txn'[v].began = txn[v].began
    BY <1>1, <2>5 DEF AppendOutbox, TypeOK, Transactions
  <2>6. txn'[v].began = txn[v].began
    BY <1>4, <2>2, <2>3, <2>4, <2>5 DEF Writes
  <2> QED
    BY <2>1, <2>6 DEF Timing
<1>5. CASE Commit(v) \/ Aborts(v)
  <2>1. pc'[v] = "idle"
    BY <1>5 DEF Commit, Aborts, Rollback, Continue, TypeOK
  <2> QED
    BY <2>1 DEF Timing
<1>6. CASE ~(Starts(v) \/ LoadCaseFacts(v) \/ Writes(v) \/ Commit(v) \/ Aborts(v))
  <2>1. \/ \E w \in Workers \ {v} : \/ Starts(w) \/ LoadCaseFacts(w) \/ Writes(w)
                                   \/ Commit(w) \/ Aborts(w)
        \/ \E c \in Cases : EnterHold(c) \/ ClaimSlot(c)
        \/ Tick
        \/ UNCHANGED vars
    BY <1>6, StepCases
  <2>2. Keeps(v)
    BY <2>1, Bystanders
  <2> QED
    BY <2>2 DEF Keeps, Timing
<1> QED
  BY <1>2, <1>3, <1>4, <1>5, <1>6

\* A step that commits nothing leaves the history, and the locks of the cases.
LEMMA OtherSteps ==
  ASSUME TypeOK, [Next]_vars, ~\E w \in Workers : Commit(w)
  PROVE  /\ event' = event /\ state_transition' = state_transition
         /\ \A c \in Cases : case_record'[c].lockedAt = case_record[c].lockedAt
<1>1. ASSUME NEW c \in Cases, EnterHold(c)
      PROVE  /\ event' = event /\ state_transition' = state_transition
             /\ \A d \in Cases : case_record'[d].lockedAt = case_record[d].lockedAt
  <2>1. \A d \in Cases : case_record'[d].lockedAt = case_record[d].lockedAt
    BY <1>1, HoldEffect
  <2> QED
    BY <1>1, <2>1, HoldEffect
<1>2. ASSUME NEW c \in Cases, ClaimSlot(c)
      PROVE  event' = event /\ state_transition' = state_transition /\ case_record' = case_record
  BY <1>2 DEF ClaimSlot
<1>3. CASE UNCHANGED tables
  BY <1>3 DEF tables
<1> QED
  BY <1>1, <1>2, <1>3, TableSteps

LEMMA QuietChronicle ==
  ASSUME TypeOK, WorkersInv, ChronicleInv, [Next]_vars, ~\E w \in Workers : Commit(w)
  PROVE  ChronicleInv'
<1>1. /\ event' = event /\ state_transition' = state_transition
      /\ \A c \in Cases : case_record'[c].lockedAt = case_record[c].lockedAt
  BY OtherSteps
<1>2. clock' >= clock /\ clock \in Nat /\ clock' \in Nat
  BY VersionStep, TypeStep, BoundAssumption DEF TypeOK
<1>3. \A t : OccurredAt(t)' = OccurredAt(t)
  BY <1>1 DEF OccurredAt
<1>4. \A t \in state_transition : t.case \in Cases
  BY DEF TypeOK, TransitionRows
<1>5. HistoryIsChronological'
  BY <1>1, <1>3, <1>4
     DEF ChronicleInv, HistoryIsChronological, TransitionsOf, IsLast, IsTerminal
<1>6. \A e \in event' : e.at <= clock'
  BY <1>1, <1>2 DEF ChronicleInv, TypeOK, EventRows
<1>7. ASSUME NEW v \in Workers, NEW t \in state_transition,
             pc'[v] # "idle", t.case = cmd'[v].case, t.after <= cmd'[v].expected
      PROVE  OccurredAt(t) <= txn'[v].began
  <2>1. Timing(v)
    BY TimingStep
  <2>2. CASE txn'[v].began = clock
    BY <2>2, OccurredBefore
  <2>3. CASE /\ pc[v] # "idle"
             /\ cmd'[v] = cmd[v]
             /\ txn'[v].began = txn[v].began
    BY <1>7, <2>3 DEF ChronicleInv
  <2> QED
    BY <1>7, <2>1, <2>2, <2>3 DEF Timing
<1>8. /\ \A e, f \in event' : e.id = f.id => e = f
      /\ \A t \in state_transition' : \E e \in event' : e.id = t.event
  BY <1>1 DEF ChronicleInv
<1> QED
  BY <1>1, <1>3, <1>5, <1>6, <1>7, <1>8 DEF ChronicleInv

\* What a commit adds is dated by the start of the command, and re-dates nothing.
LEMMA CommitDates ==
  ASSUME TypeOK, WorkersInv, EffectInv, ChronicleInv, NEW w \in Workers, Commit(w),
         NEW new, new = TransitionRow(w)
  PROVE  /\ \A e, f \in event' : e.id = f.id => e = f
         /\ \A e \in event' : e.at <= clock'
         /\ \A t \in state_transition' : \E e \in event' : e.id = t.event
         /\ \A t \in state_transition : OccurredAt(t)' = OccurredAt(t)
         /\ OccurredAt(new)' = txn[w].began
<1>0. PICK e : e = [id |-> Id(w), case |-> cmd[w].case, at |-> txn[w].began]
  OBVIOUS
<1>1. /\ event' = event \cup {e} /\ e.id = Id(w) /\ e.at = txn[w].began
      /\ state_transition' = state_transition \cup {new} /\ new.event = Id(w)
  BY <1>0, CommitRows DEF EffectInv, TransitionRow
<1>2. \A f \in event : f.id # Id(w)
  <2>1. pc[w] # "idle"
    BY DEF Commit, Continue
  <2> QED
    BY <2>1 DEF EffectInv, AnswerMatchesEffect, NoEffect, EventsOf
<1>3. \A f, g \in event' : f.id = g.id => f = g
  BY <1>1, <1>2 DEF ChronicleInv
<1>4. e.at <= clock /\ clock' = clock
  <2>1. txn[w].began \in 1 .. clock
    BY CommitEffect
  <2>2. clock' = clock
    BY DEF Commit
  <2> QED
    BY <1>1, <2>1, <2>2
<1>5. \A f \in event' : f.at <= clock'
  BY <1>1, <1>4 DEF ChronicleInv
<1>6. \A t \in state_transition' : \E f \in event' : f.id = t.event
  BY <1>1 DEF ChronicleInv
<1>7. ASSUME NEW f \in event', NEW t, f.id = t.event
      PROVE  OccurredAt(t)' = f.at
  <2>1. \A g \in event' : g.id = t.event => g = f
    BY <1>3, <1>7
  <2>2. (CHOOSE g \in event' : g.id = t.event) = f
    BY <1>7, <2>1
  <2> QED
    BY <2>2 DEF OccurredAt
<1>8. ASSUME NEW t \in state_transition
      PROVE  OccurredAt(t)' = OccurredAt(t)
  <2>1. PICK f \in event : f.id = t.event
    BY DEF ChronicleInv
  <2>2. OccurredAt(t) = f.at
    BY <2>1, Occurrence DEF ChronicleInv
  <2>3. OccurredAt(t)' = f.at
    BY <1>1, <1>7, <2>1
  <2> QED
    BY <2>2, <2>3
<1>9. OccurredAt(new)' = txn[w].began
  BY <1>1, <1>7
<1> QED
  BY <1>3, <1>5, <1>6, <1>8, <1>9

LEMMA CommitChronicle ==
  ASSUME TypeOK, WorkersInv, LedgerInv, EffectInv, ChronicleInv, [Next]_vars,
         NEW w \in Workers, Commit(w)
  PROVE  ChronicleInv'
<1>0. PICK new, c : new = TransitionRow(w) /\ c = cmd[w].case
  OBVIOUS
<1>1. /\ \A e, f \in event' : e.id = f.id => e = f
      /\ \A e \in event' : e.at <= clock'
      /\ \A t \in state_transition' : \E e \in event' : e.id = t.event
      /\ \A t \in state_transition : OccurredAt(t)' = OccurredAt(t)
      /\ OccurredAt(new)' = txn[w].began
  BY <1>0, CommitDates
<1>2. /\ c \in Cases /\ Top(c) \in Nat
      /\ Top(c) = case_record[c].version
      /\ \A d \in Cases : d # c => case_record'[d] = case_record[d]
      /\ new \in TransitionRows /\ new.case = c
      /\ new.before = Top(c) /\ new.after = Top(c) + 1
      /\ state_transition' = state_transition \cup {new}
  BY <1>0, CommitTop
<1>3. case_record[c].version = cmd[w].expected
  BY <1>0, CommitEffect
<1>4. /\ IsTerminal(case_record'[c]) => case_record'[c].lockedAt = txn[w].began
  <2> DEFINE row == case_record[c]
             now == Projected(row, cmd[w].to, row.version + 1, txn[w].began)
  <2>1. /\ row \in CaseRows /\ ~Frozen(row)
        /\ case_record' = [case_record EXCEPT ![c] = now]
    BY <1>0, CommitEffect
  <2>2. case_record'[c] = now
    BY <1>2, <2>1 DEF TypeOK
  <2>3. now.lockedAt = IF cmd[w].to \in TERMINAL_STATES THEN txn[w].began ELSE row.lockedAt
    BY <2>1, ProjectedFields
  <2>4. row.lockedAt = NoTime
    BY <2>1 DEF Frozen, IsTerminal
  <2> HIDE DEF now
  <2> QED
    BY <2>2, <2>3, <2>4 DEF IsTerminal
<1>5. ASSUME NEW t \in state_transition
      PROVE  /\ t.case \in Cases /\ t.before \in Nat /\ t.after \in Nat
             /\ t.after = t.before + 1 /\ t.after <= Top(t.case)
  BY DEF TypeOK, TransitionRows, LedgerInv
<1>6. ASSUME NEW s \in state_transition, s.case = c
      PROVE  OccurredAt(s) <= txn[w].began
  <2>1. pc[w] # "idle"
    BY DEF Commit, Continue
  <2>2. s.after <= cmd[w].expected
    BY <1>2, <1>3, <1>5, <1>6
  <2> QED
    BY <1>0, <1>6, <2>1, <2>2 DEF ChronicleInv
<1>7. ASSUME NEW t \in state_transition', NEW s \in state_transition',
             s.case = t.case, s.before < t.before
      PROVE  OccurredAt(s)' <= OccurredAt(t)'
  <2>1. CASE s \in state_transition /\ t \in state_transition
    <3>1. OccurredAt(s) <= OccurredAt(t)
      BY <1>7, <2>1 DEF ChronicleInv, HistoryIsChronological, TransitionsOf
    <3> QED
      BY <1>1, <2>1, <3>1
  <2>2. CASE s \in state_transition /\ t = new
    BY <1>1, <1>2, <1>6, <1>7, <2>2
  <2>3. CASE s = new
    <3>1. ~(s.before < t.before)
      BY <1>2, <1>5, <1>7, <2>3
    <3> QED
      BY <1>7, <3>1
  <2> QED
    BY <1>2, <1>7, <2>1, <2>2, <2>3
<1>8. ASSUME NEW t \in state_transition', IsLast(t)', IsTerminal(case_record'[t.case])
      PROVE  case_record'[t.case].lockedAt = OccurredAt(t)'
  <2>1. \A s \in state_transition' : s.case = t.case => s.after <= t.after
    BY <1>8 DEF IsLast, TransitionsOf
  <2>2. CASE t = new
    BY <1>1, <1>2, <1>4, <1>8, <2>2
  <2>3. CASE t # new /\ t.case = c
    <3>1. t \in state_transition /\ t.after <= Top(c) /\ t.after \in Nat
      BY <1>2, <1>5, <2>3
    <3>2. new.after <= t.after
      BY <1>2, <2>1, <2>3
    <3> QED
      BY <1>2, <3>1, <3>2
  <2>4. CASE t.case # c
    <3>1. t \in state_transition /\ case_record'[t.case] = case_record[t.case]
      BY <1>2, <1>5, <2>4
    <3>2. IsLast(t)
      BY <1>2, <2>1 DEF IsLast, TransitionsOf
    <3> QED
      BY <1>1, <1>8, <3>1, <3>2 DEF ChronicleInv, HistoryIsChronological
  <2> QED
    BY <2>2, <2>3, <2>4
<1>9. HistoryIsChronological'
  BY <1>7, <1>8 DEF HistoryIsChronological, TransitionsOf
<1>10. ASSUME NEW v \in Workers, NEW t \in state_transition',
              pc'[v] # "idle", t.case = cmd'[v].case, t.after <= cmd'[v].expected
       PROVE  OccurredAt(t)' <= txn'[v].began
  <2>1. v # w /\ pc'[v] = pc[v] /\ cmd'[v] = cmd[v] /\ txn'[v] = txn[v]
    BY <1>10 DEF Commit, Continue, TypeOK
  <2>2. CASE t \in state_transition
    BY <1>1, <1>10, <2>1, <2>2 DEF ChronicleInv
  <2>3. CASE t = new
    <3>1. cmd[v].case = c /\ cmd[v].case \in Cases
      BY <1>2, <1>10, <2>1, <2>3
    <3>2. cmd[v].expected <= case_record[c].version
      BY <3>1 DEF WorkersInv, HonestVersions
    <3>3. cmd[v].expected \in Nat
      BY DEF TypeOK, Commands
    <3>4. FALSE
      BY <1>2, <1>10, <2>1, <2>3, <3>2, <3>3
    <3> QED
      BY <3>4
  <2> QED
    BY <1>2, <1>10, <2>2, <2>3
<1> QED
  BY <1>1, <1>9, <1>10 DEF ChronicleInv

LEMMA ChronicleStep ==
  ASSUME TypeOK, WorkersInv, LedgerInv, EffectInv, ChronicleInv, [Next]_vars
  PROVE  ChronicleInv'
BY QuietChronicle, CommitChronicle

-----------------------------------------------------------------------------
(***************************************************************************)
(* The theorems.                                                           *)
(***************************************************************************)

\* The strengthened invariant holds in every reachable state.
THEOREM Inductive == Spec => []IInv
<1>1. Init => IInv
  BY RowInit, NoticeInit, EffectInit, ChronicleInit DEF IInv
<1>2. IInv /\ [Next]_vars => IInv'
  <2> SUFFICES ASSUME IInv, [Next]_vars PROVE IInv'
    OBVIOUS
  <2>1. RowInv'
    BY RowStep DEF IInv
  <2>2. NoticeInv' /\ EffectInv' /\ ChronicleInv'
    BY NoticeStep, EffectStep, ChronicleStep DEF IInv, RowInv
  <2> QED
    BY <2>1, <2>2 DEF IInv
<1> QED
  BY <1>1, <1>2, PTL DEF Spec

\* Every table, lock, transaction and answer has its type, whichever statements
\* of apply_transition interleave.
THEOREM TypeCorrect == Spec => []TypeOK
<1>1. IInv => TypeOK
  BY DEF IInv, RowInv
<1> QED
  BY <1>1, Inductive, PTL

\* However many commands race for a case, its rows of state_transition are one
\* gap-free chain of versions and states.
THEOREM LedgerIsOneChain == Spec => []LedgerChains
<1>1. IInv => LedgerChains
  BY DEF IInv, RowInv
<1> QED
  BY <1>1, Inductive, PTL

\* A paused or terminal state has its status and its lock in every committed
\* row, although the CHECK constraints would admit other rows.
THEOREM ColumnsAlwaysAgree == Spec => []ColumnsAgree
<1>1. IInv => ColumnsAgree
  BY DEF IInv, RowInv
<1> QED
  BY <1>1, Inductive, PTL

\* _update_projection leaves the slot to no case it made terminal.
THEOREM SlotIsReleased == Spec => []SlotHolderIsLive
<1>1. IInv => SlotHolderIsLive
  BY DEF IInv, RowInv
<1> QED
  BY <1>1, Inductive, PTL

\* case_record is where the last row of state_transition says the case is.
THEOREM ProjectionIsCurrent == Spec => []ProjectionFollowsLedger
<1>1. IInv => ProjectionFollowsLedger
  <2> SUFFICES ASSUME IInv, NEW t \in state_transition, IsLast(t)
               PROVE  LET row == case_record[t.case] IN
                      /\ row.state = t.to
                      /\ row.version =
                            t.after + (IF row.hold /\ ~IsTerminal(row) THEN 1 ELSE 0)
    BY DEF ProjectionFollowsLedger
  <2> DEFINE row == case_record[t.case]
             extra == IF row.hold /\ ~IsTerminal(row) THEN 1 ELSE 0
  <2>1. PICK u \in state_transition : u.case = t.case /\ u.after = Top(t.case)
    BY DEF IInv, RowInv, LedgerInv
  <2>2. u.after <= t.after /\ t.after <= Top(t.case)
    BY <2>1 DEF IsLast, TransitionsOf, IInv, RowInv, LedgerInv
  <2>3. t \in TransitionRows /\ u \in TransitionRows /\ t.case \in Cases
    BY DEF IInv, RowInv, TypeOK, TransitionRows
  <2>4. t.after = Top(t.case)
    BY <2>1, <2>2, <2>3 DEF TransitionRows
  <2>5. row.state = t.to
    BY <2>4 DEF IInv, RowInv, LedgerInv
  <2>6. row.version \in Nat /\ extra \in Nat
    BY <2>3 DEF IInv, RowInv, TypeOK, CaseRows
  <2>7. Top(t.case) = row.version - extra
    BY DEF Top
  <2> HIDE DEF extra
  <2>8. row.version = t.after + extra
    BY <2>4, <2>6, <2>7
  <2> QED
    BY <2>5, <2>8 DEF extra
<1> QED
  BY <1>1, Inductive, PTL

\* What load_case_facts returned is the committed row until the transaction
\* ends: the checks and the guards never judge a stale row.
THEOREM FactsAreNeverStale == Spec => []FactsStayCurrent
<1>1. IInv => FactsStayCurrent
  <2> SUFFICES ASSUME IInv, NEW w \in Workers, pc[w] \notin {"idle", "load"}
               PROVE  case_record[cmd[w].case] = txn[w].facts
    BY DEF FactsStayCurrent
  <2>1. pc[w] \in Locked
    BY DEF IInv, RowInv, TypeOK, Locked
  <2> QED
    BY <2>1 DEF IInv, RowInv, WorkersInv, CurrentFacts
<1> QED
  BY <1>1, Inductive, PTL

\* VersionConflict is raised only for a case that has moved on.
THEOREM ConflictsAreReal == Spec => []ConflictMeansProgress
<1>1. IInv => ConflictMeansProgress
  <2> SUFFICES ASSUME IInv, NEW w \in Workers, reply[w] = "version conflict"
               PROVE  case_record[cmd[w].case].version > cmd[w].expected
    BY DEF ConflictMeansProgress
  <2>1. cmd[w].expected < case_record[cmd[w].case].version
    BY DEF IInv, RowInv, WorkersInv, HonestVersions
  <2> QED
    BY <2>1
<1> QED
  BY <1>1, Inductive, PTL

\* Nothing of a command that runs or was refused is ever visible, all of one
\* that returned an outcome is, and of one with a lost answer nothing or all.
THEOREM AnswersAreTrue == Spec => []AnswerMatchesEffect
<1>1. IInv => AnswerMatchesEffect
  BY DEF IInv, EffectInv
<1> QED
  BY <1>1, Inductive, PTL

\* A notification is in the outbox once, whichever commands of whichever cases
\* ask for it.
THEOREM NoticesAreUnique == Spec => []NoticeAnnouncedOnce
<1>1. IInv => NoticeAnnouncedOnce
  BY DEF IInv, NoticeInv
<1> QED
  BY <1>1, Inductive, PTL

\* occurred_at, the start of a transaction, follows the versions of the case
\* although transactions start in another order than they commit.
THEOREM HistoryIsInOrder == Spec => []HistoryIsChronological
<1>1. IInv => HistoryIsChronological
  BY DEF IInv, ChronicleInv
<1> QED
  BY <1>1, Inductive, PTL

LEMMA HeldTerminalRow ==
  ASSUME NEW r \in CaseRows, IsTerminal(r)
  PROVE  [HeldRow(r) EXCEPT !.hold = r.hold] = r
<1>1. HeldRow(r) = [r EXCEPT !.hold = TRUE, !.version = r.version]
  BY DEF HeldRow
<1> QED
  BY <1>1 DEF CaseRows

\* Neither a command that waited for the row nor one that passed its checks
\* earlier moves a case that is terminal or under diagnostic hold.
THEOREM FrozenCasesNeverMove == Spec => FrozenCasesStay
<1>1. ASSUME IInv, [Next]_vars, NEW c \in Cases PROVE FrozenStep(c)
  <2> SUFFICES ASSUME Frozen(case_record[c])
               PROVE  /\ [case_record'[c] EXCEPT !.hold = case_record[c].hold] = case_record[c]
                      /\ case_record[c].hold => case_record'[c].hold
                      /\ \A t \in state_transition' : t.case = c => t \in state_transition
                      /\ \A e \in event' : e.case = c => e \in event
                      /\ \A o \in outbox' : o.case = c => o \in outbox
    BY DEF FrozenStep
  <2>0. TypeOK /\ WorkersInv
    BY <1>1 DEF IInv, RowInv
  <2>1. TypeOK /\ WorkersInv /\ case_record[c] \in CaseRows
    BY <2>0, <1>1 DEF TypeOK
  <2>2. [case_record[c] EXCEPT !.hold = case_record[c].hold] = case_record[c]
    BY <2>1 DEF CaseRows
  <2>3. CASE case_record'[c] = case_record[c]
             /\ UNCHANGED <<event, state_transition, outbox>>
    BY <2>2, <2>3
  <2>4. ASSUME NEW w \in Workers, Commit(w)
        PROVE  /\ case_record'[c] = case_record[c]
               /\ \A t \in state_transition' : t.case = c => t \in state_transition
               /\ \A e \in event' : e.case = c => e \in event
               /\ \A o \in outbox' : o.case = c => o \in outbox
    <3>1. c # cmd[w].case
      BY <2>1, <2>4, CommitEffect
    <3>2. case_record'[c] = case_record[c]
      BY <2>1, <2>4, <3>1, CommittedRow
    <3>3. TransitionRow(w).case = cmd[w].case
      BY DEF TransitionRow
    <3>4. state_transition' = state_transition \cup {TransitionRow(w)}
      BY <2>1, <2>4, CommitEffect
    <3>5. /\ \A e \in txn[w].events : e.case = cmd[w].case
          /\ \A o \in txn[w].outbox : o.case = cmd[w].case
      BY <2>1 DEF WorkersInv, PrivateWrites
    <3>6. event' = event \cup txn[w].events /\ outbox' = outbox \cup txn[w].outbox
      BY <2>4 DEF Commit
    <3> QED
      BY <3>1, <3>2, <3>3, <3>4, <3>5, <3>6
  <2>5. ASSUME NEW d \in Cases, EnterHold(d)
        PROVE  /\ [case_record'[c] EXCEPT !.hold = case_record[c].hold] = case_record[c]
               /\ case_record[c].hold => case_record'[c].hold
               /\ UNCHANGED <<event, state_transition, outbox>>
    <3>1. UNCHANGED <<event, state_transition, outbox>>
      BY <2>5 DEF EnterHold
    <3>2. CASE d # c
      BY <2>1, <2>2, <2>5, <3>1, <3>2, HoldEffect
    <3>3. CASE d = c
      <4>1. ~case_record[c].hold /\ IsTerminal(case_record[c])
        BY <2>5, <3>3 DEF EnterHold, Frozen
      <4>2. case_record'[c] = HeldRow(case_record[c])
        BY <2>1, <2>5, <3>3 DEF EnterHold, TypeOK
      <4> QED
        BY <2>1, <3>1, <4>1, <4>2, HeldTerminalRow
    <3> QED
      BY <3>2, <3>3
  <2>6. ASSUME NEW d \in Cases, ClaimSlot(d)
        PROVE  case_record'[c] = case_record[c] /\ UNCHANGED <<event, state_transition, outbox>>
    BY <2>6 DEF ClaimSlot
  <2>7. CASE \E w \in Workers : Commit(w)
    BY <2>2, <2>4, <2>7
  <2>8. CASE \E d \in Cases : EnterHold(d) \/ ClaimSlot(d)
    BY <2>3, <2>5, <2>6, <2>8
  <2>9. CASE UNCHANGED tables
    BY <2>3, <2>9 DEF tables
  <2>10. \/ \E w \in Workers : Commit(w)
         \/ \E d \in Cases : EnterHold(d) \/ ClaimSlot(d)
         \/ UNCHANGED tables
    BY <1>1, TableSteps
  <2> QED
    BY <2>7, <2>8, <2>9, <2>10
<1>2. IInv /\ [Next]_vars => [\A c \in Cases : FrozenStep(c)]_vars
  BY <1>1
<1> QED
  BY <1>2, Inductive, PTL DEF Spec, FrozenCasesStay

-----------------------------------------------------------------------------
(***************************************************************************)
(* The refinement: the paths that CaseHistory speaks of.                   *)
(***************************************************************************)

LEMMA LeavingIs ==
  ASSUME NEW T, \A s, t \in T : s.before = t.before => s = t, NEW t \in T
  PROVE  Leaving(T, t.before) = t
BY DEF Leaving

\* A path has one state more than the case has transitions, the current one last.
LEMMA PathShape ==
  ASSUME NEW T \in SUBSET TransitionRows, NEW top \in Int, NEW state \in STATES,
         Consecutive(T, top)
  PROVE  /\ PathOf(T, top, state) \in Seq(STATES)
         /\ Len(PathOf(T, top, state)) = Cardinality(T) + 1
         /\ PathOf(T, top, state)[Cardinality(T) + 1] = state
         /\ \A i \in 1 .. Cardinality(T) :
               PathOf(T, top, state)[i] = Leaving(T, top - Cardinality(T) + i - 1).from
<1>1. PICK n \in Nat : n = Cardinality(T)
  BY FS_CardinalityType DEF Consecutive
<1> DEFINE path == [i \in 1 .. n + 1 |->
                       IF i <= n THEN Leaving(T, top - n + i - 1).from ELSE state]
<1>2. PathOf(T, top, state) = path
  BY <1>1 DEF PathOf
<1>3. ASSUME NEW i \in 1 .. n PROVE Leaving(T, top - n + i - 1).from \in STATES
  <2>1. top - n + i - 1 \in top - n .. top - 1
    OBVIOUS
  <2>2. PICK t \in T : t.before = top - n + i - 1
    BY <1>1, <2>1 DEF Consecutive
  <2>3. Leaving(T, t.before) = t
    BY LeavingIs DEF Consecutive
  <2> QED
    BY <2>2, <2>3 DEF TransitionRows
<1>4. path \in [1 .. n + 1 -> STATES]
  BY <1>3
<1>5. path \in Seq(STATES) /\ Len(path) = n + 1
  BY <1>4
<1>6. path[n + 1] = state
  OBVIOUS
<1>7. \A i \in 1 .. n : path[i] = Leaving(T, top - n + i - 1).from
  OBVIOUS
<1> HIDE DEF path
<1> QED
  BY <1>1, <1>2, <1>5, <1>6, <1>7

\* The next transition leaves the version the last one reached.
LEMMA OneMore ==
  ASSUME NEW T \in SUBSET TransitionRows, NEW top \in Int, Consecutive(T, top),
         NEW new \in TransitionRows, new.before = top,
         NEW all, all = T \cup {new}, NEW up \in Int, up = top + 1
  PROVE  /\ Cardinality(all) = Cardinality(T) + 1
         /\ Consecutive(all, up)
<1>1. PICK n \in Nat : n = Cardinality(T)
  BY FS_CardinalityType DEF Consecutive
<1>2. {t.before : t \in T} = top - n .. top - 1
  BY <1>1 DEF Consecutive
<1>3. \A t \in T : t.before < top
  <2>1. \A t \in T : t.before \in top - n .. top - 1
    BY <1>2
  <2>2. \A v \in top - n .. top - 1 : v < top
    OBVIOUS
  <2> QED
    BY <2>1, <2>2
<1>4. new \notin T
  BY <1>3
<1>5. IsFiniteSet(all) /\ Cardinality(all) = n + 1
  BY <1>1, <1>4, FS_AddElement DEF Consecutive
<1>6. {t.before : t \in all} = up - Cardinality(all) .. up - 1
  <2>1. {t.before : t \in all} = (top - n .. top - 1) \cup {top}
    BY <1>2
  <2>2. (top - n .. top - 1) \cup {top} = up - (n + 1) .. up - 1
    OBVIOUS
  <2> QED
    BY <1>5, <2>1, <2>2
<1>7. \A s, t \in all : s.before = t.before => s = t
  BY <1>3 DEF Consecutive
<1> QED
  BY <1>1, <1>5, <1>6, <1>7 DEF Consecutive

LEMMA PathGrows ==
  ASSUME NEW T \in SUBSET TransitionRows, NEW top \in Int, Consecutive(T, top),
         NEW new \in TransitionRows, new.before = top,
         NEW up \in Int, up = top + 1, NEW to \in STATES
  PROVE  PathOf(T \cup {new}, up, to) = Append(PathOf(T, top, new.from), to)
<1>0. PICK all : all = T \cup {new}
  OBVIOUS
<1>1. PICK n \in Nat : n = Cardinality(T)
  BY FS_CardinalityType DEF Consecutive
<1>2. new.from \in STATES
  BY DEF TransitionRows
<1>3. PICK m \in Nat : m = n + 1
  OBVIOUS
<1>4. Consecutive(all, up) /\ Cardinality(all) = m /\ all \in SUBSET TransitionRows
  BY <1>0, <1>1, <1>3, OneMore
<1>5. PICK old, grown : old = PathOf(T, top, new.from) /\ grown = PathOf(all, up, to)
  OBVIOUS
<1>6. /\ old \in Seq(STATES) /\ Len(old) = n + 1
      /\ old[n + 1] = new.from
      /\ \A i \in 1 .. n : old[i] = Leaving(T, top - n + i - 1).from
  BY <1>1, <1>2, <1>5, PathShape
<1>7. /\ grown \in Seq(STATES) /\ Len(grown) = m + 1
      /\ grown[m + 1] = to
      /\ \A i \in 1 .. m : grown[i] = Leaving(all, up - m + i - 1).from
  <2>1. /\ grown \in Seq(STATES) /\ Len(grown) = Cardinality(all) + 1
        /\ grown[Cardinality(all) + 1] = to
        /\ \A i \in 1 .. Cardinality(all) :
              grown[i] = Leaving(all, up - Cardinality(all) + i - 1).from
    BY <1>4, <1>5, PathShape
  <2> QED
    BY <1>4, <2>1
<1>8. ASSUME NEW i \in 1 .. n PROVE grown[i] = old[i]
  <2>1. PICK v : v = top - n + i - 1
    OBVIOUS
  <2>2. v \in top - n .. top - 1 /\ v = up - m + i - 1 /\ i \in 1 .. m
    BY <1>3, <2>1
  <2>3. PICK t \in T : t.before = v
    BY <1>1, <2>2 DEF Consecutive
  <2>4. Leaving(T, v) = t
    BY <2>3, LeavingIs DEF Consecutive
  <2>5. Leaving(all, v) = t
    <3>1. t \in all /\ \A r, s \in all : r.before = s.before => r = s
      BY <1>0, <1>4 DEF Consecutive
    <3> QED
      BY <2>3, <3>1, LeavingIs
  <2>6. grown[i] = Leaving(all, v).from
    BY <1>7, <2>2
  <2>7. old[i] = Leaving(T, v).from
    BY <1>6, <2>1
  <2> QED
    BY <2>4, <2>5, <2>6, <2>7
<1>9. grown[m] = new.from
  <2>1. Leaving(all, top) = new
    <3>1. new \in all /\ \A r, s \in all : r.before = s.before => r = s
      BY <1>0, <1>4 DEF Consecutive
    <3> QED
      BY <3>1, LeavingIs
  <2>2. top = up - m + m - 1 /\ m \in 1 .. m
    BY <1>3
  <2>3. grown[m] = Leaving(all, top).from
    BY <1>7, <2>2
  <2> QED
    BY <2>1, <2>3
<1>10. /\ Append(old, to) \in Seq(STATES) /\ Len(Append(old, to)) = m + 1
       /\ \A i \in 1 .. m : Append(old, to)[i] = old[i]
       /\ Append(old, to)[m + 1] = to
  BY <1>3, <1>6, AppendProperties
<1>11. ASSUME NEW i \in 1 .. m + 1 PROVE grown[i] = Append(old, to)[i]
  <2>1. i \in 1 .. n \/ i = m \/ i = m + 1
    BY <1>3
  <2>2. i \in 1 .. n => i \in 1 .. m
    BY <1>3
  <2>3. m \in 1 .. m
    BY <1>3
  <2> QED
    BY <1>3, <1>6, <1>7, <1>8, <1>9, <1>10, <2>1, <2>2, <2>3
<1>12. grown = Append(old, to)
  BY <1>7, <1>10, <1>11, SeqEqual
<1> QED
  BY <1>0, <1>5, <1>12

LEMMA GapsInit == Init => NoVersionMissing
<1> SUFFICES ASSUME Init, NEW c \in Cases PROVE Consecutive(TransitionsOf(c), Top(c))
  BY DEF NoVersionMissing
<1>1. TransitionsOf(c) = {}
  BY DEF Init, TransitionsOf
<1>2. PICK top \in Int : top = Top(c)
  BY TypeInit, TopType
<1>3. IsFiniteSet({}) /\ Cardinality({}) = 0
  BY FS_EmptySet
<1>4. top - 0 .. top - 1 = {}
  OBVIOUS
<1> QED
  BY <1>1, <1>2, <1>3, <1>4 DEF Consecutive

LEMMA SameTransitions ==
  ASSUME NEW c \in Cases, Top(c)' = Top(c), TransitionsOf(c)' = TransitionsOf(c),
         Consecutive(TransitionsOf(c), Top(c))
  PROVE  Consecutive(TransitionsOf(c), Top(c))'
BY DEF Consecutive

\* What a commit adds to the transitions of its case.
LEMMA CommitMove ==
  ASSUME TypeOK, WorkersInv, NEW w \in Workers, Commit(w),
         NEW c, c = cmd[w].case
  PROVE  /\ TransitionsOf(c)' = TransitionsOf(c) \cup {TransitionRow(w)}
         /\ \A d \in Cases \ {c} : TransitionsOf(d)' = TransitionsOf(d)
         /\ TransitionsOf(c) \in SUBSET TransitionRows
<1>1. /\ state_transition' = state_transition \cup {TransitionRow(w)}
      /\ TransitionRow(w).case = c
  BY CommitTop
<1> QED
  BY <1>1 DEF TransitionsOf, TypeOK

LEMMA GapsStep ==
  ASSUME TypeOK, WorkersInv, NoVersionMissing, [Next]_vars
  PROVE  NoVersionMissing'
<1> SUFFICES ASSUME NEW d \in Cases
             PROVE  Consecutive(TransitionsOf(d), Top(d))'
  BY DEF NoVersionMissing
<1>0. Consecutive(TransitionsOf(d), Top(d))
  BY DEF NoVersionMissing
<1>1. ASSUME NEW w \in Workers, Commit(w)
      PROVE  Consecutive(TransitionsOf(d), Top(d))'
  <2>1. PICK c : c = cmd[w].case
    OBVIOUS
  <2>2. CASE d # c
    <3>1. Top(d)' = Top(d)
      BY <1>1, <2>1, <2>2, CommitTop
    <3>2. TransitionsOf(d)' = TransitionsOf(d)
      BY <1>1, <2>1, <2>2, CommitMove
    <3> QED
      BY <1>0, <3>1, <3>2, SameTransitions
  <2>3. CASE d = c
    <3>1. PICK T \in SUBSET TransitionRows : T = TransitionsOf(d)
      BY <1>1, <2>1, <2>3, CommitMove
    <3>2. PICK top \in Int : top = Top(d)
      BY TopType
    <3>3. PICK new \in TransitionRows : new = TransitionRow(w)
      BY <1>1, <2>1, CommitTop
    <3>4. PICK up \in Int : up = top + 1
      OBVIOUS
    <3>5. PICK all : all = T \cup {new}
      OBVIOUS
    <3>6. new.before = top /\ Consecutive(T, top)
      BY <1>0, <1>1, <2>1, <2>3, <3>1, <3>2, <3>3, CommitTop
    <3>7. Consecutive(all, up)
      BY <3>4, <3>5, <3>6, OneMore
    <3>8. Top(d)' = up
      BY <1>1, <2>1, <2>3, <3>2, <3>4, CommitTop
    <3>9. TransitionsOf(d)' = all
      BY <1>1, <2>1, <2>3, <3>1, <3>3, <3>5, CommitMove
    <3> QED
      BY <3>7, <3>8, <3>9 DEF Consecutive
  <2> QED
    BY <2>2, <2>3
<1>2. ASSUME NEW c \in Cases, EnterHold(c)
      PROVE  Consecutive(TransitionsOf(d), Top(d))'
  <2>1. Top(d)' = Top(d)
    BY <1>2, TopStep
  <2>2. TransitionsOf(d)' = TransitionsOf(d)
    BY <1>2 DEF EnterHold, TransitionsOf
  <2> QED
    BY <1>0, <2>1, <2>2, SameTransitions
<1>3. ASSUME UNCHANGED <<case_record, state_transition>>
      PROVE  Consecutive(TransitionsOf(d), Top(d))'
  <2>1. Top(d)' = Top(d)
    BY <1>3 DEF Top
  <2>2. TransitionsOf(d)' = TransitionsOf(d)
    BY <1>3 DEF TransitionsOf
  <2> QED
    BY <1>0, <2>1, <2>2, SameTransitions
<1>4. ASSUME NEW c \in Cases, ClaimSlot(c) PROVE UNCHANGED <<case_record, state_transition>>
  BY <1>4 DEF ClaimSlot
<1>5. CASE UNCHANGED tables
  BY <1>3, <1>5 DEF tables
<1> QED
  BY <1>1, <1>2, <1>3, <1>4, <1>5, TableSteps

\* However many commands, holds and crashes there are, no version of a case is missing
\* in the ledger between the seeded one and the last one reached.
THEOREM NoVersionIsMissing == Spec => []NoVersionMissing
<1>1. IInv => TypeOK /\ WorkersInv
  BY DEF IInv, RowInv
<1>2. IInv /\ NoVersionMissing /\ [Next]_vars => NoVersionMissing'
  BY <1>1, GapsStep
<1> QED
  BY <1>2, GapsInit, Inductive, PTL DEF Spec

-----------------------------------------------------------------------------
(***************************************************************************)
(* The refinement: each step of the tables is a step of the histories.     *)
(***************************************************************************)

LEMMA SamePath ==
  ASSUME NEW c \in Cases, Top(c)' = Top(c), TransitionsOf(c)' = TransitionsOf(c),
         case_record'[c].state = case_record[c].state
  PROVE  Path(c)' = Path(c)
BY DEF Path

\* The path of a case ends in the state of its row.
LEMMA PathEnds ==
  ASSUME TypeOK, NoVersionMissing, NEW c \in Cases
  PROVE  Path(c)[Len(Path(c))] = case_record[c].state
<1>1. PICK T \in SUBSET TransitionRows : T = TransitionsOf(c)
  BY DEF TypeOK, TransitionsOf
<1>2. PICK top \in Int : top = Top(c)
  BY TopType
<1>3. PICK state \in STATES : state = case_record[c].state
  BY DEF TypeOK, CaseRows
<1>4. Consecutive(T, top) /\ Path(c) = PathOf(T, top, state)
  BY <1>1, <1>2, <1>3 DEF NoVersionMissing, Path
<1>5. /\ Len(PathOf(T, top, state)) = Cardinality(T) + 1
      /\ PathOf(T, top, state)[Cardinality(T) + 1] = state
  BY <1>4, PathShape, Zenon
<1>6. Path(c)[Len(Path(c))] = state
  BY <1>4, <1>5, Zenon
<1> QED
  BY <1>3, <1>6

LEMMA CommitPath ==
  ASSUME TypeOK, WorkersInv, NoVersionMissing, NEW w \in Workers, Commit(w),
         NEW c, c = cmd[w].case
  PROVE  /\ c \in Cases
         /\ Path(c)' = Append(Path(c), cmd[w].to)
         /\ \A d \in Cases \ {c} : Path(d)' = Path(d)
<1>1. PICK T \in SUBSET TransitionRows : T = TransitionsOf(c)
  BY CommitMove
<1>2. c \in Cases
  BY CommitTop
<1>3. PICK top \in Int : top = Top(c)
  BY <1>2, TopType
<1>4. PICK new \in TransitionRows : new = TransitionRow(w)
  BY CommitTop
<1>5. PICK up \in Int : up = top + 1
  OBVIOUS
<1>6. PICK to \in STATES : to = cmd[w].to
  BY DEF TypeOK, Commands
<1>7. new.before = top /\ Consecutive(T, top)
  BY <1>1, <1>2, <1>3, <1>4, CommitTop DEF NoVersionMissing
<1>8. PathOf(T \cup {new}, up, to) = Append(PathOf(T, top, new.from), to)
  BY <1>5, <1>7, PathGrows
<1>9. Path(c) = PathOf(T, top, new.from)
  <2>1. new.from = case_record[c].state
    BY <1>4, CommitTop
  <2> QED
    BY <1>1, <1>3, <2>1 DEF Path
<1>10. Path(c)' = PathOf(T \cup {new}, up, to)
  <2>1. TransitionsOf(c)' = T \cup {new}
    BY <1>1, <1>4, CommitMove
  <2>2. Top(c)' = up /\ case_record'[c].state = to
    BY <1>3, <1>5, <1>6, CommitTop
  <2> QED
    BY <2>1, <2>2 DEF Path
<1>11. ASSUME NEW d \in Cases \ {c} PROVE Path(d)' = Path(d)
  <2>1. Top(d)' = Top(d) /\ case_record'[d] = case_record[d]
    BY CommitTop
  <2>2. TransitionsOf(d)' = TransitionsOf(d)
    BY CommitMove
  <2> QED
    BY <2>1, <2>2, SamePath
<1> QED
  BY <1>2, <1>6, <1>8, <1>9, <1>10, <1>11

\* The notifications a commit inserts are new.
LEMMA CommitNews ==
  ASSUME TypeOK, NoticeInv, NEW w \in Workers, Commit(w)
  PROVE  /\ InFlight(w) \in SUBSET (Notices \ Announced)
         /\ Announced' = Announced \cup InFlight(w)
<1>1. outbox' = outbox \cup txn[w].outbox
  BY DEF Commit
<1>2. txn[w].outbox \subseteq OutboxRows
  BY DEF TypeOK, Transactions
<1>3. \A o \in txn[w].outbox, p \in outbox : o.notice # p.notice
  BY DEF NoticeInv
<1> QED
  BY <1>1, <1>2, <1>3 DEF InFlight, Announced, OutboxRows

LEMMA HistoryInit == Init => History!Init
<1> SUFFICES ASSUME Init PROVE History!Init
  OBVIOUS
<1>1. ASSUME NEW c \in Cases PROVE Path(c) \in {<<s>> : s \in STATES}
  <2>1. TransitionsOf(c) = {} /\ Cardinality({}) = 0
    BY FS_EmptySet DEF Init, TransitionsOf
  <2>2. PICK state \in STATES : state = case_record[c].state
    BY TypeInit DEF TypeOK, CaseRows
  <2>3. Path(c) = [i \in 1 .. 0 + 1 |->
                      IF i <= 0 THEN Leaving({}, Top(c) - 0 + i - 1).from ELSE state]
    BY <2>1, <2>2 DEF Path, PathOf
  <2>4. Path(c) = [i \in 1 .. 1 |-> state]
    BY <2>3
  <2>5. Path(c) = <<state>>
    BY <2>4
  <2> QED
    BY <2>2, <2>5
<1>2. Paths \in [Cases -> {<<s>> : s \in STATES}]
  BY <1>1 DEF Paths
<1>3. Held = {}
  BY SeedAssumption DEF Init, Held
<1>4. active_experiment_slot = NoCase /\ Announced = {}
  BY DEF Init, Announced
<1>5. History!STATES = STATES
  BY DEF STATES, ACTIVE_STATES, PAUSED_STATES, TERMINAL_STATES,
     History!STATES, History!ACTIVE_STATES, History!PAUSED_STATES, History!TERMINAL_STATES
<1> QED
  BY <1>2, <1>3, <1>4, <1>5 DEF History!Init

LEMMA HistoryStep ==
  ASSUME TypeOK, WorkersInv, ColumnsAgree, NoticeInv, NoVersionMissing, [Next]_vars
  PROVE  [History!Next]_(History!vars)
<1>0. /\ History!STATES = STATES
      /\ History!TERMINAL_STATES = TERMINAL_STATES
  BY DEF STATES, ACTIVE_STATES, PAUSED_STATES, TERMINAL_STATES,
     History!STATES, History!ACTIVE_STATES, History!PAUSED_STATES, History!TERMINAL_STATES
<1>1. ASSUME NEW c \in Cases
      PROVE  History!Closed(c) <=> IsTerminal(case_record[c])
  <2>1. History!Current(c) = case_record[c].state
    BY PathEnds DEF History!Current, Paths
  <2> QED
    BY <1>0, <2>1 DEF History!Closed, ColumnsAgree
<1>2. ASSUME NEW w \in Workers, Commit(w) PROVE History!Next
  <2>1. PICK c : c = cmd[w].case
    OBVIOUS
  <2>2. c \in Cases
    BY <1>2, <2>1, CommitPath
  <2>3. PICK to \in STATES : to = cmd[w].to
    BY DEF TypeOK, Commands
  <2>4. ~History!Closed(c) /\ c \notin Held
    <3>1. ~Frozen(case_record[c])
      BY <1>2, <2>1, CommitEffect
    <3> QED
      BY <1>1, <2>2, <3>1 DEF Frozen, Held
  <2>5. Paths' = [Paths EXCEPT ![c] = Append(Paths[c], to)]
    <3>1. Path(c)' = Append(Path(c), to) /\ \A d \in Cases \ {c} : Path(d)' = Path(d)
      BY <1>2, <2>1, <2>3, CommitPath
    <3> QED
      BY <2>2, <3>1 DEF Paths
  <2>6. active_experiment_slot' =
           IF to \in TERMINAL_STATES /\ active_experiment_slot = c
           THEN NoCase ELSE active_experiment_slot
    BY <1>2, <2>1, <2>3, CommitEffect
  <2>7. \E news \in SUBSET (Notices \ Announced) : Announced' = Announced \cup news
    BY <1>2, CommitNews
  <2>8. Held' = Held
    <3>1. \A d \in Cases : case_record'[d].hold = case_record[d].hold
      BY <1>2, <2>1, CommittedRow
    <3> QED
      BY <3>1 DEF Held
  <2>9. History!Advance(c)
    BY <1>0, <2>3, <2>4, <2>5, <2>6, <2>7, <2>8 DEF History!Advance
  <2> QED
    BY <2>2, <2>9 DEF History!Next
<1>3. ASSUME NEW c \in Cases, EnterHold(c) PROVE History!Next
  <2>1. c \notin Held
    BY <1>3 DEF EnterHold, Held
  <2>2. Held' = Held \cup {c}
    BY <1>3, HoldEffect DEF Held
  <2>3. Paths' = Paths
    <3>1. ASSUME NEW d \in Cases PROVE Path(d)' = Path(d)
      <4>1. Top(d)' = Top(d) /\ case_record'[d].state = case_record[d].state
        BY <1>3, TopStep
      <4>2. TransitionsOf(d)' = TransitionsOf(d)
        BY <1>3 DEF EnterHold, TransitionsOf
      <4> QED
        BY <4>1, <4>2, SamePath
    <3> QED
      BY <3>1 DEF Paths
  <2>4. active_experiment_slot' = active_experiment_slot /\ Announced' = Announced
    BY <1>3 DEF EnterHold, Announced
  <2> QED
    BY <2>1, <2>2, <2>3, <2>4 DEF History!Next, History!Hold
<1>4. ASSUME UNCHANGED <<case_record, state_transition, outbox>>
      PROVE  Paths' = Paths /\ Held' = Held /\ Announced' = Announced
  <2>1. ASSUME NEW d \in Cases PROVE Path(d)' = Path(d)
    BY <1>4, SamePath DEF Top, TransitionsOf
  <2> QED
    BY <1>4, <2>1 DEF Paths, Held, Announced
<1>5. ASSUME NEW c \in Cases, ClaimSlot(c) PROVE History!Next
  <2>1. Paths' = Paths /\ Held' = Held /\ Announced' = Announced
    BY <1>4, <1>5 DEF ClaimSlot
  <2>2. active_experiment_slot = NoCase /\ active_experiment_slot' = c
    BY <1>5 DEF ClaimSlot
  <2>3. ~History!Closed(c)
    BY <1>1, <1>5 DEF ClaimSlot
  <2> QED
    BY <2>1, <2>2, <2>3 DEF History!Next, History!Claim
<1>6. CASE UNCHANGED tables
  BY <1>4, <1>6 DEF tables, History!vars
<1> QED
  BY <1>2, <1>3, <1>5, <1>6, TableSteps

\* apply_transition implements the case histories: whatever its workers, the other
\* writers and the server do, a reader of the tables sees whole moves of live cases.
THEOREM Refinement == Spec => ImplementsHistory
<1>1. IInv /\ NoVersionMissing /\ [Next]_vars => [History!Next]_(History!vars)
  <2> SUFFICES ASSUME IInv, NoVersionMissing, [Next]_vars
               PROVE  [History!Next]_(History!vars)
    OBVIOUS
  <2> QED
    BY HistoryStep DEF IInv, RowInv
<1> QED
  BY <1>1, HistoryInit, Inductive, NoVersionIsMissing, PTL
  DEF Spec, ImplementsHistory, History!Spec

-----------------------------------------------------------------------------
(***************************************************************************)
(* The rules of the database.                                              *)
(***************************************************************************)

\* The CHECKs admit every row whose columns agree.
LEMMA AgreeingRowPasses ==
  ASSUME NEW r, r.state \in STATES,
         r.status = IF r.state \in STATUS_STATES THEN r.state ELSE NULL,
         IsTerminal(r) <=> r.state \in TERMINAL_STATES
  PROVE  ChecksPass(r)
<1>1. True # False /\ Unknown # False /\ True # Unknown
  BY DEF True, False, Unknown
<1>2. NULL \notin STATES
  BY DEF NULL, STATES, ACTIVE_STATES, PAUSED_STATES, TERMINAL_STATES
<1>3. CASE r.state \in STATUS_STATES
  <2>1. r.status = r.state /\ r.status # NULL
    BY <1>2, <1>3
  <2>2. ck_case_status_values(r) = True /\ ck_case_status_matches_state(r) = True
    BY <1>3, <2>1 DEF ck_case_status_values, ck_case_status_matches_state, SqlOr, SqlIn,
                      SqlEq, Known
  <2>3. CASE r.state \in TERMINAL_STATES
    <3>1. SqlIn(r.status, TERMINAL_STATES) = True /\ Known(IsTerminal(r)) = True
      BY <2>1, <2>3 DEF SqlIn, Known
    <3>2. ck_case_terminal_lock(r) = True
      BY <3>1 DEF ck_case_terminal_lock, SqlOr, SqlAnd
    <3> QED
      BY <1>1, <2>2, <3>2 DEF ChecksPass, CheckPasses
  <2>4. CASE r.state \notin TERMINAL_STATES
    <3>1. SqlIn(r.status, PAUSED_STATES) = True /\ Known(~IsTerminal(r)) = True
      BY <1>3, <2>1, <2>4 DEF SqlIn, Known, STATUS_STATES
    <3>2. ck_case_terminal_lock(r) = True
      BY <1>1, <3>1 DEF ck_case_terminal_lock, SqlOr, SqlAnd
    <3> QED
      BY <1>1, <2>2, <3>2 DEF ChecksPass, CheckPasses
  <2> QED
    BY <2>3, <2>4
<1>4. CASE r.state \notin STATUS_STATES
  <2>1. r.status = NULL /\ IsNull(r.status) = True
    BY <1>4 DEF IsNull, Known
  <2>2. ~IsTerminal(r)
    BY <1>4 DEF STATUS_STATES
  <2>3. ck_case_status_values(r) = True /\ ck_case_status_matches_state(r) = True
    BY <2>1 DEF ck_case_status_values, ck_case_status_matches_state, SqlOr
  <2>4. Known(~IsTerminal(r)) = True
    BY <2>2 DEF Known
  <2>5. ck_case_terminal_lock(r) = True
    BY <1>1, <2>1, <2>4 DEF ck_case_terminal_lock, SqlOr, SqlAnd
  <2> QED
    BY <1>1, <2>3, <2>5 DEF ChecksPass, CheckPasses
<1> QED
  BY <1>3, <1>4

\* The database admits what a command writes and what entering a hold writes.
LEMMA MovesAreAdmitted ==
  ASSUME NEW row \in CaseRows, ~IsTerminal(row), NEW to \in STATES,
         NEW now \in Nat, now # NoTime
  PROVE  UpdateAdmitted(row, Projected(row, to, row.version + 1, now))
<1> DEFINE new == Projected(row, to, row.version + 1, now)
<1>1. /\ new.state = to
      /\ new.status = IF to \in STATUS_STATES THEN to ELSE NULL
      /\ new.version = row.version + 1
      /\ new.lockedAt = IF to \in TERMINAL_STATES THEN now ELSE row.lockedAt
  BY ProjectedFields
<1> HIDE DEF new
<1>2. IsTerminal(new) <=> to \in TERMINAL_STATES
  BY <1>1 DEF IsTerminal
<1>3. ChecksPass(new)
  BY <1>1, <1>2, AgreeingRowPasses
<1>4. new.version > row.version
  BY <1>1 DEF CaseRows
<1>5. UpdateAdmitted(row, new)
  BY <1>3, <1>4 DEF UpdateAdmitted, pls_case_update_guard
<1> QED
  BY <1>5 DEF new

LEMMA HoldsAreAdmitted ==
  ASSUME NEW row \in CaseRows,
         row.status = IF row.state \in STATUS_STATES THEN row.state ELSE NULL,
         IsTerminal(row) <=> row.state \in TERMINAL_STATES
  PROVE  UpdateAdmitted(row, HeldRow(row))
<1> DEFINE new == HeldRow(row)
<1>1. /\ new.state = row.state
      /\ new.status = row.status
      /\ new.lockedAt = row.lockedAt
      /\ new.hold = TRUE
      /\ new.version = IF IsTerminal(row) THEN row.version ELSE row.version + 1
  BY HeldRowFields
<1>2. IsTerminal(row) => [row EXCEPT !.hold = new.hold] = new
  BY <1>1 DEF HeldRow, CaseRows
<1> HIDE DEF new
<1>3. IsTerminal(new) <=> new.state \in TERMINAL_STATES
  BY <1>1 DEF IsTerminal
<1>4. new.state \in STATES
  BY <1>1 DEF CaseRows
<1>5. ChecksPass(new)
  BY <1>1, <1>3, <1>4, AgreeingRowPasses
<1>6. ~IsTerminal(row) => new.version > row.version
  BY <1>1 DEF CaseRows
<1>7. UpdateAdmitted(row, new)
  BY <1>2, <1>5, <1>6 DEF UpdateAdmitted, pls_case_update_guard
<1> QED
  BY <1>7 DEF new

\* The lock and the checks of apply_transition leave nothing for the unique index
\* (0002), the trigger and the CHECKs (0003) to refuse.
THEOREM RulesAreIdle == Spec => []RulesNeverRefuse
<1>1. IInv => RulesNeverRefuse
  <2> SUFFICES ASSUME IInv, NEW w \in Workers
               PROVE  /\ pc[w] = "append_transition" => ~VersionTaken(TransitionRow(w))
                      /\ pc[w] = "update_projection" =>
                            UpdateAdmitted(case_record[cmd[w].case], UpdatedRow(w))
    BY DEF RulesNeverRefuse
  <2>1. TypeOK /\ WorkersInv /\ LedgerInv
    BY DEF IInv, RowInv
  <2>2. SUFFICES ASSUME pc[w] \in {"append_transition", "update_projection"}
                 PROVE  /\ ~VersionTaken(TransitionRow(w))
                        /\ UpdateAdmitted(case_record[cmd[w].case], UpdatedRow(w))
    OBVIOUS
  <2>3. pc[w] \in Locked /\ pc[w] \in Admitted
    BY <2>2 DEF Locked, Admitted, Steps
  <2> DEFINE c == cmd[w].case
             row == case_record[c]
  <2>4. c \in Cases /\ txn[w].facts = row /\ ~Frozen(row)
    BY <2>1, <2>3 DEF WorkersInv, CurrentFacts, AdmittedFacts
  <2>5. row \in CaseRows /\ cmd[w].to \in STATES
    BY <2>1, <2>4 DEF TypeOK, Commands
  <2>6. txn[w].began \in Nat /\ txn[w].began # NoTime
    <3>1. pc[w] # "idle"
      BY <2>2
    <3>2. txn[w].began \in 1 .. clock
      BY <2>1, <3>1 DEF WorkersInv, PrivateWrites
    <3> QED
      BY <2>1, <3>2, BoundAssumption DEF TypeOK, NoTime
  <2>7. TransitionRow(w).case = c /\ TransitionRow(w).after = row.version + 1
    BY <2>4 DEF TransitionRow
  <2>8. ~VersionTaken(TransitionRow(w))
    <3>1. Top(c) = row.version /\ row.version \in Nat
      BY <2>1, <2>4, TopType
    <3>2. \A t \in state_transition : t.case = c => t.after <= Top(c)
      BY <2>1 DEF LedgerInv
    <3>3. \A t \in state_transition : t.case = c => t.after # row.version + 1
      BY <2>1, <3>1, <3>2 DEF TypeOK, TransitionRows
    <3> QED
      BY <2>7, <3>3 DEF VersionTaken
  <2>9. UpdatedRow(w) = Projected(row, cmd[w].to, row.version + 1, txn[w].began)
    BY <2>7 DEF UpdatedRow, Now
  <2>10. UpdateAdmitted(row, UpdatedRow(w))
    BY <2>4, <2>5, <2>6, <2>9, MovesAreAdmitted DEF Frozen
  <2> QED
    BY <2>8, <2>10
<1> QED
  BY <1>1, Inductive, PTL

\* The rows the other modules assume of the store: a committed row changes only as
\* CaseStore lets it, by commands and by holds alike.
THEOREM RowsFollowRules == Spec => RowsChangeByTheRules
<1> DEFINE Ruled(c) == \/ case_record'[c] = case_record[c]
                       \/ UpdateAdmitted(case_record[c], case_record'[c])
<1>1. ASSUME IInv, [Next]_vars, NEW c \in Cases PROVE Ruled(c)
  <2>1. TypeOK /\ WorkersInv /\ ColumnsAgree /\ case_record[c] \in CaseRows
    BY <1>1 DEF IInv, RowInv, TypeOK
  <2>2. ASSUME NEW w \in Workers, Commit(w) PROVE Ruled(c)
    <3> DEFINE row == case_record[cmd[w].case]
               new == Projected(row, cmd[w].to, row.version + 1, txn[w].began)
    <3>1. /\ row \in CaseRows /\ ~Frozen(row) /\ cmd[w].case \in Cases
          /\ txn[w].began \in 1 .. clock
          /\ case_record' = [case_record EXCEPT ![cmd[w].case] = new]
      BY <2>1, <2>2, CommitEffect
    <3>2. CASE c # cmd[w].case
      BY <2>1, <3>1, <3>2 DEF TypeOK
    <3>3. CASE c = cmd[w].case
      <4>1. case_record'[c] = new
        BY <2>1, <3>1, <3>3 DEF TypeOK
      <4>2. txn[w].began \in Nat /\ txn[w].began # NoTime
        BY <2>1, <3>1, BoundAssumption DEF TypeOK, NoTime
      <4>3. cmd[w].to \in STATES
        BY <2>1, <2>2, <3>1 DEF TypeOK, Commands
      <4>4. UpdateAdmitted(row, new)
        BY <3>1, <4>2, <4>3, MovesAreAdmitted DEF Frozen
      <4> QED
        BY <3>3, <4>1, <4>4
    <3> QED
      BY <3>2, <3>3
  <2>3. ASSUME NEW d \in Cases, EnterHold(d) PROVE Ruled(c)
    <3>1. CASE c # d
      BY <2>1, <2>3, <3>1 DEF EnterHold, TypeOK
    <3>2. CASE c = d
      <4>1. case_record'[c] = HeldRow(case_record[c])
        BY <2>1, <2>3, <3>2 DEF EnterHold, TypeOK
      <4>2. UpdateAdmitted(case_record[c], HeldRow(case_record[c]))
        BY <2>1, HoldsAreAdmitted DEF ColumnsAgree
      <4> QED
        BY <4>1, <4>2
    <3> QED
      BY <3>1, <3>2
  <2>4. ASSUME NEW d \in Cases, ClaimSlot(d) PROVE Ruled(c)
    BY <2>4 DEF ClaimSlot
  <2>5. CASE UNCHANGED tables
    BY <2>5 DEF tables
  <2> QED
    BY <1>1, <2>2, <2>3, <2>4, <2>5, TableSteps
<1>2. IInv /\ [Next]_vars => [\A c \in Cases : Ruled(c)]_vars
  BY <1>1
<1> QED
  BY <1>2, Inductive, PTL DEF Spec, RowsChangeByTheRules

-----------------------------------------------------------------------------
(***************************************************************************)
(* Waiting.                                                                *)
(***************************************************************************)

LEMMA HoldersStep ==
  ASSUME TypeOK, HoldersHaveLoaded, [Next]_vars
  PROVE  HoldersHaveLoaded'
<1> SUFFICES ASSUME NEW c \in Cases, NEW v \in Workers, lock'[c] = v
             PROVE  pc'[v] \in Locked
  BY DEF HoldersHaveLoaded
<1>0. NoOne # v
  BY WorkerAssumption
<1>1. ASSUME NEW w \in Workers, Starts(w) PROVE pc'[v] \in Locked
  <2>1. lock[c] = v /\ pc[v] \in Locked
    BY <1>1 DEF Starts, RefuseUnknownState, BeginTransaction, HoldersHaveLoaded
  <2>2. pc[w] = "idle" /\ (v # w => pc'[v] = pc[v])
    BY <1>1 DEF Starts, RefuseUnknownState, BeginTransaction, MayStart, Continue, TypeOK
  <2> QED
    BY <2>1, <2>2 DEF Locked
<1>2. ASSUME NEW w \in Workers, LoadCaseFacts(w) PROVE pc'[v] \in Locked
  <2>1. pc'[w] = "check" /\ (v # w => lock[c] = v /\ pc'[v] = pc[v])
    BY <1>2 DEF LoadCaseFacts, Continue, TypeOK
  <2> QED
    BY <2>1 DEF HoldersHaveLoaded, Locked, Steps
<1>3. ASSUME NEW w \in Workers, Writes(w) PROVE pc'[v] \in Locked
  <2>1. lock' = lock
    BY <1>3 DEF Writes, PassGuards, AppendEvent, AppendTransition, UpdateProjection,
       AppendOutbox
  <2>2. pc'[w] \in Locked
    BY <1>3 DEF Writes, PassGuards, AppendEvent, AppendTransition, UpdateProjection,
       AppendOutbox, Sending, Continue, TypeOK, Locked, Steps
  <2>3. v # w => pc'[v] = pc[v]
    BY <1>3 DEF Writes, PassGuards, AppendEvent, AppendTransition, UpdateProjection,
       AppendOutbox, Continue, TypeOK
  <2> QED
    BY <2>1, <2>2, <2>3 DEF HoldersHaveLoaded
<1>4. ASSUME NEW w \in Workers, Commit(w) \/ Aborts(w) PROVE pc'[v] \in Locked
  <2>1. lock' = Released(w) /\ pc' = [pc EXCEPT ![w] = "idle"]
    BY <1>4 DEF Commit, Continue, Aborts, Rollback
  <2>2. lock[c] = v /\ v # w
    BY <1>0, <2>1 DEF Released
  <2> QED
    BY <2>1, <2>2 DEF HoldersHaveLoaded, TypeOK
<1>5. CASE \/ \E d \in Cases : EnterHold(d) \/ ClaimSlot(d)
           \/ Tick
           \/ UNCHANGED vars
  BY <1>5 DEF EnterHold, ClaimSlot, Tick, vars, workerState, HoldersHaveLoaded
<1> QED
  BY <1>1, <1>2, <1>3, <1>4, <1>5, StepCases

\* Of any number of workers, those that wait for each other in a cycle are all in the
\* loop over their notifications, where the deadlock detector sees them: FOR UPDATE
\* never closes a cycle, since whoever waits there keeps nobody waiting.  So every
\* chain of waits that is not such a cycle ends in a transaction that can go on.
THEOREM CyclesAreSeen == Spec => []EveryCycleIsSeen
<1>1. Init => HoldersHaveLoaded
  BY WorkerAssumption DEF Init, HoldersHaveLoaded
<1>2. IInv /\ HoldersHaveLoaded /\ [Next]_vars => HoldersHaveLoaded'
  BY HoldersStep DEF IInv, RowInv
<1>3. ASSUME IInv, HoldersHaveLoaded PROVE EveryCycleIsSeen
  <2>1. ASSUME NEW x \in Workers, pc[x] = "load", NEW u \in Workers
        PROVE  ~Blocked(u, x)
    <3>1. ~RowWait(u, x)
      BY <1>3, <2>1 DEF RowWait, HoldersHaveLoaded, Locked
    <3>2. txn[x].outbox = {}
      BY <1>3, <2>1 DEF IInv, EffectInv, OwnWrites
    <3> QED
      BY <3>1, <3>2 DEF Blocked, WaitsFor, InFlight
  <2>2. ASSUME NEW S \in SUBSET Workers, WaitCycle(S), NEW x \in S, NEW y \in S,
               Blocked(x, y)
        PROVE  WaitsFor(x, y)
    <3>1. pc[x] # "load"
      BY <2>1, <2>2 DEF WaitCycle
    <3> QED
      BY <2>2, <3>1 DEF Blocked, RowWait
  <2> QED
    BY <2>2 DEF EveryCycleIsSeen, WaitCycle, Deadlocked
<1> QED
  BY <1>1, <1>2, <1>3, Inductive, PTL DEF Spec

=============================================================================
