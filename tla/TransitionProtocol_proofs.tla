---------------------- MODULE TransitionProtocol_proofs ----------------------
(***************************************************************************)
(* Proofs about TransitionProtocol, for any number of cases, workers and   *)
(* commands and any bound of the clock.                                    *)
(***************************************************************************)
EXTENDS TransitionInvariants, SequenceTheorems, TLAPS

-----------------------------------------------------------------------------
(***************************************************************************)
(* Type correctness.                                                       *)
(***************************************************************************)

LEMMA SeedsAreRows == InitialRows \subseteq CaseRows
BY SeedAssumption

LEMMA NoTxnType == NoTxn \in Transactions
<1>1. <<>> \in Seq(Notices)
  OBVIOUS
<1>2. NoRow \in CaseRows
  BY DEF NoRow, CaseRows, STATES, ACTIVE_STATES, NoTime
<1> QED
  BY <1>1, <1>2 DEF NoTxn, Transactions, NoTime

LEMMA TxnUpdates ==
  ASSUME NEW t \in Transactions
  PROVE  /\ \A b \in Nat, l \in Seq(Notices) :
              [t EXCEPT !.began = b, !.left = l] \in Transactions
         /\ \A f \in CaseRows : [t EXCEPT !.facts = f] \in Transactions
         /\ \A E \in SUBSET EventRows : [t EXCEPT !.events = E] \in Transactions
         /\ \A T \in SUBSET TransitionRows :
              [t EXCEPT !.transitions = T] \in Transactions
         /\ \A r \in CaseRows, C \in SUBSET Cases :
              [t EXCEPT !.row = r, !.released = C] \in Transactions
         /\ \A O \in SUBSET OutboxRows, l \in Seq(Notices) :
              [t EXCEPT !.outbox = O, !.left = l] \in Transactions
BY DEF Transactions

LEMMA NoCmdType == NoCmd \in Commands
<1>1. <<>> \in Seq(Notices)
  OBVIOUS
<1> QED
  BY <1>1 DEF NoCmd, Commands, STATES, ACTIVE_STATES

LEMMA TypeInit == Init => TypeOK
<1> SUFFICES ASSUME Init PROVE TypeOK
  OBVIOUS
<1>1. case_record \in [Cases -> CaseRows]
  BY SeedsAreRows DEF Init
<1>2. clock \in 1 .. MaxClock
  BY BoundAssumption DEF Init
<1>3. cmd \in [Workers -> Commands] /\ txn \in [Workers -> Transactions]
  BY NoCmdType, NoTxnType DEF Init
<1>4. attempts \in [Workers -> 0 .. MaxAttempts]
  BY BoundAssumption DEF Init
<1> QED
  BY <1>1, <1>2, <1>3, <1>4 DEF Init, TypeOK, Steps, Replies

LEMMA ReleasedType ==
  ASSUME TypeOK, NEW w \in Workers
  PROVE  Released(w) \in [Cases -> Workers \cup {NoOne}]
BY DEF TypeOK, Released

LEMMA RollbackType ==
  ASSUME TypeOK, NEW w \in Workers, NEW r \in Refusals \cup {"lost"}, Rollback(w, r)
  PROVE  TypeOK'
<1>1. pc' \in [Workers -> Steps]
  BY DEF TypeOK, Rollback, Steps
<1>2. txn' \in [Workers -> Transactions]
  BY NoTxnType DEF TypeOK, Rollback
<1>3. lock' \in [Cases -> Workers \cup {NoOne}]
  BY ReleasedType DEF Rollback
<1>4. reply' \in [Workers -> Replies]
  BY DEF TypeOK, Rollback, Replies
<1> QED
  BY <1>1, <1>2, <1>3, <1>4 DEF TypeOK, Rollback, tables

LEMMA BeginType ==
  ASSUME TypeOK, NEW w \in Workers, RefuseUnknownState(w) \/ BeginTransaction(w)
  PROVE  TypeOK'
<1>1. attempts' \in [Workers -> 0 .. MaxAttempts]
  <2>1. attempts' = [attempts EXCEPT ![w] = attempts[w] + 1] /\ attempts[w] < MaxAttempts
    BY DEF RefuseUnknownState, BeginTransaction, MayStart
  <2> QED
    BY <2>1, BoundAssumption DEF TypeOK
<1>2. reply' \in [Workers -> Replies]
  BY DEF TypeOK, RefuseUnknownState, BeginTransaction, Replies, Refusals
<1>3. CASE RefuseUnknownState(w)
  BY <1>1, <1>2, <1>3, NoCmdType DEF TypeOK, RefuseUnknownState, tables
<1>4. CASE BeginTransaction(w)
  <2>1. PICK c \in Cases \cup {NoCase}, to \in KnownTargets, batch \in Batches :
          \E expected \in VersionsRead(c) :
           /\ cmd' = [cmd EXCEPT ![w] = [case |-> c, expected |-> expected,
                                         to |-> to, notices |-> batch]]
           /\ txn' = [txn EXCEPT ![w].began = clock, ![w].left = batch]
    BY <1>4 DEF BeginTransaction
  <2>2. PICK expected \in VersionsRead(c) :
           /\ cmd' = [cmd EXCEPT ![w] = [case |-> c, expected |-> expected,
                                         to |-> to, notices |-> batch]]
           /\ txn' = [txn EXCEPT ![w].began = clock, ![w].left = batch]
    BY <2>1
  <2>3. expected \in Nat
    BY DEF TypeOK, CaseRows, VersionsRead
  <2>4. batch \in Seq(Notices)
    BY BatchAssumption
  <2>5. cmd' \in [Workers -> Commands]
    BY <2>2, <2>3, <2>4 DEF TypeOK, Commands, KnownTargets
  <2>6. clock \in Nat
    BY BoundAssumption DEF TypeOK
  <2>7. txn' \in [Workers -> Transactions]
    BY <2>2, <2>4, <2>6, TxnUpdates DEF TypeOK
  <2>8. pc' \in [Workers -> Steps]
    BY <1>4 DEF TypeOK, BeginTransaction, Continue, Steps
  <2> QED
    BY <1>1, <1>2, <1>4, <2>5, <2>7, <2>8 DEF TypeOK, BeginTransaction, tables
<1> QED
  BY <1>3, <1>4

LEMMA LoadType ==
  ASSUME TypeOK, NEW w \in Workers, LoadCaseFacts(w)
  PROVE  TypeOK'
<1>1. pc' \in [Workers -> Steps]
  BY DEF TypeOK, LoadCaseFacts, Continue, Steps
<1>2. txn' \in [Workers -> Transactions]
  BY TxnUpdates DEF TypeOK, LoadCaseFacts
<1>3. lock' \in [Cases -> Workers \cup {NoOne}]
  BY DEF TypeOK, LoadCaseFacts
<1> QED
  BY <1>1, <1>2, <1>3 DEF TypeOK, LoadCaseFacts, tables

LEMMA RowTypes ==
  ASSUME TypeOK, WorkersInv, NEW w \in Workers, pc[w] \in Locked
  PROVE  /\ cmd[w].case \in Cases
         /\ Id(w) \in Ids
         /\ TransitionRow(w) \in TransitionRows
         /\ UpdatedRow(w) \in CaseRows
<1>1. cmd[w].case \in Cases
  BY DEF WorkersInv, CurrentFacts
<1>2. Id(w) \in Ids
  BY BoundAssumption DEF TypeOK, Id, Ids
<1>3. txn[w].facts \in CaseRows /\ cmd[w].to \in STATES /\ txn[w].began \in Nat
  BY DEF TypeOK, Transactions, Commands
<1>4. TransitionRow(w) \in TransitionRows
  BY <1>1, <1>2, <1>3 DEF TransitionRow, TransitionRows, CaseRows
<1>5. TransitionRow(w).after \in Nat
  BY <1>4 DEF TransitionRows
<1>6. case_record[cmd[w].case] \in CaseRows
  BY <1>1 DEF TypeOK
<1>7. UpdatedRow(w) \in CaseRows
  BY <1>3, <1>5, <1>6 DEF UpdatedRow, Projected, CaseRows, Now
<1> QED
  BY <1>1, <1>2, <1>4, <1>7

LEMMA AppendType ==
  ASSUME TypeOK, WorkersInv, NEW w \in Workers,
         PassGuards(w) \/ AppendEvent(w) \/ AppendTransition(w)
           \/ UpdateProjection(w) \/ AppendOutbox(w)
  PROVE  TypeOK'
<1>1. pc[w] \in Locked
  BY DEF PassGuards, AppendEvent, AppendTransition, UpdateProjection, AppendOutbox,
         Sending, Continue, Locked, Steps
<1>2. pc' \in [Workers -> Steps]
  BY DEF TypeOK, PassGuards, AppendEvent, AppendTransition, UpdateProjection,
         AppendOutbox, Continue, Steps
<1>3. txn[w] \in Transactions
  BY DEF TypeOK
<1>4. CASE PassGuards(w)
  BY <1>2, <1>4 DEF TypeOK, PassGuards, tables
<1>5. CASE AppendEvent(w)
  <2>1. {[id |-> Id(w), case |-> cmd[w].case, at |-> Now(w)]} \in SUBSET EventRows
    BY <1>1, <1>3, RowTypes DEF EventRows, Now, Transactions
  <2>2. txn' \in [Workers -> Transactions]
    BY <1>3, <1>5, <2>1, TxnUpdates DEF TypeOK, AppendEvent
  <2> QED
    BY <1>2, <1>5, <2>2 DEF TypeOK, AppendEvent, tables
<1>6. CASE AppendTransition(w)
  <2>1. txn' = [txn EXCEPT ![w].transitions = {TransitionRow(w)}]
    BY <1>6 DEF AppendTransition
  <2>2. txn' \in [Workers -> Transactions]
    BY <1>1, <1>3, <2>1, RowTypes, TxnUpdates DEF TypeOK
  <2> QED
    BY <1>2, <1>6, <2>2 DEF TypeOK, AppendTransition, tables
<1>7. CASE UpdateProjection(w)
  <2>1. SlotRowsDeleted(w) \in SUBSET Cases
    BY <1>1, RowTypes DEF SlotRowsDeleted
  <2>2. txn' = [txn EXCEPT ![w].row = UpdatedRow(w), ![w].released = SlotRowsDeleted(w)]
    BY <1>7 DEF UpdateProjection
  <2>3. txn' \in [Workers -> Transactions]
    BY <1>1, <1>3, <2>1, <2>2, RowTypes, TxnUpdates DEF TypeOK
  <2> QED
    BY <1>2, <1>7, <2>3 DEF TypeOK, UpdateProjection, tables
<1>8. CASE AppendOutbox(w)
  <2> DEFINE new == [notice |-> Head(txn[w].left), case |-> cmd[w].case, event |-> Id(w)]
  <2>1. txn[w].left \in Seq(Notices) /\ txn[w].left # <<>>
    BY <1>3, <1>8 DEF Transactions, AppendOutbox, Sending
  <2>2. Head(txn[w].left) \in Notices /\ Tail(txn[w].left) \in Seq(Notices)
    BY <2>1, HeadTailProperties
  <2>3. txn[w].outbox \cup {new} \in SUBSET OutboxRows
    BY <1>1, <1>3, <2>2, RowTypes DEF OutboxRows, Transactions
  <2>4. txn' = [txn EXCEPT ![w].outbox = txn[w].outbox \cup {new},
                           ![w].left = Tail(txn[w].left)]
    BY <1>8 DEF AppendOutbox
  <2> HIDE DEF new
  <2>5. txn' \in [Workers -> Transactions]
    BY <1>3, <2>2, <2>3, <2>4, TxnUpdates DEF TypeOK
  <2> QED
    BY <1>2, <1>8, <2>5 DEF TypeOK, AppendOutbox, tables
<1> QED
  BY <1>4, <1>5, <1>6, <1>7, <1>8

LEMMA CommitType ==
  ASSUME TypeOK, WorkersInv, NEW w \in Workers, Commit(w)
  PROVE  TypeOK'
<1>1. pc[w] \in Locked
  BY DEF Commit, Continue, Locked, Steps
<1>2. cmd[w].case \in Cases
  BY <1>1, RowTypes
<1>3. txn[w] \in Transactions
  BY DEF TypeOK
<1>4. case_record' \in [Cases -> CaseRows]
  BY <1>2, <1>3 DEF TypeOK, Commit, Transactions
<1>5. /\ event' \subseteq EventRows
      /\ state_transition' \subseteq TransitionRows
      /\ outbox' \subseteq OutboxRows
  BY <1>3 DEF TypeOK, Commit, Transactions
<1>6. active_experiment_slot' \in Cases \cup {NoCase}
  BY DEF TypeOK, Commit
<1>7. txn' \in [Workers -> Transactions]
  BY NoTxnType DEF TypeOK, Commit
<1>8. lock' \in [Cases -> Workers \cup {NoOne}]
  BY ReleasedType DEF Commit
<1>9. pc' \in [Workers -> Steps] /\ reply' \in [Workers -> Replies]
  BY DEF TypeOK, Commit, Continue, Steps, Replies
<1> QED
  BY <1>4, <1>5, <1>6, <1>7, <1>8, <1>9 DEF TypeOK, Commit

LEMMA HeldRowType ==
  ASSUME NEW r \in CaseRows
  PROVE  HeldRow(r) \in CaseRows
<1>1. r.version \in Nat /\ r.version + 1 \in Nat
  BY DEF CaseRows
<1>2. ASSUME NEW n \in Nat PROVE [r EXCEPT !.hold = TRUE, !.version = n] \in CaseRows
  BY DEF CaseRows
<1>3. HeldRow(r) = [r EXCEPT !.hold = TRUE,
                             !.version = IF IsTerminal(r) THEN r.version ELSE r.version + 1]
  BY DEF HeldRow
<1> QED
  BY <1>1, <1>2, <1>3

LEMMA OthersType ==
  ASSUME TypeOK, (\E c \in Cases : EnterHold(c) \/ ClaimSlot(c)) \/ Tick
  PROVE  TypeOK'
<1>1. CASE Tick
  BY <1>1, BoundAssumption DEF TypeOK, Tick, tables, workerState
<1>2. ASSUME NEW c \in Cases, EnterHold(c) PROVE TypeOK'
  <2> DEFINE new == HeldRow(case_record[c])
  <2>1. new \in CaseRows
    BY HeldRowType DEF TypeOK
  <2>2. case_record' = [case_record EXCEPT ![c] = new]
    BY <1>2 DEF EnterHold
  <2>3. case_record' \in [Cases -> CaseRows]
    BY <2>1, <2>2 DEF TypeOK
  <2> QED
    BY <1>2, <2>3 DEF TypeOK, EnterHold, workerState
<1>3. ASSUME NEW c \in Cases, ClaimSlot(c) PROVE TypeOK'
  BY <1>3 DEF TypeOK, ClaimSlot, workerState
<1> QED
  BY <1>1, <1>2, <1>3

-----------------------------------------------------------------------------
(***************************************************************************)
(* The steps, sorted by what they change.                                  *)
(***************************************************************************)

\* Every way a transaction ends without effect.
Aborts(w) ==
    pc[w] # "idle" /\ \E r \in Refusals \cup {"lost"} :
        /\ Rollback(w, r)
        /\ r = "version conflict" =>
              pc[w] = "check" /\ txn[w].facts.version # cmd[w].expected

Starts(w) == RefuseUnknownState(w) \/ BeginTransaction(w)

\* A statement with the row locked that changes the transaction only.
Writes(w) ==
    \/ PassGuards(w)
    \/ AppendEvent(w)
    \/ AppendTransition(w)
    \/ UpdateProjection(w)
    \/ AppendOutbox(w)

LEMMA AbortSteps ==
  ASSUME NEW w \in Workers,
         \/ CaseMissing(w) \/ CheckFacts(w) \/ RejectByGuard(w)
         \/ RefuseTransition(w) \/ RefuseUpdate(w) \/ RefuseNotice(w)
         \/ AbortDeadlocked(w) \/ Crash(w)
  PROVE  Aborts(w)
<1>0. pc[w] # "idle"
  BY DEF CaseMissing, CheckFacts, RejectByGuard, RefuseTransition, RefuseUpdate,
     RefuseNotice, AbortDeadlocked, Deadlocked, WaitsFor, Sending, Crash
<1>1. CASE CheckFacts(w)
  <2> DEFINE r == Admission(cmd[w].expected, txn[w].facts)
  <2>1. Rollback(w, r) /\ pc[w] = "check" /\ r # "admitted"
    BY <1>1 DEF CheckFacts
  <2>2. r \in Refusals /\ (r = "version conflict" => txn[w].facts.version # cmd[w].expected)
    BY <2>1 DEF Admission, Refusals
  <2> QED
    BY <1>0, <2>1, <2>2 DEF Aborts
<1>2. CASE RejectByGuard(w)
  BY <1>0, <1>2 DEF RejectByGuard, Aborts, Refusals
<1>3. ASSUME NEW r \in {"missing", "error", "denied", "duplicate notice", "deadlock", "lost"},
             Rollback(w, r)
      PROVE  Aborts(w)
  BY <1>0, <1>3 DEF Aborts, Refusals
<1>4. CASE RefuseUpdate(w)
  <2>1. Rollback(w, "denied") \/ Rollback(w, "error")
    BY <1>4 DEF RefuseUpdate
  <2> QED
    BY <1>3, <2>1
<1>5. CASE CaseMissing(w) \/ RefuseTransition(w) \/ RefuseNotice(w)
             \/ AbortDeadlocked(w) \/ Crash(w)
  <2>1. \/ Rollback(w, "missing") \/ Rollback(w, "error") \/ Rollback(w, "duplicate notice")
        \/ Rollback(w, "deadlock") \/ Rollback(w, "lost")
    BY <1>5 DEF CaseMissing, RefuseTransition, RefuseNotice, AbortDeadlocked, Crash
  <2> QED
    BY <1>3, <2>1
<1> QED
  BY <1>1, <1>2, <1>4, <1>5

LEMMA StepCases ==
  ASSUME [Next]_vars
  PROVE  \/ \E w \in Workers : \/ Starts(w)
                              \/ LoadCaseFacts(w)
                              \/ Writes(w)
                              \/ Commit(w)
                              \/ Aborts(w)
         \/ \E c \in Cases : EnterHold(c) \/ ClaimSlot(c)
         \/ Tick
         \/ UNCHANGED vars
<1>1. CASE \E w \in Workers : WorkerNext(w)
  <2>1. PICK w \in Workers : WorkerNext(w)
    BY <1>1
  <2>2. \/ Starts(w) \/ LoadCaseFacts(w) \/ Writes(w) \/ Commit(w)
        \/ CaseMissing(w) \/ CheckFacts(w) \/ RejectByGuard(w)
        \/ RefuseTransition(w) \/ RefuseUpdate(w) \/ RefuseNotice(w)
        \/ AbortDeadlocked(w) \/ Crash(w)
    BY <2>1 DEF WorkerNext, Proceed, Starts, Writes
  <2> QED
    BY <2>2, AbortSteps
<1>2. CASE ~\E w \in Workers : WorkerNext(w)
  BY <1>2 DEF Next, Finished
<1> QED
  BY <1>1, <1>2

LEMMA TypeStep ==
  ASSUME TypeOK, WorkersInv, [Next]_vars
  PROVE  TypeOK'
<1>1. CASE UNCHANGED vars
  BY <1>1 DEF TypeOK, vars, tables
<1>2. ASSUME NEW w \in Workers, Aborts(w) PROVE TypeOK'
  BY <1>2, RollbackType DEF Aborts
<1> QED
  BY <1>1, <1>2, StepCases, BeginType, LoadType, AppendType, CommitType, OthersType
     DEF Starts, Writes

LEMMA ProjectedFields ==
  ASSUME NEW row \in CaseRows, NEW to, NEW version, NEW now
  PROVE  LET new == Projected(row, to, version, now) IN
         /\ new.state = to
         /\ new.status = IF to \in STATUS_STATES THEN to ELSE NULL
         /\ new.version = version
         /\ new.lockedAt = IF to \in TERMINAL_STATES THEN now ELSE row.lockedAt
         /\ new.hold = row.hold
BY DEF Projected, CaseRows

\* What Commit installs, in terms of the row as it was: the whole protocol in
\* one step.
LEMMA CommitEffect ==
  ASSUME TypeOK, WorkersInv, NEW w \in Workers, Commit(w)
  PROVE  LET c == cmd[w].case
             row == case_record[c]
         IN /\ c \in Cases
            /\ row \in CaseRows
            /\ lock[c] = w
            /\ ~Frozen(row)
            /\ row.version = cmd[w].expected
            /\ txn[w].began \in 1 .. clock
            /\ case_record' = [case_record EXCEPT
                   ![c] = Projected(row, cmd[w].to, row.version + 1, txn[w].began)]
            /\ TransitionRow(w) = [case |-> c, event |-> Id(w),
                                   from |-> row.state, to |-> cmd[w].to,
                                   before |-> row.version, after |-> row.version + 1]
            /\ state_transition' = state_transition \cup {TransitionRow(w)}
            /\ active_experiment_slot' =
                  IF cmd[w].to \in TERMINAL_STATES /\ active_experiment_slot = c
                  THEN NoCase ELSE active_experiment_slot
<1> DEFINE c == cmd[w].case
           row == case_record[c]
<1>1. pc[w] = "append_outbox" /\ pc[w] \in Locked /\ pc[w] \in Admitted /\ pc[w] \in Moved
  BY DEF Commit, Continue, Locked, Admitted, Moved, Steps
<1>2. c \in Cases /\ lock[c] = w /\ txn[w].facts = row
  BY <1>1 DEF WorkersInv, CurrentFacts
<1>3. row \in CaseRows
  BY <1>2 DEF TypeOK
<1>4. ~Frozen(row) /\ row.version = cmd[w].expected
  BY <1>1, <1>2 DEF WorkersInv, AdmittedFacts
<1>5. /\ txn[w].began \in 1 .. clock
      /\ txn[w].transitions = {TransitionRow(w)}
      /\ txn[w].row = UpdatedRow(w)
      /\ txn[w].released = SlotRowsDeleted(w)
  BY <1>1 DEF WorkersInv, PrivateWrites
<1>6. TransitionRow(w) = [case |-> c, event |-> Id(w),
                          from |-> row.state, to |-> cmd[w].to,
                          before |-> row.version, after |-> row.version + 1]
  BY <1>2 DEF TransitionRow
<1>7. UpdatedRow(w) = Projected(row, cmd[w].to, row.version + 1, txn[w].began)
  BY <1>6 DEF UpdatedRow, Now
<1>8. case_record' = [case_record EXCEPT ![c] = UpdatedRow(w)]
  BY <1>5 DEF Commit
<1>9. state_transition' = state_transition \cup {TransitionRow(w)}
  BY <1>5 DEF Commit
<1>10. active_experiment_slot' =
         IF cmd[w].to \in TERMINAL_STATES /\ active_experiment_slot = c
         THEN NoCase ELSE active_experiment_slot
  BY <1>5 DEF Commit, SlotRowsDeleted
<1> QED
  BY <1>2, <1>3, <1>4, <1>5, <1>6, <1>7, <1>8, <1>9, <1>10

-----------------------------------------------------------------------------
(***************************************************************************)
(* The workers' part of the invariant: the steps of the others, then one's *)
(* own.                                                                    *)
(***************************************************************************)

Keeps(v) ==
    /\ pc'[v] = pc[v] /\ cmd'[v] = cmd[v] /\ txn'[v] = txn[v]
    /\ attempts'[v] = attempts[v] /\ reply'[v] = reply[v]
    /\ pc[v] \in Locked =>
          /\ lock'[cmd[v].case] = v
          /\ case_record'[cmd[v].case] = case_record[cmd[v].case]

VersionsGrow == \A c \in Cases : case_record'[c].version >= case_record[c].version

WorkerInv(v) ==
    CurrentFacts(v) /\ AdmittedFacts(v) /\ PrivateWrites(v) /\ HonestVersions(v)

LEMMA KeepsWorkerInv ==
  ASSUME TypeOK, TypeOK', NEW v \in Workers, WorkerInv(v), Keeps(v),
         VersionsGrow, clock' >= clock
  PROVE  WorkerInv(v)'
<1>1. CurrentFacts(v)'
  BY DEF WorkerInv, Keeps, CurrentFacts
<1>2. AdmittedFacts(v)'
  BY DEF WorkerInv, Keeps, AdmittedFacts
<1>3. pc[v] \in Moved => pc[v] \in Locked
  BY DEF Moved, Locked, Steps
<1>4. TransitionRow(v)' = TransitionRow(v) /\ SlotRowsDeleted(v)' = SlotRowsDeleted(v)
  BY DEF Keeps, TransitionRow, SlotRowsDeleted, Id
<1>5. pc[v] = "append_outbox" => UpdatedRow(v)' = UpdatedRow(v)
  BY <1>3, <1>4 DEF Keeps, UpdatedRow, Now, Moved
<1>6. PrivateWrites(v)'
  <2>1. pc'[v] # "idle" => txn'[v].began \in 1 .. clock'
    BY DEF WorkerInv, Keeps, PrivateWrites, TypeOK
  <2> QED
    BY <1>4, <1>5, <2>1 DEF WorkerInv, Keeps, PrivateWrites
<1>7. HonestVersions(v)'
  <2>1. cmd[v].expected \in Nat
    BY DEF TypeOK, Commands
  <2>2. \A c \in Cases : case_record[c].version \in Nat /\ case_record'[c].version \in Nat
    BY DEF TypeOK, CaseRows
  <2>3. cmd'[v] = cmd[v] /\ reply'[v] = reply[v] /\ HonestVersions(v)
    BY DEF WorkerInv, Keeps
  <2>4. CASE cmd[v].case \notin Cases
    BY <2>3, <2>4 DEF HonestVersions
  <2>5. CASE cmd[v].case \in Cases
    <3> DEFINE n == case_record[cmd[v].case].version
               m == case_record'[cmd[v].case].version
    <3>1. n \in Nat /\ m \in Nat /\ m >= n
      BY <2>2, <2>5 DEF VersionsGrow
    <3>2. /\ cmd[v].expected <= n
          /\ reply[v] = "version conflict" => cmd[v].expected < n
      BY <2>3, <2>5 DEF HonestVersions
    <3> HIDE DEF n, m
    <3>3. n \in Nat /\ m \in Nat /\ m >= n /\ cmd[v].expected <= n
      BY <3>1, <3>2
    <3>4. cmd[v].expected <= m
      BY <2>1, <3>3
    <3>5. ASSUME cmd[v].expected < n PROVE cmd[v].expected < m
      BY <2>1, <3>3, <3>5
    <3> USE DEF n, m
    <3> QED
      BY <2>3, <2>5, <3>2, <3>4, <3>5 DEF HonestVersions
  <2> QED
    BY <2>4, <2>5
<1> QED
  BY <1>1, <1>2, <1>6, <1>7 DEF WorkerInv

LEMMA VersionStep ==
  ASSUME TypeOK, WorkersInv, [Next]_vars
  PROVE  VersionsGrow /\ clock' >= clock
<1>1. \A c \in Cases : case_record[c].version \in Nat
  BY DEF TypeOK, CaseRows
<1>2. clock \in Nat
  BY BoundAssumption DEF TypeOK
<1>3. CASE case_record' = case_record /\ clock' = clock
  BY <1>1, <1>2, <1>3 DEF VersionsGrow
<1>4. ASSUME NEW w \in Workers, Commit(w) PROVE VersionsGrow /\ clock' >= clock
  <2>1. clock' = clock
    BY <1>4 DEF Commit
  <2>2. case_record'[cmd[w].case].version = case_record[cmd[w].case].version + 1
    BY <1>4, CommitEffect, ProjectedFields DEF TypeOK
  <2>3. \A c \in Cases : c # cmd[w].case => case_record'[c] = case_record[c]
    BY <1>4, CommitEffect DEF TypeOK
  <2> QED
    BY <1>1, <1>2, <2>1, <2>2, <2>3 DEF VersionsGrow
<1>5. ASSUME NEW c \in Cases, EnterHold(c) PROVE VersionsGrow /\ clock' >= clock
  <2>1. clock' = clock
    BY <1>5 DEF EnterHold
  <2>2. case_record'[c] = HeldRow(case_record[c])
    BY <1>5 DEF EnterHold, TypeOK
  <2>3. HeldRow(case_record[c]).version >= case_record[c].version
    BY <1>1 DEF HeldRow, TypeOK, CaseRows
  <2>4. \A d \in Cases : d # c => case_record'[d] = case_record[d]
    BY <1>5 DEF EnterHold, TypeOK
  <2> QED
    BY <1>1, <1>2, <2>1, <2>2, <2>3, <2>4 DEF VersionsGrow
<1>6. CASE Tick
  BY <1>1, <1>2, <1>6 DEF Tick, tables, VersionsGrow
<1>7. ASSUME NEW w \in Workers,
             Starts(w) \/ LoadCaseFacts(w) \/ Writes(w) \/ Aborts(w)
      PROVE  case_record' = case_record /\ clock' = clock
  BY <1>7 DEF Starts, RefuseUnknownState, BeginTransaction, LoadCaseFacts, Writes,
     PassGuards, AppendEvent, AppendTransition, UpdateProjection, AppendOutbox,
     Aborts, Rollback, tables
<1>8. ASSUME NEW c \in Cases, ClaimSlot(c) PROVE case_record' = case_record /\ clock' = clock
  BY <1>8 DEF ClaimSlot
<1>9. CASE UNCHANGED vars
  BY <1>3, <1>9 DEF vars, tables
<1> QED
  BY StepCases, <1>3, <1>4, <1>5, <1>6, <1>7, <1>8, <1>9

LEMMA Bystanders ==
  ASSUME TypeOK, WorkersInv, NEW v \in Workers, [Next]_vars,
         \/ \E w \in Workers \ {v} : \/ Starts(w) \/ LoadCaseFacts(w) \/ Writes(w)
                                     \/ Commit(w) \/ Aborts(w)
         \/ \E c \in Cases : EnterHold(c) \/ ClaimSlot(c)
         \/ Tick
         \/ UNCHANGED vars
  PROVE  Keeps(v)
<1>1. pc[v] \in Locked => cmd[v].case \in Cases /\ lock[cmd[v].case] = v
  BY DEF WorkersInv, CurrentFacts
<1>2. ASSUME NEW w \in Workers \ {v}, Starts(w) PROVE Keeps(v)
  BY <1>1, <1>2 DEF TypeOK, Keeps, Starts, RefuseUnknownState, BeginTransaction,
     Continue, tables
<1>3. ASSUME NEW w \in Workers \ {v}, LoadCaseFacts(w) PROVE Keeps(v)
  BY <1>1, <1>3, WorkerAssumption DEF TypeOK, Keeps, LoadCaseFacts, Continue, tables
<1>4. ASSUME NEW w \in Workers \ {v}, Writes(w) PROVE Keeps(v)
  BY <1>1, <1>4 DEF TypeOK, Keeps, Writes, PassGuards, AppendEvent, AppendTransition,
     UpdateProjection, AppendOutbox, Continue, tables
<1>5. ASSUME NEW w \in Workers \ {v}, Commit(w) PROVE Keeps(v)
  <2>1. /\ pc'[v] = pc[v] /\ cmd'[v] = cmd[v] /\ txn'[v] = txn[v]
        /\ attempts'[v] = attempts[v] /\ reply'[v] = reply[v]
    BY <1>5 DEF TypeOK, Commit, Continue
  <2>2. ASSUME pc[v] \in Locked
        PROVE  /\ lock'[cmd[v].case] = v
               /\ case_record'[cmd[v].case] = case_record[cmd[v].case]
    <3>1. lock[cmd[w].case] = w /\ cmd[v].case # cmd[w].case
      BY <1>1, <1>5, <2>2, CommitEffect
    <3>2. case_record'[cmd[v].case] = case_record[cmd[v].case]
      BY <1>1, <1>5, <2>2, <3>1 DEF Commit, TypeOK
    <3>3. lock'[cmd[v].case] = v
      BY <1>1, <1>5, <2>2 DEF Commit, Released
    <3> QED
      BY <3>2, <3>3
  <2> QED
    BY <2>1, <2>2 DEF Keeps
<1>6. ASSUME NEW w \in Workers \ {v}, Aborts(w) PROVE Keeps(v)
  BY <1>1, <1>6 DEF TypeOK, Keeps, Aborts, Rollback, Released, tables
<1>7. ASSUME NEW c \in Cases, EnterHold(c) PROVE Keeps(v)
  <2>1. pc[v] \in Locked => cmd[v].case # c
    BY <1>1, <1>7, WorkerAssumption DEF EnterHold
  <2> QED
    BY <1>1, <1>7, <2>1 DEF TypeOK, Keeps, EnterHold, workerState
<1>8. ASSUME NEW c \in Cases, ClaimSlot(c) PROVE Keeps(v)
  BY <1>1, <1>8 DEF Keeps, ClaimSlot, workerState
<1>9. CASE Tick
  BY <1>1, <1>9 DEF Keeps, Tick, tables, workerState
<1>10. CASE UNCHANGED vars
  BY <1>1, <1>10 DEF Keeps, vars, tables
<1> QED
  BY <1>2, <1>3, <1>4, <1>5, <1>6, <1>7, <1>8, <1>9, <1>10

LEMMA StartKeeps ==
  ASSUME TypeOK, WorkersInv, NEW w \in Workers, Starts(w)
  PROVE  WorkerInv(w)'
<1>1. clock \in Nat /\ clock >= 1
  BY BoundAssumption DEF TypeOK
<1>2. HonestVersions(w)'
  <2>1. CASE RefuseUnknownState(w)
    <3>1. cmd'[w] = NoCmd
      BY <2>1 DEF RefuseUnknownState, TypeOK
    <3>2. NoCmd.case = NoCase
      BY DEF NoCmd
    <3>3. cmd'[w].case \notin Cases
      BY <3>1, <3>2, CaseAssumption
    <3>4. reply'[w] # "version conflict"
      BY <2>1 DEF RefuseUnknownState, TypeOK
    <3> QED
      BY <3>3, <3>4 DEF HonestVersions
  <2>2. CASE BeginTransaction(w)
    <3>1. PICK c \in Cases \cup {NoCase}, to \in KnownTargets, batch \in Batches :
            \E expected \in VersionsRead(c) :
              cmd' = [cmd EXCEPT ![w] = [case |-> c, expected |-> expected,
                                         to |-> to, notices |-> batch]]
      BY <2>2 DEF BeginTransaction
    <3>2. PICK expected \in VersionsRead(c) :
              cmd'[w] = [case |-> c, expected |-> expected, to |-> to, notices |-> batch]
      BY <3>1 DEF TypeOK
    <3>3. reply'[w] = "none" /\ case_record' = case_record
      BY <2>2 DEF BeginTransaction, TypeOK, tables
    <3>4. ASSUME c \in Cases PROVE expected <= case_record[c].version
      BY <3>4, <3>2 DEF VersionsRead, TypeOK, CaseRows
    <3>5. cmd'[w].case = c /\ cmd'[w].expected = expected
      BY <3>2
    <3> QED
      BY <3>3, <3>4, <3>5 DEF HonestVersions
  <2> QED
    BY <2>1, <2>2 DEF Starts
<1>3. CASE RefuseUnknownState(w)
  <2>1. pc'[w] = "idle" /\ txn'[w] = txn[w] /\ clock' = clock
    BY <1>3 DEF RefuseUnknownState, MayStart, TypeOK
  <2>2. txn[w].events = {} /\ txn[w].outbox = {}
    BY <1>3 DEF RefuseUnknownState, MayStart, WorkersInv, PrivateWrites
  <2> QED
    BY <1>2, <2>1, <2>2 DEF WorkerInv, CurrentFacts, AdmittedFacts, PrivateWrites,
       Locked, Admitted, Moved, Steps
<1>4. CASE BeginTransaction(w)
  <2>1. pc[w] = "idle" /\ pc'[w] = "load" /\ clock' = clock
    BY <1>4 DEF BeginTransaction, Continue, TypeOK
  <2>2. /\ txn'[w].began = clock
        /\ txn'[w].events = txn[w].events
        /\ txn'[w].outbox = txn[w].outbox
    BY <1>4 DEF BeginTransaction, TypeOK, Transactions
  <2>3. txn[w].events = {} /\ txn[w].outbox = {}
    BY <2>1 DEF WorkersInv, PrivateWrites
  <2> QED
    BY <1>1, <1>2, <2>1, <2>2, <2>3 DEF WorkerInv, CurrentFacts, AdmittedFacts,
       PrivateWrites, Locked, Admitted, Moved, Steps
<1> QED
  BY <1>3, <1>4 DEF Starts

LEMMA LoadKeeps ==
  ASSUME TypeOK, WorkersInv, NEW w \in Workers, LoadCaseFacts(w)
  PROVE  WorkerInv(w)'
<1>1. /\ pc[w] = "load" /\ pc'[w] = "check"
      /\ cmd' = cmd /\ reply' = reply /\ clock' = clock /\ case_record' = case_record
      /\ cmd[w].case \in Cases
      /\ lock'[cmd[w].case] = w
  BY DEF LoadCaseFacts, Continue, TypeOK, tables
<1>2. /\ txn'[w].facts = case_record[cmd[w].case]
      /\ txn'[w].began = txn[w].began
      /\ txn'[w].events = txn[w].events
      /\ txn'[w].outbox = txn[w].outbox
  BY DEF LoadCaseFacts, TypeOK, Transactions
<1>3. PrivateWrites(w) /\ HonestVersions(w)
  BY DEF WorkersInv
<1>4. CurrentFacts(w)' /\ AdmittedFacts(w)'
  BY <1>1, <1>2 DEF CurrentFacts, AdmittedFacts, Admitted, Locked
<1>5. PrivateWrites(w)'
  BY <1>1, <1>2, <1>3 DEF PrivateWrites, Moved
<1>6. HonestVersions(w)'
  BY <1>1, <1>3 DEF HonestVersions
<1> QED
  BY <1>4, <1>5, <1>6 DEF WorkerInv

LEMMA AbortKeeps ==
  ASSUME TypeOK, WorkersInv, NEW w \in Workers, Aborts(w)
  PROVE  WorkerInv(w)'
<1>1. PICK r \in Refusals \cup {"lost"} :
        /\ Rollback(w, r)
        /\ r = "version conflict" =>
              pc[w] = "check" /\ txn[w].facts.version # cmd[w].expected
  BY DEF Aborts
<1>2. /\ pc'[w] = "idle" /\ txn'[w] = NoTxn /\ reply'[w] = r
      /\ cmd' = cmd /\ case_record' = case_record
  BY <1>1 DEF Rollback, TypeOK, tables
<1>3. CurrentFacts(w)' /\ AdmittedFacts(w)' /\ PrivateWrites(w)'
  BY <1>2 DEF CurrentFacts, AdmittedFacts, PrivateWrites, Locked, Admitted, Moved, NoTxn
<1>4. HonestVersions(w)
  BY DEF WorkersInv
<1>5. CASE r # "version conflict"
  <2>1. HonestVersions(w)'
    BY <1>2, <1>4, <1>5 DEF HonestVersions
  <2> QED
    BY <1>3, <2>1 DEF WorkerInv
<1>6. CASE r = "version conflict"
  <2> DEFINE n == case_record[cmd[w].case].version
  <2>1. cmd[w].case \in Cases /\ n # cmd[w].expected
    BY <1>1, <1>6 DEF WorkersInv, CurrentFacts, Locked, Steps
  <2>2. n \in Nat /\ cmd[w].expected \in Nat
    BY <2>1 DEF TypeOK, CaseRows, Commands
  <2>3. cmd[w].expected <= n
    BY <1>4, <2>1 DEF HonestVersions
  <2> HIDE DEF n
  <2>4. cmd[w].expected < n
    BY <2>1, <2>2, <2>3
  <2> USE DEF n
  <2>5. HonestVersions(w)'
    BY <1>2, <2>1, <2>3, <2>4 DEF HonestVersions
  <2> QED
    BY <1>3, <2>5 DEF WorkerInv
<1> QED
  BY <1>5, <1>6

LEMMA CommitKeeps ==
  ASSUME TypeOK, TypeOK', WorkersInv, NEW w \in Workers, Commit(w), VersionsGrow
  PROVE  WorkerInv(w)'
<1>1. /\ pc'[w] = "idle" /\ txn'[w] = NoTxn /\ reply'[w] \in {"committed", "lost"}
      /\ cmd' = cmd
  BY DEF Commit, Continue, TypeOK
<1>2. CurrentFacts(w)' /\ AdmittedFacts(w)' /\ PrivateWrites(w)'
  BY <1>1 DEF CurrentFacts, AdmittedFacts, PrivateWrites, Locked, Admitted, Moved, NoTxn
<1>3. cmd[w].case \in Cases /\ case_record[cmd[w].case].version = cmd[w].expected
  BY CommitEffect
<1>4. cmd[w].expected <= case_record'[cmd[w].case].version
  BY <1>3 DEF VersionsGrow, TypeOK, CaseRows
<1>5. HonestVersions(w)'
  BY <1>1, <1>4 DEF HonestVersions
<1> QED
  BY <1>2, <1>5 DEF WorkerInv

LEMMA WritesKeeps ==
  ASSUME TypeOK, WorkersInv, NEW w \in Workers, Writes(w)
  PROVE  WorkerInv(w)'
<1>1. /\ pc[w] \in Locked /\ pc'[w] \in Admitted
      /\ cmd' = cmd /\ reply' = reply /\ clock' = clock /\ lock' = lock
      /\ case_record' = case_record /\ attempts' = attempts
  BY DEF Writes, PassGuards, AppendEvent, AppendTransition, UpdateProjection,
     AppendOutbox,
     Sending, Continue, Locked, Admitted, Steps, TypeOK, tables
<1>2. txn'[w].facts = txn[w].facts /\ txn'[w].began = txn[w].began
  BY DEF Writes, PassGuards, AppendEvent, AppendTransition, UpdateProjection,
     AppendOutbox,
     TypeOK, Transactions
<1>3. CurrentFacts(w) /\ AdmittedFacts(w) /\ PrivateWrites(w) /\ HonestVersions(w)
  BY DEF WorkersInv
<1>4. CurrentFacts(w)'
  BY <1>1, <1>2, <1>3 DEF CurrentFacts
<1>5. AdmittedFacts(w)'
  <2>1. CASE PassGuards(w)
    <3>1. Admission(cmd[w].expected, txn[w].facts) = "admitted"
      BY <2>1 DEF PassGuards
    <3>2. txn[w].facts.version = cmd[w].expected /\ ~Frozen(txn[w].facts)
      BY <3>1 DEF Admission, Frozen
    <3> QED
      BY <1>1, <1>2, <3>2 DEF AdmittedFacts
  <2>2. CASE ~PassGuards(w)
    <3>1. pc[w] \in Admitted
      BY <2>2 DEF Writes, AppendEvent, AppendTransition, UpdateProjection, AppendOutbox,
         Sending, Continue, Locked, Admitted, Steps
    <3> QED
      BY <1>1, <1>2, <1>3, <3>1 DEF AdmittedFacts
  <2> QED
    BY <2>1, <2>2
<1>6. HonestVersions(w)'
  BY <1>1, <1>3 DEF HonestVersions
<1>7. /\ TransitionRow(w)' = TransitionRow(w)
      /\ SlotRowsDeleted(w)' = SlotRowsDeleted(w)
      /\ UpdatedRow(w)' = UpdatedRow(w)
  BY <1>1, <1>2 DEF TransitionRow, SlotRowsDeleted, UpdatedRow, Id, Now
<1>8. pc[w] # "idle" /\ pc'[w] # "idle" /\ txn'[w].began \in 1 .. clock'
  BY <1>1, <1>2, <1>3 DEF PrivateWrites, Locked, Admitted, Steps
<1>9. CASE PassGuards(w)
  <2>1. txn' = txn /\ pc'[w] = "append_event"
    BY <1>9 DEF PassGuards, Continue, TypeOK
  <2>2. PrivateWrites(w)'
    BY <1>1, <1>3, <1>8, <2>1 DEF PrivateWrites, Moved
  <2> QED
    BY <1>4, <1>5, <1>6, <2>2 DEF WorkerInv
<1>10. CASE AppendEvent(w)
  <2>1. pc'[w] = "append_transition"
    BY <1>10 DEF AppendEvent, Continue, TypeOK
  <2>2. /\ txn'[w].events = {[id |-> Id(w), case |-> cmd[w].case, at |-> Now(w)]}
        /\ txn'[w].outbox = txn[w].outbox
    BY <1>10 DEF AppendEvent, TypeOK, Transactions
  <2>3. PrivateWrites(w)'
    BY <1>1, <1>3, <1>8, <2>1, <2>2 DEF PrivateWrites, Moved
  <2> QED
    BY <1>4, <1>5, <1>6, <2>3 DEF WorkerInv
<1>11. CASE AppendTransition(w)
  <2>1. pc'[w] = "update_projection"
    BY <1>11 DEF AppendTransition, Continue, TypeOK
  <2>2. /\ txn'[w].transitions = {TransitionRow(w)}
        /\ txn'[w].events = txn[w].events
        /\ txn'[w].outbox = txn[w].outbox
    BY <1>11 DEF AppendTransition, TypeOK, Transactions
  <2>3. PrivateWrites(w)'
    BY <1>1, <1>3, <1>7, <1>8, <2>1, <2>2 DEF PrivateWrites, Moved
  <2> QED
    BY <1>4, <1>5, <1>6, <2>3 DEF WorkerInv
<1>12. CASE UpdateProjection(w)
  <2>1. pc[w] = "update_projection" /\ pc'[w] = "append_outbox"
    BY <1>12 DEF UpdateProjection, Continue, TypeOK
  <2>2. /\ txn'[w].row = UpdatedRow(w)
        /\ txn'[w].released = SlotRowsDeleted(w)
        /\ txn'[w].transitions = txn[w].transitions
        /\ txn'[w].events = txn[w].events
        /\ txn'[w].outbox = txn[w].outbox
    BY <1>12 DEF UpdateProjection, TypeOK, Transactions
  <2>3. PrivateWrites(w)'
    BY <1>1, <1>3, <1>7, <1>8, <2>1, <2>2 DEF PrivateWrites, Moved
  <2> QED
    BY <1>4, <1>5, <1>6, <2>3 DEF WorkerInv
<1>13. CASE AppendOutbox(w)
  <2>1. pc[w] = "append_outbox" /\ pc'[w] = "append_outbox"
    BY <1>13 DEF AppendOutbox, Sending
  <2>2. /\ txn'[w].row = txn[w].row
        /\ txn'[w].released = txn[w].released
        /\ txn'[w].transitions = txn[w].transitions
        /\ txn'[w].events = txn[w].events
    BY <1>13 DEF AppendOutbox, TypeOK, Transactions
  <2>3. \A o \in txn'[w].outbox : o \in txn[w].outbox \/ o.case = cmd[w].case
    BY <1>13 DEF AppendOutbox, TypeOK, Transactions
  <2>4. PrivateWrites(w)'
    BY <1>1, <1>3, <1>7, <1>8, <2>1, <2>2, <2>3 DEF PrivateWrites, Moved
  <2> QED
    BY <1>4, <1>5, <1>6, <2>4 DEF WorkerInv
<1> QED
  BY <1>9, <1>10, <1>11, <1>12, <1>13 DEF Writes

LEMMA WorkersStep ==
  ASSUME TypeOK, WorkersInv, [Next]_vars
  PROVE  WorkersInv'
<1>1. TypeOK' /\ VersionsGrow /\ clock' >= clock
  BY TypeStep, VersionStep
<1>2. SUFFICES ASSUME NEW v \in Workers PROVE WorkerInv(v)'
  BY DEF WorkersInv, WorkerInv
<1>3. WorkerInv(v)
  BY DEF WorkersInv, WorkerInv
<1>4. CASE Starts(v) \/ LoadCaseFacts(v) \/ Writes(v) \/ Commit(v) \/ Aborts(v)
  BY <1>1, <1>4, StartKeeps, LoadKeeps, WritesKeeps, CommitKeeps, AbortKeeps
<1>5. CASE ~(Starts(v) \/ LoadCaseFacts(v) \/ Writes(v) \/ Commit(v) \/ Aborts(v))
  <2>1. \/ \E w \in Workers \ {v} : \/ Starts(w) \/ LoadCaseFacts(w) \/ Writes(w)
                                   \/ Commit(w) \/ Aborts(w)
        \/ \E c \in Cases : EnterHold(c) \/ ClaimSlot(c)
        \/ Tick
        \/ UNCHANGED vars
    BY <1>5, StepCases
  <2>2. Keeps(v)
    BY <2>1, Bystanders
  <2> QED
    BY <1>1, <1>3, <2>2, KeepsWorkerInv
<1> QED
  BY <1>4, <1>5

==============================================================================
