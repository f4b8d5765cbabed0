----------------------- MODULE CallerTransaction_proofs -----------------------
(***************************************************************************)
(* Proofs about CallerTransaction, for any number of cases, sessions,      *)
(* transactions and commands in a transaction.                             *)
(***************************************************************************)
EXTENDS CallerInvariants, FiniteSetTheorems, TLAPS

-----------------------------------------------------------------------------
(***************************************************************************)
(* The steps, sorted by what they change.                                  *)
(***************************************************************************)

\* A statement that changes neither a table nor what a transaction has written.
Prepares(s) ==
    \/ StartCommand(s)
    \/ StartReceipt(s)
    \/ LoadCaseFacts(s)
    \/ pc[s] \in {"lock", "write"} /\ RollbackToSavepoint(s)

LEMMA StepCases ==
  ASSUME [Next]_vars
  PROVE  \/ \E s \in Sessions :
               \/ OpenTransaction(s) \/ Prepares(s) \/ ApplyTransition(s)
               \/ StoreReceipt(s) \/ Commit(s) \/ Abandon(s)
         \/ Tick
         \/ UNCHANGED vars
<1>1. ASSUME NEW s \in Sessions, RejectByGuard(s) \/ RefuseTransition(s)
      PROVE  Prepares(s)
  BY <1>1 DEF RejectByGuard, RefuseTransition, Prepares
<1>2. ASSUME NEW s \in Sessions, AbortDeadlocked(s)
      PROVE  Prepares(s) \/ Abandon(s)
  <2>1. pc[s] \in {"lock", "write", "receipt"}
    BY <1>2 DEF AbortDeadlocked, Deadlocked, WaitsFor
  <2> QED
    BY <1>2, <2>1 DEF AbortDeadlocked, Prepares
<1>3. ASSUME NEW s \in Sessions, RefuseReceipt(s)
      PROVE  Abandon(s)
  BY <1>3 DEF RefuseReceipt
<1> QED
  BY <1>1, <1>2, <1>3 DEF Next, Proceed, Prepares

\* Nobody but s is touched.
OthersKeep(s) ==
    \A v \in Sessions \ {s} :
        pc'[v] = pc[v] /\ cmd'[v] = cmd[v] /\ txn'[v] = txn[v] /\ opened'[v] = opened[v]

LEMMA StepsAreLocal ==
  ASSUME TypeOK, NEW s \in Sessions,
         \/ OpenTransaction(s) \/ Prepares(s) \/ ApplyTransition(s)
         \/ StoreReceipt(s) \/ Commit(s) \/ Abandon(s)
  PROVE  OthersKeep(s)
<1> SUFFICES ASSUME NEW v \in Sessions \ {s}
             PROVE  pc'[v] = pc[v] /\ cmd'[v] = cmd[v] /\ txn'[v] = txn[v] /\ opened'[v] = opened[v]
  BY DEF OthersKeep
<1> USE DEF TypeOK
<1>1. CASE OpenTransaction(s)
  BY <1>1 DEF OpenTransaction, Continue
<1>2. CASE StartCommand(s)
  BY <1>2 DEF StartCommand, Continue
<1>3. CASE StartReceipt(s)
  BY <1>3 DEF StartReceipt, Continue
<1>4. CASE LoadCaseFacts(s)
  BY <1>4 DEF LoadCaseFacts, Continue
<1>5. CASE RollbackToSavepoint(s)
  BY <1>5 DEF RollbackToSavepoint
<1>6. CASE ApplyTransition(s)
  BY <1>6 DEF ApplyTransition, Continue
<1>7. CASE StoreReceipt(s)
  BY <1>7 DEF StoreReceipt, Continue
<1>8. CASE Commit(s) \/ Abandon(s)
  BY <1>8 DEF Commit, Abandon, End
<1> QED
  BY <1>1, <1>2, <1>3, <1>4, <1>5, <1>6, <1>7, <1>8 DEF Prepares

\* The writes of every transaction, and the tables, as they were.
SameWrites(t, u) ==
    /\ t.rows = u.rows /\ t.moves = u.moves /\ t.notices = u.notices
    /\ t.receipts = u.receipts /\ t.released = u.released /\ t.began = u.began

SameRows ==
    /\ UNCHANGED <<tables, opened, committed, told>>
    /\ \A v \in Sessions : /\ SameWrites(txn'[v], txn[v])
                           /\ pc'[v] = "idle" <=> pc[v] = "idle"

LEMMA PreparationsKeepRows ==
  ASSUME TypeOK, NEW s \in Sessions, Prepares(s)
  PROVE  SameRows
<1>1. UNCHANGED <<tables, opened, committed, told>>
  BY DEF Prepares, StartCommand, StartReceipt, LoadCaseFacts, RollbackToSavepoint
<1>2. SameWrites(txn'[s], txn[s])
  <2>1. CASE StartCommand(s)
    <3>1. txn' = [txn EXCEPT ![s].commands = @ + 1]
      BY <2>1 DEF StartCommand
    <3> QED
      BY <3>1 DEF TypeOK, Transactions, SameWrites
  <2>2. CASE txn' = txn
    BY <2>2 DEF SameWrites
  <2> QED
    BY <2>1, <2>2 DEF Prepares, StartReceipt, LoadCaseFacts, RollbackToSavepoint
<1>3. pc'[s] # "idle" /\ pc[s] # "idle"
  BY DEF Prepares, StartCommand, StartReceipt, LoadCaseFacts, RollbackToSavepoint,
     Continue, TypeOK
<1>4. OthersKeep(s)
  BY StepsAreLocal
<1> QED
  BY <1>1, <1>2, <1>3, <1>4 DEF SameRows, OthersKeep, SameWrites

LEMMA PausesKeepRows ==
  ASSUME Tick \/ UNCHANGED vars
  PROVE  SameRows
BY DEF Tick, vars, SameRows, SameWrites

\* The move and the notification rows an applied command writes.
Move(s) ==
    [tx |-> Tx(s), case |-> cmd[s].case, from |-> cmd[s].facts.state, to |-> cmd[s].to,
     before |-> cmd[s].facts.version, after |-> NewRow(s).version, at |-> txn[s].began]

Noticed(s) ==
    IF cmd[s].notice = NoNotice THEN {} ELSE {[tx |-> Tx(s), notice |-> cmd[s].notice]}

LEMMA ProjectedRow ==
  ASSUME NEW row \in CaseRows, NEW to \in STATES, NEW version \in Nat, NEW now \in Nat
  PROVE  LET new == Projected(row, to, version, now) IN
         /\ new \in CaseRows
         /\ new.state = to
         /\ new.version = version
         /\ new.lockedAt = IF to \in TERMINAL_STATES THEN now ELSE row.lockedAt
BY DEF Projected, CaseRows

\* What the locked row of an admitted command looks like, and what becomes of it.
LEMMA AppliedRow ==
  ASSUME TypeOK, LockInv, NEW s \in Sessions, ApplyTransition(s),
         NEW c, c = cmd[s].case
  PROVE  /\ c \in Cases /\ lock[c] = s /\ pc[s] = "write"
         /\ Seen(s, c) \in CaseRows
         /\ ~IsTerminal(Seen(s, c))
         /\ NewRow(s) \in CaseRows
         /\ NewRow(s).state = cmd[s].to
         /\ NewRow(s).version = Seen(s, c).version + 1
         /\ NewRow(s).lockedAt = IF cmd[s].to \in TERMINAL_STATES
                                 THEN txn[s].began ELSE Seen(s, c).lockedAt
         /\ txn[s].began \in Nat \ {NoTime}
         /\ Move(s) \in MoveRows
         /\ Move(s) = [tx |-> Tx(s), case |-> c, from |-> Seen(s, c).state, to |-> cmd[s].to,
                       before |-> Seen(s, c).version, after |-> Seen(s, c).version + 1,
                       at |-> txn[s].began]
<1>1. pc[s] = "write"
  BY DEF ApplyTransition, Continue
<1>2. c \in Cases /\ lock[c] = s /\ cmd[s].facts = Seen(s, c)
  BY <1>1 DEF LockInv, SessionInv
<1>3. Seen(s, c) \in CaseRows /\ cmd[s].to \in STATES /\ txn[s].began \in Nat
  BY <1>2 DEF TypeOK, Transactions, Commands, Seen
<1>4. txn[s].began # NoTime
  BY <1>1 DEF LockInv, SessionInv
<1>5. ~IsTerminal(Seen(s, c))
  BY <1>2 DEF ApplyTransition, Possible, Admitted, Admission
<1>6. NewRow(s) = Projected(Seen(s, c), cmd[s].to, Seen(s, c).version + 1, txn[s].began)
  BY <1>2 DEF NewRow
<1>7. Seen(s, c).version \in Nat /\ Seen(s, c).version + 1 \in Nat /\ Seen(s, c).state \in STATES
  BY <1>3 DEF CaseRows
<1>8. /\ NewRow(s) \in CaseRows
      /\ NewRow(s).state = cmd[s].to
      /\ NewRow(s).version = Seen(s, c).version + 1
      /\ NewRow(s).lockedAt = IF cmd[s].to \in TERMINAL_STATES
                              THEN txn[s].began ELSE Seen(s, c).lockedAt
  <2> DEFINE row == Seen(s, c)
             to == cmd[s].to
             version == Seen(s, c).version + 1
             now == txn[s].began
  <2>1. row \in CaseRows /\ to \in STATES /\ version \in Nat /\ now \in Nat
    BY <1>3, <1>7
  <2>2. NewRow(s) = Projected(row, to, version, now)
    BY <1>6
  <2> HIDE DEF row, to, version, now
  <2>3. /\ NewRow(s) \in CaseRows
        /\ NewRow(s).state = to
        /\ NewRow(s).version = version
        /\ NewRow(s).lockedAt = IF to \in TERMINAL_STATES THEN now ELSE row.lockedAt
    BY <2>1, <2>2, ProjectedRow
  <2> QED
    BY <2>3 DEF row, to, version, now
<1>9. Tx(s) \in TxIds
  BY DEF TypeOK, Tx, TxIds
<1>10. Move(s) = [tx |-> Tx(s), case |-> c, from |-> Seen(s, c).state, to |-> cmd[s].to,
                  before |-> Seen(s, c).version, after |-> Seen(s, c).version + 1,
                  at |-> txn[s].began]
  BY <1>2, <1>8 DEF Move
<1>11. Move(s) \in MoveRows
  BY <1>2, <1>3, <1>4, <1>7, <1>9, <1>10 DEF MoveRows
<1> QED
  BY <1>1, <1>2, <1>3, <1>4, <1>5, <1>8, <1>10, <1>11

LEMMA ApplyEffect ==
  ASSUME TypeOK, LockInv, NEW s \in Sessions, ApplyTransition(s),
         NEW c, c = cmd[s].case
  PROVE  /\ txn'[s].began = txn[s].began
         /\ txn'[s].rows = [txn[s].rows EXCEPT ![c] = NewRow(s)]
         /\ txn'[s].moves = txn[s].moves \cup {Move(s)}
         /\ txn'[s].notices = txn[s].notices \cup Noticed(s)
         /\ txn'[s].receipts = txn[s].receipts
         /\ txn'[s].released = IF IsTerminal(NewRow(s))
                               THEN txn[s].released \cup {c} ELSE txn[s].released
         /\ told' = told \cup {Move(s)}
         /\ pc'[s] = "open"
         /\ UNCHANGED <<tables, lock, clock, cmd, opened, committed>>
<1>1. txn' = [txn EXCEPT ![s].rows[c] = NewRow(s),
                         ![s].moves = @ \cup {Move(s)},
                         ![s].notices = @ \cup Noticed(s),
                         ![s].released = IF IsTerminal(NewRow(s)) THEN @ \cup {c} ELSE @]
  BY DEF ApplyTransition, Move, Noticed
<1>2. txn[s] \in Transactions
  BY DEF TypeOK
<1>3. txn'[s] = [txn[s] EXCEPT !.rows = [txn[s].rows EXCEPT ![c] = NewRow(s)],
                               !.moves = txn[s].moves \cup {Move(s)},
                               !.notices = txn[s].notices \cup Noticed(s),
                               !.released = IF IsTerminal(NewRow(s))
                                            THEN txn[s].released \cup {c} ELSE txn[s].released]
  BY <1>1, <1>2 DEF TypeOK, Transactions
<1>4. /\ told' = told \cup {Move(s)}
      /\ UNCHANGED <<tables, lock, clock, cmd, opened, committed>>
  BY DEF ApplyTransition, Move
<1>5. pc'[s] = "open"
  BY DEF ApplyTransition, Continue, TypeOK
<1> QED
  BY <1>2, <1>3, <1>4, <1>5 DEF Transactions

LEMMA EndEffect ==
  ASSUME TypeOK, NEW s \in Sessions, End(s)
  PROVE  /\ pc'[s] = "idle" /\ txn'[s] = NoTxn
         /\ lock' = Freed(s)
         /\ UNCHANGED <<clock, cmd, opened, told>>
BY DEF TypeOK, End

LEMMA StoreEffect ==
  ASSUME TypeOK, NEW s \in Sessions, StoreReceipt(s)
  PROVE  /\ txn'[s].began = txn[s].began
         /\ txn'[s].rows = txn[s].rows
         /\ txn'[s].moves = txn[s].moves
         /\ txn'[s].notices = txn[s].notices
         /\ txn'[s].released = txn[s].released
         /\ txn'[s].receipts = txn[s].receipts \cup {[tx |-> Tx(s), key |-> cmd[s].key]}
         /\ pc[s] = "receipt" /\ pc'[s] = "open"
         /\ UNCHANGED <<tables, lock, clock, cmd, opened, committed, told>>
         /\ \A q \in command_receipt \cup txn[s].receipts : q.key # cmd[s].key
         /\ \A v \in Sessions \ {s} : \A q \in txn[v].receipts : q.key # cmd[s].key
<1>1. /\ pc[s] = "receipt" /\ ~ReceiptTaken(s) /\ MayRun(s)
      /\ UNCHANGED <<tables, lock, clock, cmd, opened, committed, told>>
  BY DEF StoreReceipt, Continue
<1>2. pc'[s] = "open"
  BY DEF StoreReceipt, Continue, TypeOK
<1>3. txn'[s] = [txn[s] EXCEPT !.receipts =
                    txn[s].receipts \cup {[tx |-> Tx(s), key |-> cmd[s].key]}]
  BY DEF StoreReceipt, TypeOK
<1>4. \A q \in command_receipt \cup txn[s].receipts : q.key # cmd[s].key
  BY <1>1 DEF ReceiptTaken
<1>5. \A v \in Sessions \ {s} : \A q \in txn[v].receipts : q.key # cmd[s].key
  BY <1>1 DEF MayRun, WaitsFor, Stored
<1>6. txn[s] \in Transactions
  BY DEF TypeOK
<1> QED
  BY <1>1, <1>2, <1>3, <1>4, <1>5, <1>6 DEF Transactions

-----------------------------------------------------------------------------
(***************************************************************************)
(* Type correctness.                                                       *)
(***************************************************************************)

LEMMA EmptyTypes ==
  /\ NoRow \in CaseRows /\ NoRow.version = 0
  /\ NoCmd \in Commands /\ NoTxn \in Transactions
<1>1. NoRow \in CaseRows /\ NoRow.version = 0
  BY DEF NoRow, CaseRows, STATES, ACTIVE_STATES, NoTime
<1>2. NoCmd \in Commands
  BY <1>1 DEF NoCmd, Commands, STATES, ACTIVE_STATES
<1>3. NoTxn \in Transactions
  BY <1>1 DEF NoTxn, Transactions, NoTime
<1> QED
  BY <1>1, <1>2, <1>3

LEMMA TypeInit == Init => TypeOK
<1> SUFFICES ASSUME Init PROVE TypeOK
  OBVIOUS
<1>1. case_record \in [Cases -> CaseRows] /\ \A c \in Cases : case_record[c].version > 0
  BY SeedAssumption DEF Init
<1>2. cmd \in [Sessions -> Commands] /\ txn \in [Sessions -> Transactions]
  BY EmptyTypes DEF Init
<1> QED
  BY <1>1, <1>2 DEF Init, TypeOK, NoTime

LEMMA SeenType ==
  ASSUME TypeOK, NEW s \in Sessions, NEW c \in Cases
  PROVE  /\ Seen(s, c) \in CaseRows
         /\ Seen(s, c).version \in Nat
         /\ case_record[c].version \in Nat
         /\ Wrote(s, c) \/ Seen(s, c) = case_record[c]
BY DEF TypeOK, Transactions, Seen, CaseRows

LEMMA FreedType ==
  ASSUME TypeOK, NEW s \in Sessions
  PROVE  Freed(s) \in [Cases -> Sessions \cup {NoOne}]
BY DEF TypeOK, Freed

LEMMA PreparationType ==
  ASSUME TypeOK, LockInv, NEW s \in Sessions, OpenTransaction(s) \/ Prepares(s)
  PROVE  TypeOK'
<1>1. pc' \in [Sessions -> {"idle", "open", "lock", "write", "receipt"}]
  BY DEF TypeOK, OpenTransaction, Prepares, StartCommand, StartReceipt, LoadCaseFacts,
     RollbackToSavepoint, Continue
<1>2. CASE OpenTransaction(s)
  <2>1. [NoTxn EXCEPT !.began = clock] \in Transactions
    BY EmptyTypes DEF TypeOK, Transactions
  <2>2. txn' \in [Sessions -> Transactions] /\ opened' \in [Sessions -> Nat]
    BY <1>2, <2>1 DEF TypeOK, OpenTransaction
  <2> QED
    BY <1>1, <1>2, <2>2 DEF TypeOK, OpenTransaction, tables
<1>3. CASE StartCommand(s)
  <2>1. PICK c \in Cases, to \in Targets, n \in Notices \cup {NoNotice} :
          cmd' = [cmd EXCEPT ![s] = [NoCmd EXCEPT
                    !.case = c, !.expected = Seen(s, c).version, !.to = to, !.notice = n]]
    BY <1>3 DEF StartCommand
  <2>2. to \in STATES /\ Seen(s, c).version \in Nat
    BY SeenType, TargetAssumption
  <2>3. cmd' \in [Sessions -> Commands]
    BY <2>1, <2>2, EmptyTypes DEF TypeOK, Commands
  <2>4. txn' \in [Sessions -> Transactions]
    <3>1. txn[s] \in Transactions /\ txn[s].commands + 1 \in Nat
      BY DEF TypeOK, Transactions
    <3>2. [txn[s] EXCEPT !.commands = txn[s].commands + 1] \in Transactions
      BY <3>1 DEF Transactions
    <3>3. txn' = [txn EXCEPT ![s] = [txn[s] EXCEPT !.commands = txn[s].commands + 1]]
      BY <1>3 DEF StartCommand, TypeOK
    <3> QED
      BY <3>2, <3>3 DEF TypeOK
  <2> QED
    BY <1>1, <1>3, <2>3, <2>4 DEF TypeOK, StartCommand, tables
<1>4. CASE StartReceipt(s)
  <2>1. PICK k \in Keys : cmd' = [cmd EXCEPT ![s] = [NoCmd EXCEPT !.key = k]]
    BY <1>4 DEF StartReceipt
  <2>2. [NoCmd EXCEPT !.key = k] \in Commands
    BY EmptyTypes DEF Commands
  <2>3. cmd' \in [Sessions -> Commands]
    BY <2>1, <2>2 DEF TypeOK
  <2> QED
    BY <1>1, <1>4, <2>3 DEF TypeOK, StartReceipt, tables
<1>5. CASE LoadCaseFacts(s)
  <2>1. cmd[s].case \in Cases
    BY <1>5 DEF LoadCaseFacts, Continue, LockInv, SessionInv
  <2>2. cmd[s] \in Commands /\ Seen(s, cmd[s].case) \in CaseRows
    BY <2>1, SeenType DEF TypeOK
  <2>3. cmd' \in [Sessions -> Commands]
    BY <1>5, <2>2 DEF TypeOK, LoadCaseFacts, Commands
  <2>4. lock' \in [Cases -> Sessions \cup {NoOne}]
    BY <1>5 DEF TypeOK, LoadCaseFacts
  <2> QED
    BY <1>1, <1>5, <2>3, <2>4 DEF TypeOK, LoadCaseFacts, tables
<1>6. CASE pc[s] \in {"lock", "write"} /\ RollbackToSavepoint(s)
  <2>1. lock' \in [Cases -> Sessions \cup {NoOne}]
    BY <1>6 DEF TypeOK, RollbackToSavepoint, LocksAfter
  <2> QED
    BY <1>1, <1>6, <2>1 DEF TypeOK, RollbackToSavepoint, tables
<1> QED
  BY <1>2, <1>3, <1>4, <1>5, <1>6 DEF Prepares

LEMMA ApplyType ==
  ASSUME TypeOK, LockInv, NEW s \in Sessions, ApplyTransition(s)
  PROVE  TypeOK'
<1>0. PICK c : c = cmd[s].case
  OBVIOUS
<1>1. /\ c \in Cases /\ NewRow(s) \in CaseRows /\ Move(s) \in MoveRows
  BY <1>0, AppliedRow
<1>2. txn[s] \in Transactions /\ cmd[s] \in Commands
  BY DEF TypeOK
<1>3. Noticed(s) \subseteq NoticeRows
  BY <1>2 DEF Noticed, NoticeRows, Commands, TypeOK, Tx, TxIds
<1>4. txn' = [txn EXCEPT ![s] =
                [txn[s] EXCEPT !.rows = [txn[s].rows EXCEPT ![c] = NewRow(s)],
                               !.moves = txn[s].moves \cup {Move(s)},
                               !.notices = txn[s].notices \cup Noticed(s),
                               !.released = IF IsTerminal(NewRow(s))
                                            THEN txn[s].released \cup {c} ELSE txn[s].released]]
  BY <1>0, <1>2 DEF ApplyTransition, Move, Noticed, TypeOK, Transactions
<1>5. /\ [txn[s].rows EXCEPT ![c] = NewRow(s)] \in [Cases -> CaseRows]
      /\ txn[s].moves \cup {Move(s)} \in SUBSET MoveRows
      /\ txn[s].notices \cup Noticed(s) \in SUBSET NoticeRows
      /\ (IF IsTerminal(NewRow(s)) THEN txn[s].released \cup {c} ELSE txn[s].released)
            \in SUBSET Cases
  BY <1>1, <1>2, <1>3 DEF Transactions
<1>6. ASSUME NEW R \in [Cases -> CaseRows], NEW M \in SUBSET MoveRows,
             NEW N \in SUBSET NoticeRows, NEW L \in SUBSET Cases
      PROVE  [txn[s] EXCEPT !.rows = R, !.moves = M, !.notices = N, !.released = L]
                \in Transactions
  BY <1>2 DEF Transactions
<1>7. txn' \in [Sessions -> Transactions]
  BY <1>4, <1>5, <1>6 DEF TypeOK
<1>8. UNCHANGED <<tables, lock, clock, cmd, opened, committed>>
  BY DEF ApplyTransition
<1>10. told' \subseteq MoveRows
  <2>1. told' = told \cup {Move(s)}
    BY DEF ApplyTransition, Move
  <2> QED
    BY <1>1, <2>1 DEF TypeOK
<1>9. pc' \in [Sessions -> {"idle", "open", "lock", "write", "receipt"}]
  BY DEF TypeOK, ApplyTransition, Continue
<1> QED
  BY <1>7, <1>8, <1>9, <1>10 DEF TypeOK, tables

\* The key of a command that stores a receipt is one of Keys.
LEMMA ReceiptRow ==
  ASSUME TypeOK, LockInv, NEW s \in Sessions, pc[s] = "receipt"
  PROVE  [tx |-> Tx(s), key |-> cmd[s].key] \in ReceiptRows
<1>1. cmd[s].key \in Keys
  BY DEF LockInv, SessionInv
<1> QED
  BY <1>1 DEF ReceiptRows, TypeOK, Tx, TxIds

LEMMA StoreType ==
  ASSUME TypeOK, LockInv, NEW s \in Sessions, StoreReceipt(s)
  PROVE  TypeOK'
<1> DEFINE new == [tx |-> Tx(s), key |-> cmd[s].key]
<1>1. new \in ReceiptRows
  BY StoreEffect, ReceiptRow
<1>2. txn' = [txn EXCEPT ![s] = [txn[s] EXCEPT !.receipts = txn[s].receipts \cup {new}]]
  BY DEF StoreReceipt, TypeOK
<1> HIDE DEF new
<1>3. txn' \in [Sessions -> Transactions]
  BY <1>1, <1>2 DEF TypeOK, Transactions
<1>4. pc' \in [Sessions -> {"idle", "open", "lock", "write", "receipt"}]
  BY DEF TypeOK, StoreReceipt, Continue
<1> QED
  BY <1>3, <1>4 DEF TypeOK, StoreReceipt, tables

LEMMA EndType ==
  ASSUME TypeOK, NEW s \in Sessions, End(s)
  PROVE  /\ lock' \in [Cases -> Sessions \cup {NoOne}]
         /\ pc' \in [Sessions -> {"idle", "open", "lock", "write", "receipt"}]
         /\ txn' \in [Sessions -> Transactions]
BY FreedType, EmptyTypes DEF End, TypeOK

\* COMMIT makes the view of the session the committed one.
LEMMA CommitEffect ==
  ASSUME TypeOK, NEW s \in Sessions, Commit(s)
  PROVE  /\ pc[s] = "open" /\ End(s)
         /\ \A c \in Cases : case_record'[c] = Seen(s, c)
         /\ case_record' \in [Cases -> CaseRows]
         /\ active_experiment_slot' = IF active_experiment_slot \in txn[s].released
                                      THEN NoCase ELSE active_experiment_slot
         /\ state_transition' = state_transition \cup txn[s].moves
         /\ outbox' = outbox \cup txn[s].notices
         /\ command_receipt' = command_receipt \cup txn[s].receipts
         /\ committed' = committed \cup {Tx(s)}
BY SeenType DEF Commit

LEMMA CommitType ==
  ASSUME TypeOK, PromiseInv, NEW s \in Sessions, Commit(s)
  PROVE  TypeOK'
<1>1. \A c \in Cases : case_record'[c].version > 0
  <2> SUFFICES ASSUME NEW c \in Cases PROVE Seen(s, c).version > 0
    BY CommitEffect
  <2>1. /\ IsFiniteSet(MovesOf(s, c))
        /\ Cardinality(MovesOf(s, c)) = Seen(s, c).version - case_record[c].version
    BY DEF PromiseInv, Promised
  <2>2. Cardinality(MovesOf(s, c)) \in Nat
    BY <2>1, FS_CardinalityType
  <2>3. case_record[c].version > 0
    BY DEF TypeOK
  <2> QED
    BY <2>1, <2>2, <2>3, SeenType
<1>2. txn[s] \in Transactions /\ Tx(s) \in TxIds
  BY DEF TypeOK, Tx, TxIds
<1>3. /\ state_transition' \subseteq MoveRows
      /\ outbox' \subseteq NoticeRows
      /\ command_receipt' \subseteq ReceiptRows
      /\ committed' \subseteq TxIds
      /\ active_experiment_slot' \in Cases \cup {NoCase}
  BY <1>2, CommitEffect DEF TypeOK, Transactions
<1>4. case_record' \in [Cases -> CaseRows] /\ End(s)
  BY CommitEffect
<1>5. UNCHANGED <<clock, cmd, opened, told>>
  BY <1>4, EndEffect
<1> QED
  BY <1>1, <1>3, <1>4, <1>5, EndType DEF TypeOK

LEMMA TypeStep ==
  ASSUME TypeOK, LockInv, PromiseInv, [Next]_vars
  PROVE  TypeOK'
<1>1. ASSUME NEW s \in Sessions, Abandon(s) PROVE TypeOK'
  BY <1>1, EndType DEF Abandon, End, TypeOK, tables
<1>2. ASSUME Tick PROVE TypeOK'
  <2>1. clock' \in Nat \ {NoTime}
    BY <1>2 DEF Tick, TypeOK, NoTime
  <2> QED
    BY <1>2, <2>1 DEF Tick, TypeOK, tables
<1>3. CASE UNCHANGED vars
  BY <1>3 DEF vars, tables, TypeOK
<1> QED
  BY <1>1, <1>2, <1>3, StepCases, PreparationType, ApplyType, StoreType, CommitType

-----------------------------------------------------------------------------
(***************************************************************************)
(* The row locks.                                                          *)
(***************************************************************************)

LEMMA LockInit == Init => LockInv
BY DEF Init, LockInv, SessionInv, Wrote, NoTxn

LEMMA WritersDiffer ==
  ASSUME LockInv, NEW s \in Sessions, NEW v \in Sessions \ {s}, NEW c \in Cases, lock[c] = v
  PROVE  ~Wrote(s, c)
BY DEF LockInv, SessionInv

\* A session whose locks and whose locked rows are left alone.
LEMMA BystanderKeeps ==
  ASSUME NEW v \in Sessions, SessionInv(v),
         pc'[v] = pc[v], cmd'[v] = cmd[v], txn'[v] = txn[v],
         \A c \in Cases : lock[c] = v => lock'[c] = v /\ case_record'[c] = case_record[c]
  PROVE  SessionInv(v)'
BY DEF SessionInv, Wrote, Seen

LEMMA OthersLocksStay ==
  ASSUME TypeOK, LockInv, NEW s \in Sessions, NEW v \in Sessions \ {s},
         NEW c \in Cases, lock[c] = v,
         \/ OpenTransaction(s) \/ Prepares(s) \/ ApplyTransition(s)
         \/ StoreReceipt(s) \/ Commit(s) \/ Abandon(s)
  PROVE  lock'[c] = v /\ case_record'[c] = case_record[c]
<1>0. v # NoOne /\ v # s
  BY NamesAssumption
<1>1. CASE lock' = lock /\ case_record' = case_record
  BY <1>1
<1>2. CASE LoadCaseFacts(s)
  <2>1. c # cmd[s].case
    BY <1>0, <1>2 DEF LoadCaseFacts
  <2>2. lock' = [lock EXCEPT ![cmd[s].case] = s] /\ case_record' = case_record
    BY <1>2 DEF LoadCaseFacts, tables
  <2> QED
    BY <2>1, <2>2 DEF TypeOK
<1>3. CASE pc[s] \in {"lock", "write"} /\ RollbackToSavepoint(s)
  <2>1. cmd[s].fresh => lock[cmd[s].case] = s
    BY <1>3 DEF LockInv, SessionInv
  <2>2. lock' = LocksAfter(s) /\ case_record' = case_record
    BY <1>3 DEF RollbackToSavepoint, tables
  <2> QED
    BY <1>0, <2>1, <2>2 DEF LocksAfter, TypeOK
<1>4. CASE Commit(s) \/ Abandon(s)
  <2>1. End(s)
    BY <1>4 DEF Commit, Abandon
  <2>2. lock'[c] = v
    BY <1>0, <2>1, EndEffect DEF Freed
  <2>3. CASE Commit(s)
    BY <2>2, <2>3, CommitEffect, SeenType, WritersDiffer
  <2>4. CASE Abandon(s)
    BY <2>2, <2>4 DEF Abandon, tables
  <2> QED
    BY <1>4, <2>3, <2>4
<1> QED
  BY <1>1, <1>2, <1>3, <1>4
  DEF OpenTransaction, Prepares, StartCommand, StartReceipt, ApplyTransition,
      StoreReceipt, tables

LEMMA OwnSessionKeeps ==
  ASSUME TypeOK, LockInv, NEW s \in Sessions,
         \/ OpenTransaction(s) \/ Prepares(s) \/ ApplyTransition(s)
         \/ StoreReceipt(s) \/ Commit(s) \/ Abandon(s)
  PROVE  SessionInv(s)'
<1> USE DEF SessionInv
<1>1. SessionInv(s)
  BY DEF LockInv
<1>2. CASE OpenTransaction(s)
  <2>1. pc'[s] = "open" /\ txn'[s] = [NoTxn EXCEPT !.began = clock] /\ clock # NoTime
    BY <1>2 DEF OpenTransaction, Continue, TypeOK
  <2>2. txn'[s].began = clock /\ txn'[s].rows = NoTxn.rows
    BY <2>1 DEF NoTxn
  <2>3. \A c \in Cases : txn'[s].rows[c] = NoRow
    BY <2>2 DEF NoTxn
  <2> QED
    BY <2>1, <2>2, <2>3 DEF Wrote
<1>3. CASE StartCommand(s)
  <2>1. /\ pc[s] = "open" /\ pc'[s] = "lock" /\ UNCHANGED <<lock, case_record>>
        /\ SameWrites(txn'[s], txn[s])
    BY <1>3, PreparationsKeepRows DEF StartCommand, Continue, TypeOK, tables, SameRows, Prepares
  <2>2. PICK c \in Cases, to \in Targets, n \in Notices \cup {NoNotice} :
          cmd' = [cmd EXCEPT ![s] = [NoCmd EXCEPT
                    !.case = c, !.expected = Seen(s, c).version, !.to = to, !.notice = n]]
    BY <1>3 DEF StartCommand
  <2>3. cmd'[s].case = c /\ ~cmd'[s].fresh
    BY <2>2 DEF TypeOK, NoCmd
  <2> QED
    BY <1>1, <2>1, <2>3 DEF Wrote, SameWrites
<1>4. CASE StartReceipt(s)
  <2>1. /\ pc[s] = "open" /\ pc'[s] = "receipt" /\ UNCHANGED <<lock, case_record, txn>>
    BY <1>4 DEF StartReceipt, Continue, TypeOK, tables
  <2>2. cmd'[s].key \in Keys
    BY <1>4 DEF StartReceipt, TypeOK, NoCmd
  <2> QED
    BY <1>1, <2>1, <2>2 DEF Wrote
<1>5. CASE LoadCaseFacts(s)
  <2> DEFINE c == cmd[s].case
  <2>1. /\ pc[s] = "lock" /\ pc'[s] = "write" /\ UNCHANGED <<case_record, txn>>
        /\ c \in Cases /\ lock[c] \in {NoOne, s}
        /\ lock' = [lock EXCEPT ![c] = s]
        /\ cmd' = [cmd EXCEPT ![s].facts = Seen(s, c), ![s].fresh = (lock[c] = NoOne)]
    BY <1>1, <1>5 DEF LoadCaseFacts, Continue, TypeOK, tables
  <2>2. /\ cmd'[s].case = c /\ cmd'[s].facts = Seen(s, c)
        /\ cmd'[s].fresh = (lock[c] = NoOne)
    BY <2>1 DEF TypeOK, Commands
  <2>3. lock'[c] = s /\ \A d \in Cases : lock[d] = s => lock'[d] = s
    BY <2>1 DEF TypeOK
  <2>4. lock[c] = NoOne => ~Wrote(s, c)
    BY <1>1, <2>1, NamesAssumption
  <2> QED
    BY <1>1, <2>1, <2>2, <2>3, <2>4 DEF Wrote, Seen
<1>6. CASE pc[s] \in {"lock", "write"} /\ RollbackToSavepoint(s)
  <2>1. pc'[s] = "open" /\ UNCHANGED <<txn, case_record>> /\ lock' = LocksAfter(s)
    BY <1>6 DEF RollbackToSavepoint, TypeOK, tables
  <2>2. cmd[s].fresh => ~Wrote(s, cmd[s].case) /\ pc[s] = "write"
    BY <1>1, <1>6
  <2>3. \A c \in Cases : Wrote(s, c) => lock'[c] = s
    BY <1>1, <2>1, <2>2 DEF LocksAfter, TypeOK
  <2> QED
    BY <1>1, <1>6, <2>1, <2>3 DEF Wrote
<1>7. CASE ApplyTransition(s)
  <2>0. PICK c : c = cmd[s].case
    OBVIOUS
  <2>1. c \in Cases /\ lock[c] = s /\ pc[s] = "write"
    BY <1>7, <2>0, AppliedRow
  <2>2. /\ pc'[s] = "open" /\ lock' = lock
        /\ txn'[s].began = txn[s].began
        /\ txn'[s].rows = [txn[s].rows EXCEPT ![c] = NewRow(s)]
    BY <1>7, <2>0, ApplyEffect
  <2>3. \A d \in Cases : Wrote(s, d)' => d = c \/ Wrote(s, d)
    BY <2>2 DEF Wrote, TypeOK, Transactions
  <2>4. \A d \in Cases : Wrote(s, d) => lock[d] = s
    BY <1>1
  <2>5. \A d \in Cases : Wrote(s, d)' => lock'[d] = s
    BY <2>1, <2>2, <2>3, <2>4
  <2>6. txn[s].began # NoTime
    BY <1>1, <2>1
  <2> QED
    BY <2>2, <2>5, <2>6
<1>8. CASE StoreReceipt(s)
  <2>1. /\ pc[s] = "receipt" /\ pc'[s] = "open" /\ UNCHANGED <<lock, case_record>>
        /\ txn'[s].rows = txn[s].rows /\ txn'[s].began = txn[s].began
    BY <1>8, StoreEffect DEF tables
  <2> QED
    BY <1>1, <2>1 DEF Wrote
<1>9. CASE End(s)
  <2>1. pc'[s] = "idle" /\ txn'[s] = NoTxn
    BY <1>9, EndEffect
  <2> QED
    BY <2>1 DEF Wrote, NoTxn
<1> QED
  BY <1>2, <1>3, <1>4, <1>5, <1>6, <1>7, <1>8, <1>9 DEF Prepares, Commit, Abandon

LEMMA LockStep ==
  ASSUME TypeOK, LockInv, [Next]_vars
  PROVE  LockInv'
<1>1. ASSUME NEW s \in Sessions, NEW v \in Sessions,
             \/ OpenTransaction(s) \/ Prepares(s) \/ ApplyTransition(s)
             \/ StoreReceipt(s) \/ Commit(s) \/ Abandon(s)
      PROVE  SessionInv(v)'
  <2>1. CASE v = s
    BY <1>1, <2>1, OwnSessionKeeps
  <2>2. CASE v # s
    <3>1. pc'[v] = pc[v] /\ cmd'[v] = cmd[v] /\ txn'[v] = txn[v]
      BY <1>1, <2>2, StepsAreLocal DEF OthersKeep
    <3>2. \A c \in Cases : lock[c] = v => lock'[c] = v /\ case_record'[c] = case_record[c]
      BY <1>1, <2>2, OthersLocksStay
    <3> QED
      BY <3>1, <3>2, BystanderKeeps DEF LockInv
  <2> QED
    BY <2>1, <2>2
<1>2. ASSUME NEW v \in Sessions, Tick \/ UNCHANGED vars
      PROVE  SessionInv(v)'
  <2>1. UNCHANGED <<pc, cmd, txn, lock, case_record>>
    BY <1>2 DEF Tick, vars, tables
  <2> QED
    BY <2>1, BystanderKeeps DEF LockInv
<1> QED
  BY <1>1, <1>2, StepCases DEF LockInv

-----------------------------------------------------------------------------
(***************************************************************************)
(* What a session sees, before and after a step.                           *)
(***************************************************************************)

\* The view a session has of one case.
SameView(s, c) ==
    /\ case_record'[c] = case_record[c]
    /\ txn'[s].rows[c] = txn[s].rows[c]
    /\ MovesOf(s, c)' = MovesOf(s, c)
    /\ c \in txn[s].released => c \in txn'[s].released

LEMMA SameViewSeen ==
  ASSUME NEW s \in Sessions, NEW c \in Cases, SameView(s, c)
  PROVE  (Wrote(s, c)' <=> Wrote(s, c)) /\ Seen(s, c)' = Seen(s, c)
BY DEF SameView, Wrote, Seen

LEMMA SameRowsSameView ==
  ASSUME SameRows, NEW s \in Sessions, NEW c \in Cases
  PROVE  SameView(s, c) /\ CommittedMoves(c)' = CommittedMoves(c)
BY DEF SameRows, SameWrites, SameView, MovesOf, CommittedMoves, tables

LEMMA SameTxnSameMoves ==
  ASSUME NEW s \in Sessions, NEW c \in Cases, txn'[s].moves = txn[s].moves
  PROVE  MovesOf(s, c)' = MovesOf(s, c)
BY DEF MovesOf

\* A transaction that begins or ends has written nothing.
LEMMA EmptyView ==
  ASSUME NEW s \in Sessions, NEW c \in Cases,
         txn'[s].rows = NoTxn.rows, txn'[s].moves = NoTxn.moves
  PROVE  ~Wrote(s, c)' /\ MovesOf(s, c)' = {} /\ Seen(s, c)' = case_record'[c]
<1>1. NoTxn.rows[c] = NoRow /\ NoTxn.moves = {}
  BY DEF NoTxn
<1>2. ~Wrote(s, c)'
  BY <1>1 DEF Wrote
<1>3. MovesOf(s, c)' = {}
  BY <1>1 DEF MovesOf
<1> QED
  BY <1>2, <1>3 DEF Seen

LEMMA OpenView ==
  ASSUME TypeOK, NEW s \in Sessions, OpenTransaction(s)
  PROVE  /\ pc[s] = "idle" /\ pc'[s] = "open"
         /\ txn'[s] = [NoTxn EXCEPT !.began = clock]
         /\ txn'[s].rows = NoTxn.rows /\ txn'[s].moves = NoTxn.moves
         /\ txn'[s].notices = {} /\ txn'[s].receipts = {}
         /\ opened' = [opened EXCEPT ![s] = opened[s] + 1]
         /\ UNCHANGED <<tables, lock, clock, cmd, committed, told>>
<1>1. /\ pc[s] = "idle" /\ pc'[s] = "open"
      /\ txn'[s] = [NoTxn EXCEPT !.began = clock]
      /\ opened' = [opened EXCEPT ![s] = opened[s] + 1]
      /\ UNCHANGED <<tables, lock, clock, cmd, committed, told>>
  BY DEF OpenTransaction, Continue, TypeOK
<1> QED
  BY <1>1 DEF NoTxn

LEMMA ApplyView ==
  ASSUME TypeOK, LockInv, NEW s \in Sessions, ApplyTransition(s), NEW c, c = cmd[s].case
  PROVE  /\ c \in Cases
         /\ Wrote(s, c)' /\ Seen(s, c)' = NewRow(s) /\ txn'[s].rows[c] = NewRow(s)
         /\ MovesOf(s, c)' = MovesOf(s, c) \cup {Move(s)}
         /\ \A d \in Cases \ {c} : SameView(s, d)
         /\ \A v \in Sessions \ {s}, d \in Cases : SameView(v, d)
<1>1. /\ c \in Cases /\ NewRow(s).version = Seen(s, c).version + 1 /\ Move(s).case = c
  BY AppliedRow
<1>2. /\ txn'[s].rows = [txn[s].rows EXCEPT ![c] = NewRow(s)]
      /\ txn'[s].moves = txn[s].moves \cup {Move(s)}
      /\ txn[s].released \subseteq txn'[s].released
  BY ApplyEffect
<1>3. UNCHANGED tables
  BY ApplyEffect
<1>4. txn[s].rows \in [Cases -> CaseRows]
  BY DEF TypeOK, Transactions
<1>5. txn'[s].rows[c] = NewRow(s) /\ \A d \in Cases \ {c} : txn'[s].rows[d] = txn[s].rows[d]
  BY <1>1, <1>2, <1>4
<1>6. NewRow(s) # NoRow
  BY <1>1, SeenType, EmptyTypes
<1>7. Wrote(s, c)' /\ Seen(s, c)' = NewRow(s)
  BY <1>5, <1>6 DEF Wrote, Seen
<1>8. MovesOf(s, c)' = MovesOf(s, c) \cup {Move(s)}
  BY <1>1, <1>2 DEF MovesOf
<1>9. \A d \in Cases \ {c} : MovesOf(s, d)' = MovesOf(s, d)
  BY <1>1, <1>2 DEF MovesOf
<1>10. \A d \in Cases \ {c} : SameView(s, d)
  BY <1>2, <1>3, <1>5, <1>9 DEF SameView, tables
<1>11. ASSUME NEW v \in Sessions \ {s}, NEW d \in Cases PROVE SameView(v, d)
  <2>1. txn'[v] = txn[v]
    BY StepsAreLocal DEF OthersKeep
  <2> QED
    BY <1>3, <2>1, SameTxnSameMoves DEF SameView, tables
<1> QED
  BY <1>1, <1>5, <1>7, <1>8, <1>10, <1>11

LEMMA OtherViews ==
  ASSUME TypeOK, NEW s \in Sessions, OpenTransaction(s) \/ StoreReceipt(s) \/ Abandon(s)
  PROVE  \A v \in Sessions \ {s}, c \in Cases : SameView(v, c)
<1>1. UNCHANGED tables
  BY DEF OpenTransaction, StoreReceipt, Abandon
<1>2. \A v \in Sessions \ {s} : txn'[v] = txn[v]
  BY StepsAreLocal DEF OthersKeep
<1> QED
  BY <1>1, <1>2, SameTxnSameMoves DEF SameView, tables

LEMMA StoreView ==
  ASSUME TypeOK, NEW s \in Sessions, StoreReceipt(s), NEW c \in Cases
  PROVE  SameView(s, c)
BY StoreEffect, SameTxnSameMoves DEF SameView, tables

\* Which of the committed rows a COMMIT of s leaves to v.
LEMMA CommitView ==
  ASSUME TypeOK, LockInv, NEW s \in Sessions, Commit(s),
         NEW v \in Sessions \ {s}, NEW c \in Cases
  PROVE  /\ Wrote(v, c) => SameView(v, c) /\ ~Wrote(s, c)
         /\ MovesOf(v, c)' = MovesOf(v, c)
         /\ ~Wrote(v, c) => ~Wrote(v, c)' /\ Seen(v, c)' = case_record'[c]
         /\ case_record'[c] = Seen(s, c)
<1>1. txn'[v] = txn[v]
  BY StepsAreLocal DEF OthersKeep
<1>2. MovesOf(v, c)' = MovesOf(v, c)
  BY <1>1, SameTxnSameMoves
<1>3. ASSUME Wrote(v, c) PROVE SameView(v, c) /\ ~Wrote(s, c)
  <2>1. lock[c] = v
    BY <1>3 DEF LockInv, SessionInv
  <2>2. ~Wrote(s, c) /\ case_record'[c] = case_record[c]
    BY <2>1, WritersDiffer, OthersLocksStay
  <2> QED
    BY <1>1, <1>2, <2>2 DEF SameView
<1>4. ~Wrote(v, c) => ~Wrote(v, c)' /\ Seen(v, c)' = case_record'[c]
  BY <1>1 DEF Wrote, Seen
<1> QED
  BY <1>2, <1>3, <1>4, CommitEffect

-----------------------------------------------------------------------------
(***************************************************************************)
(* The promises.                                                           *)
(***************************************************************************)

LEMMA PromiseKept ==
  ASSUME NEW s \in Sessions, NEW c \in Cases, Promised(s, c), SameView(s, c)
  PROVE  Promised(s, c)'
<1>1. MovesOf(s, c)' = MovesOf(s, c)
  BY DEF SameView
<1>2. (Wrote(s, c)' <=> Wrote(s, c)) /\ Seen(s, c)' = Seen(s, c)
  BY SameViewSeen
<1>3. txn'[s].rows[c] = txn[s].rows[c] /\ case_record'[c] = case_record[c]
  BY DEF SameView
<1>4. c \in txn[s].released => c \in txn'[s].released
  BY DEF SameView
<1> QED
  BY <1>1, <1>2, <1>3, <1>4 DEF Promised

LEMMA NothingPromised ==
  ASSUME NEW s \in Sessions, NEW c \in Cases, case_record'[c].version \in Nat,
         ~Wrote(s, c)', MovesOf(s, c)' = {}, Seen(s, c)' = case_record'[c]
  PROVE  Promised(s, c)'
<1>1. IsFiniteSet(MovesOf(s, c)') /\ Cardinality(MovesOf(s, c)') = 0
  BY FS_EmptySet
<1>2. {m.after : m \in MovesOf(s, c)'} = case_record'[c].version + 1 .. case_record'[c].version
  OBVIOUS
<1> QED
  BY <1>1, <1>2 DEF Promised

LEMMA NoWritesNoMoves ==
  ASSUME TypeOK, NEW s \in Sessions, NEW c \in Cases, Promised(s, c), ~Wrote(s, c)
  PROVE  MovesOf(s, c) = {}
<1>1. Seen(s, c) = case_record[c] /\ case_record[c].version \in Nat
  BY SeenType
<1>2. {m.after : m \in MovesOf(s, c)} = case_record[c].version + 1 .. case_record[c].version
  BY <1>1 DEF Promised
<1>3. {m.after : m \in MovesOf(s, c)} = {}
  <2>1. \A n \in Nat : n + 1 .. n = {}
    OBVIOUS
  <2> QED
    BY <1>1, <1>2, <2>1
<1> QED
  BY <1>3

LEMMA PromiseInit == Init => PromiseInv
<1> SUFFICES ASSUME Init, NEW s \in Sessions, NEW c \in Cases PROVE Promised(s, c)
  BY DEF PromiseInv
<1>1. txn[s] = NoTxn /\ NoTxn.rows[c] = NoRow /\ NoTxn.moves = {}
  BY DEF Init, NoTxn
<1>2. ~Wrote(s, c) /\ MovesOf(s, c) = {} /\ Seen(s, c) = case_record[c]
  BY <1>1 DEF Wrote, MovesOf, Seen
<1>3. case_record[c].version \in Nat
  BY TypeInit, SeenType
<1>4. IsFiniteSet(MovesOf(s, c)) /\ Cardinality(MovesOf(s, c)) = 0
  BY <1>2, FS_EmptySet
<1>5. {m.after : m \in MovesOf(s, c)} = case_record[c].version + 1 .. Seen(s, c).version
  BY <1>2, <1>3
<1> QED
  BY <1>2, <1>3, <1>4, <1>5 DEF Promised

LEMMA ApplyPromises ==
  ASSUME TypeOK, LockInv, NEW s \in Sessions, ApplyTransition(s),
         NEW c, c = cmd[s].case, c \in Cases, Promised(s, c)
  PROVE  Promised(s, c)'
<1>1. /\ MovesOf(s, c)' = MovesOf(s, c) \cup {Move(s)}
      /\ Seen(s, c)' = NewRow(s) /\ txn'[s].rows[c] = NewRow(s)
  BY ApplyView
<1>2. /\ NewRow(s).version = Seen(s, c).version + 1
      /\ Move(s).after = Seen(s, c).version + 1
      /\ ~IsTerminal(Seen(s, c))
  BY AppliedRow
<1>3. case_record' = case_record
  BY ApplyEffect DEF tables
<1>4. PICK v \in Nat : v = case_record[c].version
  BY SeenType
<1>5. PICK n \in Nat : n = Seen(s, c).version
  BY SeenType
<1>6. /\ IsFiniteSet(MovesOf(s, c))
      /\ {m.after : m \in MovesOf(s, c)} = v + 1 .. n
      /\ Cardinality(MovesOf(s, c)) = n - v
  BY <1>4, <1>5 DEF Promised
<1>7. n - v \in Nat
  BY <1>6, FS_CardinalityType
<1>8. Move(s) \notin MovesOf(s, c)
  <2>1. n + 1 \notin v + 1 .. n
    OBVIOUS
  <2>2. Move(s).after = n + 1
    BY <1>2, <1>5
  <2>3. Move(s) \in MovesOf(s, c) => Move(s).after \in {m.after : m \in MovesOf(s, c)}
    OBVIOUS
  <2> QED
    BY <1>6, <2>1, <2>2, <2>3
<1>9. /\ IsFiniteSet(MovesOf(s, c)')
      /\ Cardinality(MovesOf(s, c)') = n - v + 1
  BY <1>1, <1>6, <1>8, FS_AddElement
<1>10. {m.after : m \in MovesOf(s, c)'} = v + 1 .. n + 1
  <2>1. {m.after : m \in MovesOf(s, c)'} = {m.after : m \in MovesOf(s, c)} \cup {n + 1}
    BY <1>1, <1>2, <1>5
  <2>2. v + 1 .. n + 1 = (v + 1 .. n) \cup {n + 1}
    BY <1>7
  <2> QED
    BY <1>6, <2>1, <2>2
<1>11. Seen(s, c)'.version = n + 1 /\ case_record'[c].version = v
  BY <1>1, <1>2, <1>3, <1>4, <1>5
<1>12. n - v + 1 = n + 1 - v
  OBVIOUS
<1>13. ~IsTerminal(case_record'[c])
  BY <1>2, <1>3, SeenType DEF Promised
<1>14. IsTerminal(txn'[s].rows[c]) => c \in txn'[s].released
  <2>1. txn'[s].released = IF IsTerminal(NewRow(s))
                           THEN txn[s].released \cup {c} ELSE txn[s].released
    BY ApplyEffect
  <2> QED
    BY <1>1, <2>1
<1> QED
  BY <1>9, <1>10, <1>11, <1>12, <1>13, <1>14 DEF Promised

LEMMA PromiseStep ==
  ASSUME TypeOK, LockInv, PromiseInv, TypeOK', [Next]_vars
  PROVE  PromiseInv'
<1> SUFFICES ASSUME NEW v \in Sessions, NEW c \in Cases PROVE Promised(v, c)'
  BY DEF PromiseInv
<1>0. Promised(v, c) /\ case_record'[c].version \in Nat
  BY DEF PromiseInv, TypeOK, CaseRows
<1>1. ASSUME SameRows PROVE Promised(v, c)'
  BY <1>0, <1>1, SameRowsSameView, PromiseKept
<1>2. ASSUME NEW s \in Sessions, ApplyTransition(s) PROVE Promised(v, c)'
  <2>1. CASE v = s /\ c = cmd[s].case
    BY <1>0, <1>2, <2>1, ApplyPromises
  <2>2. CASE ~(v = s /\ c = cmd[s].case)
    BY <1>0, <1>2, <2>2, ApplyView, PromiseKept
  <2> QED
    BY <2>1, <2>2
<1>3. ASSUME NEW s \in Sessions, OpenTransaction(s) \/ Abandon(s) \/ StoreReceipt(s)
      PROVE  Promised(v, c)'
  <2>1. CASE v # s
    BY <1>0, <1>3, <2>1, OtherViews, PromiseKept
  <2>2. CASE v = s /\ StoreReceipt(s)
    BY <1>0, <2>2, StoreView, PromiseKept
  <2>3. CASE v = s /\ OpenTransaction(s)
    BY <1>0, <2>3, OpenView, EmptyView, NothingPromised
  <2>4. CASE v = s /\ Abandon(s)
    <3>1. txn'[s] = NoTxn
      BY <2>4, EndEffect DEF Abandon
    <3> QED
      BY <1>0, <2>4, <3>1, EmptyView, NothingPromised
  <2> QED
    BY <1>3, <2>1, <2>2, <2>3, <2>4
<1>4. ASSUME NEW s \in Sessions, Commit(s) PROVE Promised(v, c)'
  <2>1. CASE v = s
    <3>1. txn'[s] = NoTxn
      BY <1>4, EndEffect, CommitEffect
    <3> QED
      BY <1>0, <2>1, <3>1, EmptyView, NothingPromised
  <2>2. CASE v # s /\ Wrote(v, c)
    BY <1>0, <1>4, <2>2, CommitView, PromiseKept
  <2>3. CASE v # s /\ ~Wrote(v, c)
    <3>1. ~Wrote(v, c)' /\ Seen(v, c)' = case_record'[c]
      BY <1>4, <2>3, CommitView
    <3>2. MovesOf(v, c)' = {}
      BY <1>0, <1>4, <2>3, CommitView, NoWritesNoMoves
    <3> QED
      BY <1>0, <3>1, <3>2, NothingPromised
  <2> QED
    BY <2>1, <2>2, <2>3
<1> QED
  BY <1>1, <1>2, <1>3, <1>4, StepCases, PreparationsKeepRows, PausesKeepRows

-----------------------------------------------------------------------------
(***************************************************************************)
(* Transactions are visible as a whole.                                    *)
(***************************************************************************)

LEMMA WholeInit == Init => WholeInv
BY DEF Init, WholeInv, OwnRows, NoFutureIds, TransactionIsWhole, NoTxn

LEMMA TxOrder ==
  ASSUME TypeOK, NEW s \in Sessions
  PROVE  /\ Tx(s) \in TxIds /\ Tx(s)[1] = s /\ Tx(s)[2] = opened[s] /\ opened[s] \in Nat
         /\ \A v \in Sessions : Tx(v) = Tx(s) => v = s
BY DEF TypeOK, Tx, TxIds

\* The rows of a session nothing happened to.
LEMMA OwnRowsKept ==
  ASSUME NEW v \in Sessions, OwnRows(v), opened'[v] = opened[v],
         pc'[v] = "idle" <=> pc[v] = "idle",
         txn'[v].moves = txn[v].moves,
         txn'[v].notices = txn[v].notices,
         txn'[v].receipts = txn[v].receipts,
         told \subseteq told',
         \A m \in told' \ told : m.tx # Tx(v),
         \A tx \in committed' \ committed : tx # Tx(v)
  PROVE  OwnRows(v)'
<1>1. Tx(v)' = Tx(v)
  BY DEF Tx
<1> QED
  BY <1>1 DEF OwnRows

\* A session without a transaction has none.
LEMMA IdleOwnRows ==
  ASSUME NEW s \in Sessions, pc'[s] = "idle", txn'[s] = NoTxn
  PROVE  OwnRows(s)'
BY DEF OwnRows, NoTxn

LEMMA SameRowsWhole ==
  ASSUME WholeInv, SameRows
  PROVE  WholeInv'
<1>1. ASSUME NEW v \in Sessions PROVE OwnRows(v)'
  BY OwnRowsKept DEF WholeInv, SameRows, SameWrites
<1>2. NoFutureIds'
  BY DEF WholeInv, NoFutureIds, SameRows
<1>3. TransactionIsWhole'
  BY DEF WholeInv, TransactionIsWhole, SameRows, tables
<1> QED
  BY <1>1, <1>2, <1>3 DEF WholeInv

LEMMA OpenWhole ==
  ASSUME TypeOK, WholeInv, NEW s \in Sessions, OpenTransaction(s)
  PROVE  WholeInv'
<1>1. /\ opened' = [opened EXCEPT ![s] = opened[s] + 1]
      /\ UNCHANGED <<tables, committed, told>>
      /\ txn'[s].moves = {} /\ txn'[s].notices = {} /\ txn'[s].receipts = {}
  BY OpenView DEF NoTxn
<1>2. opened'[s] = opened[s] + 1 /\ \A v \in Sessions : opened'[v] >= opened[v]
  BY <1>1 DEF TypeOK
<1>3. ASSUME NEW id \in TxIds, id[2] <= opened[id[1]]
      PROVE  id[2] <= opened'[id[1]] /\ id # Tx(s)'
  <2>1. id[1] \in Sessions /\ id[2] \in Nat
    BY DEF TxIds
  <2>2. opened[id[1]] \in Nat /\ opened'[id[1]] \in Nat /\ opened[s] \in Nat
    BY <1>1, <2>1 DEF TypeOK
  <2>3. Tx(s)' = <<s, opened[s] + 1>>
    BY <1>2 DEF Tx
  <2> QED
    BY <1>2, <1>3, <2>1, <2>2, <2>3
<1>4. /\ \A id \in committed : id \in TxIds /\ id[2] <= opened[id[1]]
      /\ \A m \in told : m.tx \in TxIds /\ m.tx[2] <= opened[m.tx[1]]
  BY DEF WholeInv, NoFutureIds, TypeOK, MoveRows
<1>5. NoFutureIds'
  BY <1>1, <1>3, <1>4 DEF NoFutureIds
<1>6. OwnRows(s)'
  BY <1>1, <1>3, <1>4 DEF OwnRows
<1>7. ASSUME NEW v \in Sessions \ {s} PROVE OwnRows(v)'
  BY <1>1, StepsAreLocal, OwnRowsKept DEF OthersKeep, WholeInv
<1>8. TransactionIsWhole'
  BY <1>1 DEF WholeInv, TransactionIsWhole, tables
<1> QED
  BY <1>5, <1>6, <1>7, <1>8 DEF WholeInv

LEMMA ApplyWhole ==
  ASSUME TypeOK, LockInv, WholeInv, NEW s \in Sessions, ApplyTransition(s)
  PROVE  WholeInv'
<1>0. PICK c : c = cmd[s].case
  OBVIOUS
<1>1. /\ txn'[s].moves = txn[s].moves \cup {Move(s)}
      /\ txn'[s].notices = txn[s].notices \cup Noticed(s)
      /\ txn'[s].receipts = txn[s].receipts
      /\ told' = told \cup {Move(s)}
      /\ UNCHANGED <<tables, opened, committed>>
  BY <1>0, ApplyEffect
<1>2. Move(s).tx = Tx(s) /\ pc[s] = "write"
  BY <1>0, AppliedRow
<1>3. Tx(s) \notin committed
  BY <1>2 DEF WholeInv, OwnRows
<1>4. Tx(s)' = Tx(s)
  BY <1>1 DEF Tx
<1>5. \A row \in Noticed(s) : row.tx = Tx(s)
  BY DEF Noticed
<1>6. OwnRows(s)'
  BY <1>1, <1>2, <1>3, <1>4, <1>5 DEF WholeInv, OwnRows
<1>7. ASSUME NEW v \in Sessions \ {s} PROVE OwnRows(v)'
  <2>1. Move(s).tx # Tx(v)
    BY <1>2, TxOrder
  <2> QED
    BY <1>1, <2>1, StepsAreLocal, OwnRowsKept DEF OthersKeep, WholeInv
<1>8. NoFutureIds'
  <2>1. Move(s).tx[2] <= opened[Move(s).tx[1]]
    BY <1>2, TxOrder
  <2> QED
    BY <1>1, <2>1 DEF WholeInv, NoFutureIds
<1>9. TransactionIsWhole'
  <2>1. Move(s) \notin state_transition
    BY <1>2, <1>3 DEF WholeInv, TransactionIsWhole
  <2> QED
    BY <1>1, <1>2, <1>3, <2>1 DEF WholeInv, TransactionIsWhole, tables
<1> QED
  BY <1>6, <1>7, <1>8, <1>9 DEF WholeInv

LEMMA StoreWhole ==
  ASSUME TypeOK, WholeInv, NEW s \in Sessions, StoreReceipt(s)
  PROVE  WholeInv'
<1>1. /\ txn'[s].moves = txn[s].moves
      /\ txn'[s].notices = txn[s].notices
      /\ txn'[s].receipts = txn[s].receipts \cup {[tx |-> Tx(s), key |-> cmd[s].key]}
      /\ pc[s] = "receipt"
      /\ UNCHANGED <<tables, opened, committed, told>>
  BY StoreEffect
<1>2. Tx(s)' = Tx(s)
  BY <1>1 DEF Tx
<1>3. OwnRows(s)'
  BY <1>1, <1>2 DEF WholeInv, OwnRows
<1>4. ASSUME NEW v \in Sessions \ {s} PROVE OwnRows(v)'
  BY <1>1, StepsAreLocal, OwnRowsKept DEF OthersKeep, WholeInv
<1>5. NoFutureIds' /\ TransactionIsWhole'
  BY <1>1 DEF WholeInv, NoFutureIds, TransactionIsWhole, tables
<1> QED
  BY <1>3, <1>4, <1>5 DEF WholeInv

LEMMA CommitWhole ==
  ASSUME TypeOK, WholeInv, NEW s \in Sessions, Commit(s)
  PROVE  WholeInv'
<1>1. /\ pc[s] = "open" /\ End(s)
      /\ state_transition' = state_transition \cup txn[s].moves
      /\ outbox' = outbox \cup txn[s].notices
      /\ command_receipt' = command_receipt \cup txn[s].receipts
      /\ committed' = committed \cup {Tx(s)}
  BY CommitEffect
<1>2. told' = told /\ opened' = opened
  BY <1>1, EndEffect
<1>3. OwnRows(s)'
  BY <1>1, EndEffect, IdleOwnRows
<1>4. ASSUME NEW v \in Sessions \ {s} PROVE OwnRows(v)'
  <2>1. Tx(v) # Tx(s)
    BY TxOrder
  <2> QED
    BY <1>1, <1>2, <2>1, StepsAreLocal, OwnRowsKept DEF OthersKeep, WholeInv
<1>5. NoFutureIds'
  BY <1>1, <1>2, TxOrder DEF WholeInv, NoFutureIds
<1>6. OwnRows(s)
  BY DEF WholeInv
<1>7. ASSUME NEW m \in told PROVE m \in state_transition' <=> m.tx \in committed'
  <2>1. m \in state_transition <=> m.tx \in committed
    BY <1>7 DEF WholeInv, TransactionIsWhole
  <2>2. m \in txn[s].moves <=> m.tx = Tx(s)
    BY <1>1, <1>6, <1>7 DEF OwnRows
  <2> QED
    BY <1>1, <2>1, <2>2
<1>8. state_transition' \subseteq told'
  BY <1>1, <1>2, <1>6 DEF WholeInv, TransactionIsWhole, OwnRows
<1>9. \A row \in outbox' \cup command_receipt' : row.tx \in committed'
  BY <1>1, <1>6 DEF WholeInv, TransactionIsWhole, OwnRows
<1>10. TransactionIsWhole'
  BY <1>2, <1>7, <1>8, <1>9 DEF TransactionIsWhole
<1> QED
  BY <1>3, <1>4, <1>5, <1>10 DEF WholeInv

LEMMA AbandonWhole ==
  ASSUME TypeOK, WholeInv, NEW s \in Sessions, Abandon(s)
  PROVE  WholeInv'
<1>1. UNCHANGED <<tables, committed, told, opened>> /\ pc'[s] = "idle" /\ txn'[s] = NoTxn
  BY EndEffect DEF Abandon
<1>2. OwnRows(s)'
  BY <1>1, IdleOwnRows
<1>3. ASSUME NEW v \in Sessions \ {s} PROVE OwnRows(v)'
  BY <1>1, StepsAreLocal, OwnRowsKept DEF OthersKeep, WholeInv
<1>4. NoFutureIds' /\ TransactionIsWhole'
  BY <1>1 DEF WholeInv, NoFutureIds, TransactionIsWhole, tables
<1> QED
  BY <1>2, <1>3, <1>4 DEF WholeInv

LEMMA WholeStep ==
  ASSUME TypeOK, LockInv, WholeInv, [Next]_vars
  PROVE  WholeInv'
BY StepCases, PreparationsKeepRows, PausesKeepRows, SameRowsWhole,
   OpenWhole, ApplyWhole, StoreWhole, CommitWhole, AbandonWhole

-----------------------------------------------------------------------------
(***************************************************************************)
(* Notifications and keys.                                                 *)
(***************************************************************************)

LEMMA PlaceInit == Init => PlaceInv
BY DEF Init, PlaceInv, OnePlace, NoticeHasOneOwner, KeyHasOneEffect, NoTxn

\* Transactions that write no such row, or give theirs up, keep the rest apart.
LEMMA FewerRows ==
  ASSUME PlaceInv, outbox' = outbox, command_receipt' = command_receipt,
         \A v \in Sessions : /\ txn'[v].notices \subseteq txn[v].notices
                             /\ txn'[v].receipts \subseteq txn[v].receipts
  PROVE  PlaceInv'
<1>1. ASSUME NEW v \in Sessions PROVE OnePlace(v)'
  BY DEF PlaceInv, OnePlace
<1>2. NoticeHasOneOwner' /\ KeyHasOneEffect'
  BY DEF PlaceInv, NoticeHasOneOwner, KeyHasOneEffect
<1> QED
  BY <1>1, <1>2 DEF PlaceInv

LEMMA ApplyPlaces ==
  ASSUME TypeOK, LockInv, PlaceInv, NEW s \in Sessions, ApplyTransition(s)
  PROVE  PlaceInv'
<1>0. PICK c : c = cmd[s].case
  OBVIOUS
<1>1. /\ txn'[s].notices = txn[s].notices \cup Noticed(s)
      /\ txn'[s].receipts = txn[s].receipts
      /\ outbox' = outbox /\ command_receipt' = command_receipt
  BY <1>0, ApplyEffect DEF tables
<1>2. \A v \in Sessions \ {s} : txn'[v] = txn[v]
  BY StepsAreLocal DEF OthersKeep
<1>3. CASE cmd[s].notice = NoNotice
  <2>1. txn'[s].notices = txn[s].notices
    BY <1>1, <1>3 DEF Noticed
  <2> QED
    BY <1>1, <1>2, <2>1, FewerRows
<1>4. CASE cmd[s].notice # NoNotice
  <2> DEFINE new == [tx |-> Tx(s), notice |-> cmd[s].notice]
  <2>1. txn'[s].notices = txn[s].notices \cup {new}
    BY <1>1, <1>4 DEF Noticed
  <2>2. ~NoticeTaken(s) /\ Admitted(s) /\ MayRun(s) /\ pc[s] = "write"
    BY DEF ApplyTransition, Possible, Continue
  <2>3. \A p \in outbox \cup txn[s].notices : p.notice # cmd[s].notice
    BY <2>2 DEF NoticeTaken
  <2>4. \A v \in Sessions \ {s} : \A p \in txn[v].notices : p.notice # cmd[s].notice
    BY <2>2 DEF MayRun, WaitsFor, Holds
  <2>5. new.notice = cmd[s].notice
    OBVIOUS
  <2> HIDE DEF new
  <2>6. OnePlace(s)'
    <3>1. OnePlace(s)
      BY DEF PlaceInv
    <3> QED
      BY <1>1, <1>2, <2>1, <2>3, <2>4, <2>5, <3>1 DEF OnePlace
  <2>7. ASSUME NEW v \in Sessions \ {s} PROVE OnePlace(v)'
    <3>1. OnePlace(v)
      BY DEF PlaceInv
    <3>2. \A o \in txn[v].notices : o.notice # new.notice
      BY <2>4, <2>5, <2>7
    <3>3. \A o \in txn[v].notices : \A p \in txn'[s].notices : o.notice # p.notice
      BY <2>1, <2>7, <3>1, <3>2 DEF OnePlace
    <3>4. txn'[v] = txn[v]
      BY <1>2, <2>7
    <3> QED
      BY <1>1, <1>2, <3>1, <3>3, <3>4 DEF OnePlace
  <2>8. NoticeHasOneOwner' /\ KeyHasOneEffect'
    BY <1>1 DEF PlaceInv, NoticeHasOneOwner, KeyHasOneEffect
  <2> QED
    BY <2>6, <2>7, <2>8 DEF PlaceInv
<1> QED
  BY <1>3, <1>4

LEMMA StorePlaces ==
  ASSUME TypeOK, PlaceInv, NEW s \in Sessions, StoreReceipt(s)
  PROVE  PlaceInv'
<1> DEFINE new == [tx |-> Tx(s), key |-> cmd[s].key]
<1>1. /\ txn'[s].notices = txn[s].notices
      /\ txn'[s].receipts = txn[s].receipts \cup {new}
      /\ outbox' = outbox /\ command_receipt' = command_receipt
      /\ \A q \in command_receipt : q.key # cmd[s].key
      /\ \A v \in Sessions \ {s} : \A q \in txn[v].receipts : q.key # cmd[s].key
  BY StoreEffect DEF tables
<1>2. \A v \in Sessions \ {s} : txn'[v] = txn[v]
  BY StepsAreLocal DEF OthersKeep
<1>3. new.key = cmd[s].key
  OBVIOUS
<1> HIDE DEF new
<1>4. OnePlace(s)'
  <2>1. OnePlace(s)
    BY DEF PlaceInv
  <2> QED
    BY <1>1, <1>2, <1>3, <2>1 DEF OnePlace
<1>5. ASSUME NEW v \in Sessions \ {s} PROVE OnePlace(v)'
  <2>1. OnePlace(v)
    BY DEF PlaceInv
  <2>2. \A r \in txn[v].receipts : \A q \in txn'[s].receipts : r.key # q.key
    BY <1>1, <1>3, <1>5, <2>1 DEF OnePlace
  <2>3. txn'[v] = txn[v]
    BY <1>2, <1>5
  <2> QED
    BY <1>1, <1>2, <2>1, <2>2, <2>3 DEF OnePlace
<1>6. NoticeHasOneOwner' /\ KeyHasOneEffect'
  BY <1>1 DEF PlaceInv, NoticeHasOneOwner, KeyHasOneEffect
<1> QED
  BY <1>4, <1>5, <1>6 DEF PlaceInv

LEMMA CommitPlaces ==
  ASSUME TypeOK, WholeInv, PlaceInv, NEW s \in Sessions, Commit(s)
  PROVE  PlaceInv'
<1>1. /\ outbox' = outbox \cup txn[s].notices
      /\ command_receipt' = command_receipt \cup txn[s].receipts
      /\ txn'[s].notices = {} /\ txn'[s].receipts = {}
  BY CommitEffect, EndEffect DEF NoTxn
<1>2. \A v \in Sessions \ {s} : txn'[v] = txn[v]
  BY StepsAreLocal DEF OthersKeep
<1>3. OnePlace(s) /\ OwnRows(s)
  BY DEF PlaceInv, WholeInv
<1>4. OnePlace(s)'
  BY <1>1 DEF OnePlace
<1>5. ASSUME NEW v \in Sessions \ {s} PROVE OnePlace(v)'
  <2>1. OnePlace(v) /\ txn'[v] = txn[v]
    BY <1>2, <1>5 DEF PlaceInv
  <2> QED
    BY <1>1, <1>2, <2>1 DEF OnePlace
<1>6. NoticeHasOneOwner'
  BY <1>1, <1>3 DEF PlaceInv, NoticeHasOneOwner, OnePlace
<1>7. KeyHasOneEffect'
  <2> SUFFICES ASSUME NEW r \in command_receipt', NEW q \in command_receipt', r.key = q.key
               PROVE  r.tx = q.tx
    BY DEF KeyHasOneEffect
  <2>1. CASE r \in command_receipt /\ q \in command_receipt
    BY <2>1 DEF PlaceInv, KeyHasOneEffect
  <2>2. CASE r \in txn[s].receipts /\ q \in txn[s].receipts
    BY <1>3, <2>2 DEF OwnRows
  <2>3. CASE r \in txn[s].receipts /\ q \in command_receipt
    BY <1>3, <2>3 DEF OnePlace
  <2>4. CASE r \in command_receipt /\ q \in txn[s].receipts
    BY <1>3, <2>4 DEF OnePlace
  <2> QED
    BY <1>1, <2>1, <2>2, <2>3, <2>4
<1> QED
  BY <1>4, <1>5, <1>6, <1>7 DEF PlaceInv

LEMMA PlaceStep ==
  ASSUME TypeOK, LockInv, WholeInv, PlaceInv, [Next]_vars
  PROVE  PlaceInv'
<1>1. ASSUME SameRows PROVE PlaceInv'
  BY <1>1, FewerRows DEF SameRows, SameWrites, tables
<1>2. ASSUME NEW s \in Sessions, OpenTransaction(s) PROVE PlaceInv'
  <2>1. txn'[s].notices = {} /\ txn'[s].receipts = {} /\ UNCHANGED tables
    BY <1>2, OpenView
  <2>2. \A v \in Sessions \ {s} : txn'[v] = txn[v]
    BY <1>2, StepsAreLocal DEF OthersKeep
  <2> QED
    BY <2>1, <2>2, FewerRows DEF tables
<1>3. ASSUME NEW s \in Sessions, Abandon(s) PROVE PlaceInv'
  <2>1. txn'[s].notices = {} /\ txn'[s].receipts = {} /\ UNCHANGED tables
    BY <1>3, EndEffect DEF Abandon, NoTxn
  <2>2. \A v \in Sessions \ {s} : txn'[v] = txn[v]
    BY <1>3, StepsAreLocal DEF OthersKeep
  <2> QED
    BY <2>1, <2>2, FewerRows DEF tables
<1> QED
  BY <1>1, <1>2, <1>3, StepCases, PreparationsKeepRows, PausesKeepRows,
     ApplyPlaces, StorePlaces, CommitPlaces

-----------------------------------------------------------------------------
(***************************************************************************)
(* The chain of moves.                                                     *)
(***************************************************************************)

LEMMA NoMovesChain ==
  ASSUME NEW row
  PROVE  Chain({}, row)
BY DEF Chain

\* A move from where a chain ends makes a chain that ends where the move leads.
LEMMA LongerChain ==
  ASSUME NEW moves \in SUBSET MoveRows, NEW row \in CaseRows, Chain(moves, row),
         ~IsTerminal(row),
         NEW m \in MoveRows, NEW new \in CaseRows,
         m.from = row.state, m.to = new.state,
         m.before = row.version, m.after = row.version + 1,
         new.version = row.version + 1,
         m.to \in TERMINAL_STATES => new.lockedAt = m.at
  PROVE  Chain(moves \cup {m}, new)
<1>1. row.version \in Nat /\ m.before \in Nat /\ m.after \in Nat
  BY DEF CaseRows, MoveRows
<1>2. ASSUME NEW l \in moves
      PROVE  /\ l.before \in Nat /\ l.after \in Nat
             /\ l.after = l.before + 1 /\ l.after <= row.version
             /\ l.after = row.version => l.to = row.state
             /\ l.to \notin TERMINAL_STATES
  <2>1. l.before \in Nat /\ l.after \in Nat /\ l.at # NoTime
    BY <1>2 DEF MoveRows
  <2>2. /\ l.after = l.before + 1 /\ l.after <= row.version
        /\ l.after = row.version => l.to = row.state
        /\ l.to \in TERMINAL_STATES => l.at = row.lockedAt
    BY <1>2 DEF Chain
  <2> QED
    BY <2>1, <2>2 DEF IsTerminal
<1>3. ASSUME NEW k \in moves \cup {m}, NEW l \in moves \cup {m}
      PROVE  /\ k.before = l.before => k = l
             /\ k.after = l.before => k.to = l.from
  <2>1. CASE k \in moves /\ l \in moves
    BY <2>1 DEF Chain
  <2>2. CASE k \in moves /\ l = m
    BY <1>1, <1>2, <2>2
  <2>3. CASE k = m /\ l \in moves
    BY <1>1, <1>2, <2>3
  <2>4. CASE k = m /\ l = m
    BY <1>1, <2>4
  <2> QED
    BY <2>1, <2>2, <2>3, <2>4
<1>4. ASSUME NEW l \in moves \cup {m}
      PROVE  /\ l.after = l.before + 1
             /\ l.after <= new.version
             /\ l.after = new.version => l.to = new.state
             /\ l.to \in TERMINAL_STATES => <<l.after, l.at>> = <<new.version, new.lockedAt>>
  <2>1. CASE l \in moves
    BY <1>1, <1>2, <2>1
  <2>2. CASE l = m
    BY <1>1, <2>2
  <2> QED
    BY <2>1, <2>2
<1> QED
  BY <1>3, <1>4 DEF Chain

\* The moves of a case a session sees.
View(s, c) == CommittedMoves(c) \cup MovesOf(s, c)

ChainOf(c) ==
    /\ Chain(CommittedMoves(c), case_record[c])
    /\ \A s \in Sessions : Chain(View(s, c), Seen(s, c))

LEMMA ChainInit == Init => ChainInv
<1> SUFFICES ASSUME Init, NEW c \in Cases
             PROVE  /\ Chain(CommittedMoves(c), case_record[c])
                    /\ \A s \in Sessions : Chain(CommittedMoves(c) \cup MovesOf(s, c), Seen(s, c))
  BY DEF ChainInv
<1>1. CommittedMoves(c) = {}
  BY DEF Init, CommittedMoves
<1>2. \A s \in Sessions : MovesOf(s, c) = {}
  BY DEF Init, MovesOf, NoTxn
<1> QED
  BY <1>1, <1>2, NoMovesChain

LEMMA ChainKept ==
  ASSUME NEW c \in Cases, ChainOf(c),
         CommittedMoves(c)' = CommittedMoves(c), case_record'[c] = case_record[c],
         \A s \in Sessions : SameView(s, c)
  PROVE  ChainOf(c)'
BY SameViewSeen DEF ChainOf, View, SameView

LEMMA ApplyChain ==
  ASSUME TypeOK, LockInv, NEW s \in Sessions, ApplyTransition(s),
         NEW c \in Cases, ChainOf(c)
  PROVE  ChainOf(c)'
<1>0. PICK d : d = cmd[s].case
  OBVIOUS
<1>1. UNCHANGED tables
  BY <1>0, ApplyEffect
<1>2. CommittedMoves(c)' = CommittedMoves(c) /\ case_record'[c] = case_record[c]
  BY <1>1 DEF tables, CommittedMoves
<1>3. CASE c # d
  BY <1>0, <1>2, <1>3, ApplyView, ChainKept
<1>4. CASE c = d
  <2>1. /\ Seen(s, c)' = NewRow(s)
        /\ MovesOf(s, c)' = MovesOf(s, c) \cup {Move(s)}
        /\ \A v \in Sessions \ {s} : SameView(v, c)
    BY <1>0, <1>4, ApplyView
  <2>2. /\ Seen(s, c) \in CaseRows /\ ~IsTerminal(Seen(s, c))
        /\ NewRow(s) \in CaseRows
        /\ NewRow(s).state = cmd[s].to
        /\ NewRow(s).version = Seen(s, c).version + 1
        /\ cmd[s].to \in TERMINAL_STATES => NewRow(s).lockedAt = txn[s].began
        /\ Move(s) \in MoveRows
        /\ Move(s) = [tx |-> Tx(s), case |-> c, from |-> Seen(s, c).state, to |-> cmd[s].to,
                      before |-> Seen(s, c).version, after |-> Seen(s, c).version + 1,
                      at |-> txn[s].began]
    BY <1>0, <1>4, AppliedRow
  <2>3. /\ Move(s).from = Seen(s, c).state /\ Move(s).to = NewRow(s).state
        /\ Move(s).before = Seen(s, c).version /\ Move(s).after = Seen(s, c).version + 1
        /\ Move(s).to \in TERMINAL_STATES => NewRow(s).lockedAt = Move(s).at
    BY <2>2
  <2>4. View(s, c) \in SUBSET MoveRows
    BY DEF View, CommittedMoves, MovesOf, TypeOK, Transactions
  <2>5. Chain(View(s, c), Seen(s, c))
    BY DEF ChainOf
  <2>6. Chain(View(s, c) \cup {Move(s)}, NewRow(s))
    BY <2>2, <2>3, <2>4, <2>5, LongerChain
  <2>7. View(s, c)' = View(s, c) \cup {Move(s)}
    BY <1>2, <2>1 DEF View
  <2>8. Chain(View(s, c), Seen(s, c))'
    BY <2>1, <2>6, <2>7
  <2>9. ASSUME NEW v \in Sessions \ {s} PROVE Chain(View(v, c), Seen(v, c))'
    BY <1>2, <2>1, SameViewSeen DEF ChainOf, View, SameView
  <2> QED
    BY <1>2, <2>8, <2>9 DEF ChainOf
<1> QED
  BY <1>3, <1>4

\* What a COMMIT makes of a case is what its session saw of it, for everybody.
LEMMA CommitChain ==
  ASSUME TypeOK, LockInv, PromiseInv, NEW s \in Sessions, Commit(s),
         NEW c \in Cases, ChainOf(c)
  PROVE  ChainOf(c)'
<1>1. case_record'[c] = Seen(s, c) /\ CommittedMoves(c)' = View(s, c)
  BY CommitEffect DEF CommittedMoves, MovesOf, View
<1>2. Chain(CommittedMoves(c), case_record[c])'
  BY <1>1 DEF ChainOf
<1>3. ASSUME NEW v \in Sessions, ~Wrote(v, c)', MovesOf(v, c)' = {},
             Seen(v, c)' = case_record'[c]
      PROVE  Chain(View(v, c), Seen(v, c))'
  BY <1>2, <1>3 DEF View
<1>4. Chain(View(s, c), Seen(s, c))'
  <2>1. txn'[s] = NoTxn
    BY CommitEffect, EndEffect
  <2> QED
    BY <1>3, <2>1, EmptyView
<1>5. ASSUME NEW v \in Sessions \ {s} PROVE Chain(View(v, c), Seen(v, c))'
  <2>1. CASE Wrote(v, c)
    <3>1. SameView(v, c) /\ ~Wrote(s, c)
      BY <2>1, CommitView
    <3>2. MovesOf(s, c) = {}
      BY <3>1, NoWritesNoMoves DEF PromiseInv
    <3>3. CommittedMoves(c)' = CommittedMoves(c)
      BY <1>1, <3>2 DEF View
    <3> QED
      BY <3>1, <3>3, SameViewSeen DEF ChainOf, View, SameView
  <2>2. CASE ~Wrote(v, c)
    <3>1. MovesOf(v, c) = {}
      BY <2>2, NoWritesNoMoves DEF PromiseInv
    <3> QED
      BY <1>3, <2>2, <3>1, CommitView
  <2> QED
    BY <2>1, <2>2
<1> QED
  BY <1>2, <1>4, <1>5 DEF ChainOf

LEMMA ChainStep ==
  ASSUME TypeOK, LockInv, PromiseInv, ChainInv, [Next]_vars
  PROVE  ChainInv'
<1> SUFFICES ASSUME NEW c \in Cases PROVE ChainOf(c)'
  BY DEF ChainInv, ChainOf, View
<1>0. ChainOf(c)
  BY DEF ChainInv, ChainOf, View
<1>1. ASSUME SameRows PROVE ChainOf(c)'
  <2>1. case_record'[c] = case_record[c]
    BY <1>1 DEF SameRows, tables
  <2>2. CommittedMoves(c)' = CommittedMoves(c)
    BY <1>1 DEF SameRows, tables, CommittedMoves
  <2>3. ASSUME NEW v \in Sessions PROVE SameView(v, c)
    BY <1>1, SameRowsSameView
  <2> QED
    BY <1>0, <2>1, <2>2, <2>3, ChainKept
<1>2. ASSUME NEW s \in Sessions, StoreReceipt(s) PROVE ChainOf(c)'
  <2>1. UNCHANGED tables
    BY <1>2, StoreEffect
  <2>2. \A v \in Sessions : SameView(v, c)
    BY <1>2, StoreView, OtherViews
  <2> QED
    BY <1>0, <2>1, <2>2, ChainKept DEF tables, CommittedMoves
<1>3. ASSUME NEW s \in Sessions, OpenTransaction(s) \/ Abandon(s) PROVE ChainOf(c)'
  <2>1. UNCHANGED tables
    BY <1>3 DEF OpenTransaction, Abandon
  <2>2. CommittedMoves(c)' = CommittedMoves(c) /\ case_record'[c] = case_record[c]
    BY <2>1 DEF tables, CommittedMoves
  <2>3. Chain(CommittedMoves(c), case_record[c])'
    BY <1>0, <2>2 DEF ChainOf
  <2>4. txn'[s].rows = NoTxn.rows /\ txn'[s].moves = NoTxn.moves
    BY <1>3, OpenView, EndEffect DEF Abandon
  <2>5. Chain(View(s, c), Seen(s, c))'
    BY <2>3, <2>4, EmptyView DEF View
  <2>6. ASSUME NEW v \in Sessions \ {s} PROVE Chain(View(v, c), Seen(v, c))'
    <3>1. SameView(v, c)
      BY <1>3, OtherViews
    <3> QED
      BY <1>0, <2>2, <3>1, SameViewSeen DEF ChainOf, View, SameView
  <2> QED
    BY <2>3, <2>5, <2>6 DEF ChainOf
<1> QED
  BY <1>0, <1>1, <1>2, <1>3, StepCases, PreparationsKeepRows, PausesKeepRows,
     ApplyChain, CommitChain

-----------------------------------------------------------------------------
(***************************************************************************)
(* The slot, and the theorems.                                             *)
(***************************************************************************)

LEMMA SlotInit == Init => SlotHolderIsLive
<1> SUFFICES ASSUME Init, NEW c \in Cases PROVE ~IsTerminal(case_record[c])
  BY DEF SlotHolderIsLive
<1> QED
  BY SeedAssumption DEF Init

\* COMMIT closes a case only together with the release of its slot.
LEMMA CommitSlot ==
  ASSUME TypeOK, PromiseInv, SlotHolderIsLive, NEW s \in Sessions, Commit(s)
  PROVE  SlotHolderIsLive'
<1> SUFFICES ASSUME NEW c \in Cases, active_experiment_slot' = c
             PROVE  ~IsTerminal(case_record'[c])
  BY DEF SlotHolderIsLive, IsTerminal
<1>1. active_experiment_slot = c /\ c \notin txn[s].released
  BY CommitEffect, NamesAssumption
<1>2. case_record'[c] = Seen(s, c)
  BY CommitEffect
<1>3. CASE Wrote(s, c)
  <2>1. Seen(s, c) = txn[s].rows[c]
    BY <1>3 DEF Seen
  <2>2. Promised(s, c)
    BY DEF PromiseInv
  <2> QED
    BY <1>1, <1>2, <1>3, <2>1, <2>2 DEF Promised
<1>4. CASE ~Wrote(s, c)
  BY <1>1, <1>2, <1>4 DEF Seen, SlotHolderIsLive
<1> QED
  BY <1>3, <1>4

LEMMA SlotStep ==
  ASSUME TypeOK, LockInv, PromiseInv, SlotHolderIsLive, [Next]_vars
  PROVE  SlotHolderIsLive'
<1>1. ASSUME UNCHANGED tables PROVE SlotHolderIsLive'
  BY <1>1 DEF SlotHolderIsLive, IsTerminal, tables
<1>2. ASSUME SameRows PROVE UNCHANGED tables
  BY <1>2 DEF SameRows
<1>3. ASSUME NEW s \in Sessions, OpenTransaction(s) \/ Abandon(s) PROVE UNCHANGED tables
  BY <1>3 DEF OpenTransaction, Abandon
<1>4. ASSUME NEW s \in Sessions, StoreReceipt(s) PROVE UNCHANGED tables
  BY <1>4 DEF StoreReceipt
<1>5. ASSUME NEW s \in Sessions, ApplyTransition(s) PROVE UNCHANGED tables
  BY <1>5 DEF ApplyTransition
<1> QED
  BY <1>1, <1>2, <1>3, <1>4, <1>5, StepCases, PreparationsKeepRows, PausesKeepRows,
     CommitSlot

LEMMA Initially == Init => IInv
BY TypeInit, LockInit, PromiseInit, WholeInit, PlaceInit, ChainInit, SlotInit DEF IInv

LEMMA Inductive == IInv /\ [Next]_vars => IInv'
<1> SUFFICES ASSUME IInv, [Next]_vars PROVE IInv'
  OBVIOUS
<1>0. /\ TypeOK /\ LockInv /\ PromiseInv /\ WholeInv
      /\ PlaceInv /\ ChainInv /\ SlotHolderIsLive
  BY DEF IInv
<1>1. TypeOK'
  BY <1>0, TypeStep
<1>2. LockInv'
  BY <1>0, LockStep
<1>3. PromiseInv'
  BY <1>0, <1>1, PromiseStep
<1>4. WholeInv'
  BY <1>0, WholeStep
<1>5. PlaceInv'
  BY <1>0, PlaceStep
<1>6. ChainInv'
  BY <1>0, ChainStep
<1>7. SlotHolderIsLive'
  BY <1>0, SlotStep
<1> QED
  BY <1>1, <1>2, <1>3, <1>4, <1>5, <1>6, <1>7 DEF IInv

\* However many cases, connections, commands and transactions there are, the locks
\* keep every case to one uncommitted version, and the named parts of IInv hold.
THEOREM Invariance == Spec => []IInv
<1> QED
  BY Initially, Inductive, PTL DEF Spec

\* An outcome apply_transition returned inside the caller's open transaction stays
\* good: no other command can take the version it was applied to.
THEOREM PromisesHold == Spec => []PromisesStayGood
<1>1. IInv => PromisesStayGood
  <2> SUFFICES ASSUME TypeOK, LockInv, PromiseInv, NEW s \in Sessions, NEW c \in Cases,
                      Wrote(s, c)
               PROVE  /\ {m.after : m \in MovesOf(s, c)} =
                            case_record[c].version + 1 .. txn[s].rows[c].version
                      /\ Cardinality(MovesOf(s, c)) =
                            txn[s].rows[c].version - case_record[c].version
                      /\ ~IsTerminal(case_record[c])
                      /\ \A v \in Sessions \ {s} : ~Wrote(v, c)
    BY DEF IInv, PromisesStayGood
  <2>1. Seen(s, c) = txn[s].rows[c]
    BY DEF Seen
  <2>2. Promised(s, c)
    BY DEF PromiseInv
  <2>3. \A v \in Sessions \ {s} : ~Wrote(v, c)
    BY DEF LockInv, SessionInv
  <2> QED
    BY <2>1, <2>2, <2>3 DEF Promised
<1> QED
  BY <1>1, Invariance, PTL

\* The caller's COMMIT makes everything its commands did visible at once; a command
\* that was refused on the way, and its savepoint, take nothing of the rest away.
THEOREM TransactionsAreWhole == Spec => []TransactionIsWhole
<1>1. IInv => TransactionIsWhole
  BY DEF IInv, WholeInv
<1> QED
  BY <1>1, Invariance, PTL

\* Of all transactions that store a receipt under one key, at most one commits.
THEOREM KeysHaveOneEffect == Spec => []KeyHasOneEffect
<1>1. IInv => KeyHasOneEffect
  BY DEF IInv, PlaceInv
<1> QED
  BY <1>1, Invariance, PTL

\* No notification is announced by two transactions.
THEOREM NoticesHaveOneOwner == Spec => []NoticeHasOneOwner
<1>1. IInv => NoticeHasOneOwner
  BY DEF IInv, PlaceInv
<1> QED
  BY <1>1, Invariance, PTL

\* The committed state_transition rows of a case are one chain, however callers
\* group their commands into transactions.
THEOREM LedgerIsChained == Spec => []LedgerChains
<1>1. IInv => LedgerChains
  <2> SUFFICES ASSUME TypeOK, ChainInv,
                      NEW l \in state_transition, NEW m \in state_transition,
                      l.case = m.case
               PROVE  /\ l.before = m.before => l = m
                      /\ l.after = m.before => l.to = m.from
    BY DEF IInv, LedgerChains
  <2>1. PICK c \in Cases : c = m.case
    BY DEF TypeOK, MoveRows
  <2>2. l \in CommittedMoves(c) /\ m \in CommittedMoves(c)
    BY <2>1 DEF CommittedMoves
  <2>3. Chain(CommittedMoves(c), case_record[c])
    BY DEF ChainInv
  <2> QED
    BY <2>2, <2>3 DEF Chain
<1> QED
  BY <1>1, Invariance, PTL

\* No transaction moves a case after one has closed it, not even the one that did;
\* its lock keeps the time of the event, and it is out of the slot.
THEOREM ClosedCasesRest == Spec => []ClosedCaseRests
<1>1. IInv => ClosedCaseRests
  <2> SUFFICES ASSUME TypeOK, ChainInv, SlotHolderIsLive
               PROVE  ClosedCaseRests
    BY DEF IInv
  <2>1. ASSUME NEW m \in state_transition, m.to \in TERMINAL_STATES
        PROVE  <<m.after, m.at>> = <<case_record[m.case].version, case_record[m.case].lockedAt>>
    <3>1. PICK c \in Cases : c = m.case
      BY DEF TypeOK, MoveRows
    <3>2. m \in CommittedMoves(c)
      BY <3>1 DEF CommittedMoves
    <3>3. Chain(CommittedMoves(c), case_record[c])
      BY DEF ChainInv
    <3> QED
      BY <2>1, <3>1, <3>2, <3>3 DEF Chain
  <2> QED
    BY <2>1 DEF ClosedCaseRests, SlotHolderIsLive
<1> QED
  BY <1>1, Invariance, PTL

=============================================================================
