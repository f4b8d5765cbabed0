-------------------------- MODULE CallerTransaction --------------------------
(***************************************************************************)
(* apply_transition on a connection whose caller has opened a transaction  *)
(* already: any earlier statement does, a SELECT included, as the count()  *)
(* of the tests.  connection.transaction() is then a savepoint.  An outcome *)
(* is returned when the savepoint is released, the caller may run more     *)
(* commands and store a command_receipt, and one COMMIT or ROLLBACK of its *)
(* own decides about all of them.                                          *)
(*                                                                         *)
(* TransitionProtocol splits a command into its statements; nothing of     *)
(* another session can come between them except where one waits.  Here a   *)
(* command has the three steps around its two waits: it starts, it gets    *)
(* the row lock, and it writes, once nobody holds an uncommitted copy of   *)
(* its notification.  A command announces one notification or none.  A row *)
(* of moves stands for the state_transition row and its event.  The        *)
(* refusals before any read (unknown state, missing case) change nothing   *)
(* and are left to TransitionProtocol.                                     *)
(***************************************************************************)
EXTENDS Naturals, FiniteSets, CaseRecord

CONSTANTS
    Cases, NoCase,
    Sessions,      \* the connections
    NoOne,         \* the holder of a row lock nobody holds
    Targets,       \* to_state values
    Notices,       \* logical_notification_id values
    NoNotice,      \* a command that announces nothing
    Keys,          \* (command_type, idempotency_key) pairs of receipts
    InitialRows,   \* the rows the cases are seeded with
    MaxOpened,     \* bound: transactions one session opens
    MaxCommands,   \* bound: commands in one transaction
    MaxClock       \* bound: the last reading of the server's clock

ASSUME NamesAssumption ==
    NoCase \notin Cases /\ NoOne \notin Sessions /\ NoNotice \notin Notices
ASSUME SeedAssumption ==
    InitialRows \subseteq {r \in CaseRows : r.version > 0 /\ ~IsTerminal(r)}
ASSUME TargetAssumption == Targets \subseteq STATES

VARIABLES
    case_record, active_experiment_slot, state_transition, outbox,
    command_receipt,   \* the committed tables
    lock, clock, pc, cmd, txn,
    opened,            \* how many transactions each session has opened
    committed,         \* the transactions whose COMMIT succeeded
    told               \* the outcomes returned to callers

tables == <<case_record, active_experiment_slot, state_transition, outbox, command_receipt>>
vars == <<tables, lock, clock, pc, cmd, txn, opened, committed, told>>

-----------------------------------------------------------------------------
NoRow == [state |-> "INTAKE", status |-> NULL, version |-> 0,
          lockedAt |-> NoTime, hold |-> FALSE]

\* fresh: the savepoint of the command took the row lock.
NoCmd == [case |-> NoCase, expected |-> 0, to |-> "INTAKE", notice |-> NoNotice,
          facts |-> NoRow, fresh |-> FALSE, key |-> NULL]

\* began: now() of every statement; rows: the case rows it has written.
NoTxn == [began |-> NoTime, rows |-> [c \in Cases |-> NoRow], moves |-> {},
          notices |-> {}, receipts |-> {}, released |-> {}, commands |-> 0]

Tx(s) == <<s, opened[s]>>

Init ==
    /\ case_record \in [Cases -> InitialRows]
    /\ active_experiment_slot \in Cases \cup {NoCase}
    /\ state_transition = {}
    /\ outbox = {}
    /\ command_receipt = {}
    /\ lock = [c \in Cases |-> NoOne]
    /\ clock = 1
    /\ pc = [s \in Sessions |-> "idle"]
    /\ cmd = [s \in Sessions |-> NoCmd]
    /\ txn = [s \in Sessions |-> NoTxn]
    /\ opened = [s \in Sessions |-> 0]
    /\ committed = {}
    /\ told = {}

Wrote(s, c) == txn[s].rows[c] # NoRow

\* A transaction reads its own writes over the last committed row.
Seen(s, c) == IF Wrote(s, c) THEN txn[s].rows[c] ELSE case_record[c]

Continue(s, from, to) == pc[s] = from /\ pc' = [pc EXCEPT ![s] = to]

-----------------------------------------------------------------------------
(***************************************************************************)
(* The caller.                                                             *)
(***************************************************************************)

OpenTransaction(s) ==
    /\ Continue(s, "idle", "open")
    /\ opened[s] < MaxOpened
    /\ opened' = [opened EXCEPT ![s] = @ + 1]
    /\ txn' = [txn EXCEPT ![s] = [NoTxn EXCEPT !.began = clock]]
    /\ UNCHANGED <<tables, lock, clock, cmd, committed, told>>

\* The caller expects the version it sees now.
StartCommand(s) ==
    /\ Continue(s, "open", "lock")
    /\ txn[s].commands < MaxCommands
    /\ \E c \in Cases, to \in Targets, n \in Notices \cup {NoNotice} :
          cmd' = [cmd EXCEPT ![s] = [NoCmd EXCEPT
                    !.case = c, !.expected = Seen(s, c).version, !.to = to, !.notice = n]]
    /\ txn' = [txn EXCEPT ![s].commands = @ + 1]
    /\ UNCHANGED <<tables, lock, clock, opened, committed, told>>

StartReceipt(s) ==
    /\ Continue(s, "open", "receipt")
    /\ \E k \in Keys : cmd' = [cmd EXCEPT ![s] = [NoCmd EXCEPT !.key = k]]
    /\ UNCHANGED <<tables, lock, clock, txn, opened, committed, told>>

\* Mutant of Freed: the locks outlive the transaction.
NotFreed(s) == lock

Freed(s) == [c \in Cases |-> IF lock[c] = s THEN NoOne ELSE lock[c]]

\* The end of the transaction: its locks go, and its private writes with it.
End(s) ==
    /\ pc' = [pc EXCEPT ![s] = "idle"]
    /\ txn' = [txn EXCEPT ![s] = NoTxn]
    /\ lock' = Freed(s)
    /\ UNCHANGED <<clock, cmd, opened, told>>

Commit(s) ==
    /\ pc[s] = "open"
    /\ End(s)
    /\ case_record' = [c \in Cases |-> Seen(s, c)]
    /\ active_experiment_slot' =
          IF active_experiment_slot \in txn[s].released
          THEN NoCase ELSE active_experiment_slot
    /\ state_transition' = state_transition \cup txn[s].moves
    /\ outbox' = outbox \cup txn[s].notices
    /\ command_receipt' = command_receipt \cup txn[s].receipts
    /\ committed' = committed \cup {Tx(s)}

\* The caller rolls back or closes the connection, or the connection dies.
Abandon(s) ==
    /\ pc[s] # "idle"
    /\ End(s)
    /\ UNCHANGED <<tables, committed>>

-----------------------------------------------------------------------------
(***************************************************************************)
(* apply_transition.                                                       *)
(***************************************************************************)

\* Mutant of LoadCaseFacts: SELECT without FOR UPDATE.
LoadWithoutLock(s) ==
    /\ Continue(s, "lock", "write")
    /\ cmd' = [cmd EXCEPT ![s].facts = Seen(s, cmd[s].case)]
    /\ UNCHANGED <<tables, lock, clock, txn, opened, committed, told>>

LoadCaseFacts(s) ==
    LET c == cmd[s].case IN
    /\ Continue(s, "lock", "write")
    /\ lock[c] \in {NoOne, s}
    /\ lock' = [lock EXCEPT ![c] = s]
    /\ cmd' = [cmd EXCEPT ![s].facts = Seen(s, c), ![s].fresh = (lock[c] = NoOne)]
    /\ UNCHANGED <<tables, clock, txn, opened, committed, told>>

\* ROLLBACK TO SAVEPOINT releases what was locked after the savepoint.
LocksAfter(s) == IF cmd[s].fresh THEN [lock EXCEPT ![cmd[s].case] = NoOne] ELSE lock

\* Mutant of RollbackToSavepoint: the whole transaction is rolled back.
RollbackAll(s) ==
    /\ pc' = [pc EXCEPT ![s] = "open"]
    /\ lock' = Freed(s)
    /\ txn' = [txn EXCEPT ![s] = [NoTxn EXCEPT !.began = txn[s].began,
                                              !.commands = txn[s].commands]]
    /\ UNCHANGED <<tables, clock, cmd, opened, committed, told>>

\* An exception leaves the with block: the rest of the transaction stands.
RollbackToSavepoint(s) ==
    /\ pc' = [pc EXCEPT ![s] = "open"]
    /\ lock' = LocksAfter(s)
    /\ UNCHANGED <<tables, clock, cmd, txn, opened, committed, told>>

Admitted(s) == Admission(cmd[s].expected, cmd[s].facts) = "admitted"

\* Mutant of NoticeTaken: logical_notification_id is not unique over the table.
NoticeTakenHere(s) == cmd[s].notice \in {o.notice : o \in txn[s].notices}

NoticeTaken(s) == cmd[s].notice \in {o.notice : o \in outbox \cup txn[s].notices}

Holds(v, n) == n \in {o.notice : o \in txn[v].notices}
Stored(v, k) == k \in {r.key : r \in txn[v].receipts}

WaitsFor(s, v) ==
    /\ v # s
    /\ \/ pc[s] = "lock" /\ lock[cmd[s].case] = v
       \/ pc[s] = "write" /\ Admitted(s) /\ Holds(v, cmd[s].notice)
       \/ pc[s] = "receipt" /\ Stored(v, cmd[s].key)

MayRun(s) == \A v \in Sessions : ~WaitsFor(s, v)

\* Mutant of NewRow: terminal_locked_at is the time of the statement.
RowOfStatementTime(s) ==
    Projected(Seen(s, cmd[s].case), cmd[s].to, cmd[s].facts.version + 1, clock)

\* The row the UPDATE makes of the one the transaction sees.
NewRow(s) ==
    Projected(Seen(s, cmd[s].case), cmd[s].to, cmd[s].facts.version + 1, txn[s].began)

\* Every check passes and the notification is free, as far as is known now.
Possible(s) ==
    /\ Admitted(s)
    /\ UpdateAdmitted(Seen(s, cmd[s].case), NewRow(s))
    /\ ~NoticeTaken(s)

\* The guards pass, the rows are written, the savepoint is released.
ApplyTransition(s) ==
    LET c == cmd[s].case
        new == NewRow(s)
        move == [tx |-> Tx(s), case |-> c, from |-> cmd[s].facts.state, to |-> cmd[s].to,
                 before |-> cmd[s].facts.version, after |-> new.version,
                 at |-> txn[s].began]
        noticed == IF cmd[s].notice = NoNotice THEN {}
                   ELSE {[tx |-> Tx(s), notice |-> cmd[s].notice]}
    IN
    /\ Continue(s, "write", "open")
    /\ Possible(s) /\ MayRun(s)
    /\ txn' = [txn EXCEPT ![s].rows[c] = new,
                          ![s].moves = @ \cup {move},
                          ![s].notices = @ \cup noticed,
                          ![s].released = IF IsTerminal(new) THEN @ \cup {c} ELSE @]
    /\ told' = told \cup {move}
    /\ UNCHANGED <<tables, lock, clock, cmd, opened, committed>>

RefuseTransition(s) ==
    /\ pc[s] = "write"
    /\ ~Possible(s)
    /\ RollbackToSavepoint(s)

\* A guard rejects, or raises.
RejectByGuard(s) ==
    /\ pc[s] = "write"
    /\ Admitted(s)
    /\ RollbackToSavepoint(s)

-----------------------------------------------------------------------------
(***************************************************************************)
(* INSERT INTO command_receipt: unique over the table.  A failure outside  *)
(* of a savepoint leaves the transaction nothing but ROLLBACK.             *)
(***************************************************************************)

\* Mutant of ReceiptTaken: the key is looked up in the caller's own transaction only.
ReceiptTakenHere(s) == cmd[s].key \in {r.key : r \in txn[s].receipts}

ReceiptTaken(s) == cmd[s].key \in {r.key : r \in command_receipt \cup txn[s].receipts}

StoreReceipt(s) ==
    /\ Continue(s, "receipt", "open")
    /\ ~ReceiptTaken(s) /\ MayRun(s)
    /\ txn' = [txn EXCEPT ![s].receipts = @ \cup {[tx |-> Tx(s), key |-> cmd[s].key]}]
    /\ UNCHANGED <<tables, lock, clock, cmd, opened, committed, told>>

RefuseReceipt(s) ==
    /\ pc[s] = "receipt"
    /\ ReceiptTaken(s)
    /\ Abandon(s)

-----------------------------------------------------------------------------
\* Two sessions that wait for each other, or a longer cycle.
Deadlocked(s) ==
    \E S \in SUBSET Sessions :
        /\ s \in S
        /\ \A x \in S : (\E y \in S : WaitsFor(x, y)) /\ (\E y \in S : WaitsFor(y, x))

\* The deadlock detector fails one statement of the cycle.
AbortDeadlocked(s) ==
    /\ Deadlocked(s)
    /\ IF pc[s] = "receipt" THEN Abandon(s) ELSE RollbackToSavepoint(s)

Tick ==
    /\ clock < MaxClock
    /\ clock' = clock + 1
    /\ UNCHANGED <<tables, lock, pc, cmd, txn, opened, committed, told>>

\* What a session and the server do next once nobody is waited for.
Proceed(s) ==
    \/ ApplyTransition(s)
    \/ RefuseTransition(s)
    \/ StoreReceipt(s)
    \/ RefuseReceipt(s)

Next ==
    \/ \E s \in Sessions :
          \/ OpenTransaction(s)
          \/ StartCommand(s)
          \/ StartReceipt(s)
          \/ Commit(s)
          \/ Abandon(s)
          \/ LoadCaseFacts(s)
          \/ RejectByGuard(s)
          \/ Proceed(s)
          \/ AbortDeadlocked(s)
    \/ Tick

Spec == Init /\ [][Next]_vars

(***************************************************************************)
(* The statements run when they can, lock waiters queue in order, and a    *)
(* caller ends its transaction: the tests close every connection, in a     *)
(* finally block or a fixture.  Without the last a caller that keeps its   *)
(* transaction open keeps every other command for its cases waiting.       *)
(***************************************************************************)
Fairness ==
    \A s \in Sessions :
        /\ WF_vars(Proceed(s))
        /\ SF_vars(LoadCaseFacts(s))
        /\ SF_vars(ApplyTransition(s) \/ StoreReceipt(s))
        /\ WF_vars(AbortDeadlocked(s))
        /\ WF_vars(pc[s] = "open" /\ (Commit(s) \/ Abandon(s)))

FairSpec == Spec /\ Fairness

-----------------------------------------------------------------------------
(***************************************************************************)
(* What holds of a command inside a transaction of its caller.             *)
(***************************************************************************)

MovesOf(s, c) == {m \in txn[s].moves : m.case = c}

\* An outcome returned inside an open transaction stays good until the end of
\* it: the committed row is still the one its first command for the case left,
\* its commands continue the committed ledger without a gap, and COMMIT cannot
\* meet a version another session has taken.
PromisesStayGood ==
    \A s \in Sessions, c \in Cases :
        Wrote(s, c) =>
            /\ {m.after : m \in MovesOf(s, c)} =
                  case_record[c].version + 1 .. txn[s].rows[c].version
            /\ Cardinality(MovesOf(s, c)) = txn[s].rows[c].version - case_record[c].version
            /\ ~IsTerminal(case_record[c])
            /\ \A v \in Sessions \ {s} : ~Wrote(v, c)

\* A transaction is visible as a whole: every outcome its caller was told, with
\* its notifications and receipts, or, without a COMMIT, nothing of it, whatever
\* other commands of the transaction were refused.
TransactionIsWhole ==
    /\ \A m \in told : m \in state_transition <=> m.tx \in committed
    /\ state_transition \subseteq told
    /\ \A row \in outbox \cup command_receipt : row.tx \in committed

\* Two transactions that store a receipt under one key do not both commit, so
\* what is applied together with its receipt is applied once, however the
\* copies of a command race.
KeyHasOneEffect ==
    \A r, q \in command_receipt : r.key = q.key => r.tx = q.tx

\* No two transactions announce one notification.
NoticeHasOneOwner ==
    \A o, p \in outbox : o.notice = p.notice => o = p

\* The committed moves of a case are one chain.
LedgerChains ==
    \A l, m \in state_transition :
        l.case = m.case =>
            /\ l.before = m.before => l = m
            /\ l.after = m.before => l.to = m.from

\* A case that became terminal is moved by nobody, the transaction that closed
\* it included; its lock carries the time of the event; it leaves the slot.
ClosedCaseRests ==
    /\ \A m \in state_transition :
          LET row == case_record[m.case] IN
          m.to \in TERMINAL_STATES => <<m.after, m.at>> = <<row.version, row.lockedAt>>
    /\ \A c \in Cases : active_experiment_slot = c => ~IsTerminal(case_record[c])

\* Every statement returns: neither two transactions that lock two cases in
\* opposite orders nor a rolled back savepoint leaves a command waiting forever.
EveryStatementReturns ==
    \A s \in Sessions :
        pc[s] \in {"lock", "write", "receipt"} ~> pc[s] \in {"open", "idle"}

=============================================================================
