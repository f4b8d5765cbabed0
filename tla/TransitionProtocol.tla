------------------------- MODULE TransitionProtocol -------------------------
(***************************************************************************)
(* pls.state_machine.apply_transition, executed by several workers at once *)
(* over one PostgreSQL database.                                           *)
(*                                                                         *)
(* A worker runs one command at a time, each in a top-level READ COMMITTED *)
(* transaction.  The step boundaries are the statements the function sends *)
(* to the server, so that other workers, the other writers of case_record  *)
(* and of active_experiment_slot, and a crash may come between any two of  *)
(* them.  The writes of a transaction are private (txn[w]) until Commit    *)
(* applies them all; Rollback drops them all.                              *)
(*                                                                         *)
(* The server is modelled from how the code uses it: row locks, unique     *)
(* indexes that make an inserter wait for an uncommitted duplicate, the    *)
(* deadlock detector, and now(), which is the start of the transaction.    *)
(***************************************************************************)
EXTENDS Naturals, Sequences, FiniteSets, CaseRecord

CONSTANTS
    Cases,         \* the cases that have a row in case_record
    NoCase,        \* an id no row carries; also the content of an empty slot
    Workers,       \* the database sessions that execute commands
    NoOne,         \* the holder of a row lock nobody holds
    Targets,       \* the to_state values commands carry
    Notices,       \* logical_notification_id values
    Batches,       \* the notification lists commands carry
    InitialRows,   \* the rows the cases are seeded with
    Deleters,      \* the workers whose role may DELETE FROM active_experiment_slot
    MaxAttempts,   \* bound: commands one worker executes, retries included
    MaxClock       \* bound: the last reading of the server's clock

ASSUME CaseAssumption == NoCase \notin Cases
ASSUME WorkerAssumption == NoOne \notin Workers
ASSUME BatchAssumption == Batches \subseteq Seq(Notices)
\* Rows as the tests insert them: consistent columns, and no later than now.
ASSUME SeedAssumption ==
    InitialRows \subseteq
        {r \in CaseRows : /\ r.lockedAt \in {NoTime, 1}
                          /\ IsTerminal(r) <=> r.state \in TERMINAL_STATES
                          /\ r.status = IF r.state \in STATUS_STATES
                                        THEN r.state ELSE NULL
                          /\ ~r.hold}
ASSUME PrivilegeAssumption == Deleters \subseteq Workers
ASSUME BoundAssumption == MaxAttempts \in Nat /\ MaxClock \in Nat \ {0}

VARIABLES
    case_record,            \* committed row of each case
    active_experiment_slot, \* case of the only row, or NoCase
    event,                  \* committed rows of event
    state_transition,       \* committed rows of state_transition
    outbox,                 \* committed rows of outbox
    lock,                   \* holder of each case's FOR UPDATE row lock
    clock,                  \* the server's clock
    pc,                     \* the statement each worker executes next
    cmd,                    \* the command it executes, or executed last
    txn,                    \* its transaction: what it read and its writes
    attempts,               \* how many commands it has executed
    reply                   \* what the caller was told of the last one

tables == <<case_record, active_experiment_slot, event, state_transition, outbox>>
vars == <<tables, lock, clock, pc, cmd, txn, attempts, reply>>

-----------------------------------------------------------------------------
(***************************************************************************)
(* Rows, commands and transactions.                                        *)
(***************************************************************************)

\* A fresh UUIDv7 per execution: the worker and the number of its command.
Ids == Workers \X Nat

EventRows == [id : Ids, case : Cases, at : Nat]

TransitionRows ==
    [case : Cases, event : Ids, from : STATES, to : STATES,
     before : Nat, after : Nat]

OutboxRows == [notice : Notices, case : Cases, event : Ids]

Commands ==
    [case : Cases \cup {NoCase}, expected : Nat, to : STATES, notices : Seq(Notices)]

NoCmd == [case |-> NoCase, expected |-> 0, to |-> "INTAKE", notices |-> <<>>]

NoRow == [state |-> "INTAKE", status |-> NULL, version |-> 0,
          lockedAt |-> NoTime, hold |-> FALSE]

\* began: now(); facts: the row load_case_facts returned; row: the version
\* of the case row the transaction has written; left: the notifications it
\* still has to insert; the rest are its new rows and the slot rows it deleted.
NoTxn == [began |-> NoTime, facts |-> NoRow, row |-> NoRow, left |-> <<>>,
          events |-> {}, transitions |-> {}, outbox |-> {}, released |-> {}]

Transactions ==
    [began : Nat, facts : CaseRows, row : CaseRows, left : Seq(Notices),
     events : SUBSET EventRows, transitions : SUBSET TransitionRows,
     outbox : SUBSET OutboxRows, released : SUBSET Cases]

Steps == {"idle", "load", "check", "append_event", "append_transition",
          "update_projection", "append_outbox"}

\* The exceptions apply_transition may end with; each rolls back.
Refusals == {"unknown state", "missing", "version conflict", "terminal", "hold",
             "guard", "error", "denied", "duplicate notice", "deadlock"}
\* "lost": the connection broke, and the caller knows nothing.
Replies == Refusals \cup {"none", "committed", "lost"}

Now(w) == txn[w].began
Id(w) == <<w, attempts[w]>>

TypeOK ==
    /\ case_record \in [Cases -> CaseRows]
    /\ active_experiment_slot \in Cases \cup {NoCase}
    /\ event \subseteq EventRows
    /\ state_transition \subseteq TransitionRows
    /\ outbox \subseteq OutboxRows
    /\ lock \in [Cases -> Workers \cup {NoOne}]
    /\ clock \in 1 .. MaxClock
    /\ pc \in [Workers -> Steps]
    /\ cmd \in [Workers -> Commands]
    /\ txn \in [Workers -> Transactions]
    /\ attempts \in [Workers -> 0 .. MaxAttempts]
    /\ reply \in [Workers -> Replies]

Init ==
    /\ case_record \in [Cases -> InitialRows]
    /\ active_experiment_slot = NoCase
    /\ event = {}
    /\ state_transition = {}
    /\ outbox = {}
    /\ lock = [c \in Cases |-> NoOne]
    /\ clock = 1
    /\ pc = [w \in Workers |-> "idle"]
    /\ cmd = [w \in Workers |-> NoCmd]
    /\ txn = [w \in Workers |-> NoTxn]
    /\ attempts = [w \in Workers |-> 0]
    /\ reply = [w \in Workers |-> "none"]

-----------------------------------------------------------------------------
(***************************************************************************)
(* apply_transition, statement by statement.                               *)
(***************************************************************************)


Released(w) == [c \in Cases |-> IF lock[c] = w THEN NoOne ELSE lock[c]]

\* An exception leaves the `with connection.transaction()` block.
Rollback(w, r) ==
    /\ pc' = [pc EXCEPT ![w] = "idle"]
    /\ txn' = [txn EXCEPT ![w] = NoTxn]
    /\ lock' = Released(w)
    /\ reply' = [reply EXCEPT ![w] = r]
    /\ UNCHANGED <<tables, clock, cmd, attempts>>

Continue(w, from, to) == pc[w] = from /\ pc' = [pc EXCEPT ![w] = to]

\* The versions a caller that read the committed row may expect.
VersionsRead(c) == IF c \in Cases THEN 0 .. case_record[c].version ELSE {0}

MayStart(w) == pc[w] = "idle" /\ attempts[w] < MaxAttempts

\* Mutant of KnownTargets: the check of to_state is missing.
AnyTarget == Targets

\* if command.to_state not in STATES: raise UnknownState
KnownTargets == Targets \cap STATES

RefuseUnknownState(w) ==
    /\ MayStart(w)
    /\ KnownTargets # Targets
    /\ cmd' = [cmd EXCEPT ![w] = NoCmd]
    /\ attempts' = [attempts EXCEPT ![w] = @ + 1]
    /\ reply' = [reply EXCEPT ![w] = "unknown state"]
    /\ UNCHANGED <<tables, lock, clock, pc, txn>>

BeginTransaction(w) ==
    /\ MayStart(w)
    /\ Continue(w, "idle", "load")
    /\ \E c \in Cases \cup {NoCase}, to \in KnownTargets, batch \in Batches :
         \E expected \in VersionsRead(c) :
           /\ cmd' = [cmd EXCEPT ![w] = [case |-> c, expected |-> expected,
                                         to |-> to, notices |-> batch]]
           /\ txn' = [txn EXCEPT ![w].began = clock, ![w].left = batch]
    /\ attempts' = [attempts EXCEPT ![w] = @ + 1]
    /\ reply' = [reply EXCEPT ![w] = "none"]
    /\ UNCHANGED <<tables, lock, clock>>

CaseMissing(w) ==
    /\ pc[w] = "load"
    /\ cmd[w].case \notin Cases
    /\ Rollback(w, "missing")

\* Mutant of LoadCaseFacts: SELECT without FOR UPDATE.
LoadWithoutLock(w) ==
    /\ Continue(w, "load", "check")
    /\ cmd[w].case \in Cases
    /\ txn' = [txn EXCEPT ![w].facts = case_record[cmd[w].case]]
    /\ UNCHANGED <<tables, lock, clock, cmd, attempts, reply>>

\* SELECT ... FOR UPDATE waits for the row lock, then reads the last
\* committed version of the row.
LoadCaseFacts(w) ==
    LET c == cmd[w].case IN
    /\ Continue(w, "load", "check")
    /\ c \in Cases
    /\ lock[c] = NoOne
    /\ lock' = [lock EXCEPT ![c] = w]
    /\ txn' = [txn EXCEPT ![w].facts = case_record[c]]
    /\ UNCHANGED <<tables, clock, cmd, attempts, reply>>

CheckFacts(w) ==
    LET verdict == Admission(cmd[w].expected, txn[w].facts) IN
    /\ pc[w] = "check"
    /\ verdict # "admitted"
    /\ Rollback(w, verdict)

\* Guards are callables of the facts and now(): any verdict, or an exception.
RejectByGuard(w) ==
    /\ pc[w] = "check"
    /\ Admission(cmd[w].expected, txn[w].facts) = "admitted"
    /\ \E r \in {"guard", "error"} : Rollback(w, r)

PassGuards(w) ==
    /\ Continue(w, "check", "append_event")
    /\ Admission(cmd[w].expected, txn[w].facts) = "admitted"
    /\ UNCHANGED <<tables, lock, clock, cmd, txn, attempts, reply>>

AppendEvent(w) ==
    /\ Continue(w, "append_event", "append_transition")
    /\ txn' = [txn EXCEPT ![w].events =
                 {[id |-> Id(w), case |-> cmd[w].case, at |-> Now(w)]}]
    /\ UNCHANGED <<tables, lock, clock, cmd, attempts, reply>>

\* Mutant of TransitionRow: the two states are swapped.
SwappedStates(w) ==
    [case |-> cmd[w].case, event |-> Id(w),
     from |-> cmd[w].to, to |-> txn[w].facts.state,
     before |-> txn[w].facts.version, after |-> txn[w].facts.version + 1]

TransitionRow(w) ==
    [case |-> cmd[w].case, event |-> Id(w),
     from |-> txn[w].facts.state, to |-> cmd[w].to,
     before |-> txn[w].facts.version, after |-> txn[w].facts.version + 1]

\* StateTransitionRecord.__post_init__ and ck_state_transition_genesis, for a
\* row that has a from_state: only genesis may leave version 0.
WellFormed(t) == t.before # 0 /\ t.after = t.before + 1

\* UNIQUE (case_id, case_version_after)
VersionTaken(t) ==
    \E s \in state_transition : s.case = t.case /\ s.after = t.after

AppendTransition(w) ==
    LET t == TransitionRow(w) IN
    /\ Continue(w, "append_transition", "update_projection")
    /\ WellFormed(t)
    /\ ~VersionTaken(t)
    /\ txn' = [txn EXCEPT ![w].transitions = {t}]
    /\ UNCHANGED <<tables, lock, clock, cmd, attempts, reply>>

RefuseTransition(w) ==
    LET t == TransitionRow(w) IN
    /\ pc[w] = "append_transition"
    /\ ~WellFormed(t) \/ VersionTaken(t)
    /\ Rollback(w, "error")

\* Mutant of UpdatedRow: the version is incremented twice.
UpdatedTwice(w) ==
    Projected(case_record[cmd[w].case], cmd[w].to, TransitionRow(w).after + 1, Now(w))

\* The row the UPDATE writes; TransitionRow(w).after is version_after.
UpdatedRow(w) ==
    Projected(case_record[cmd[w].case], cmd[w].to, TransitionRow(w).after, Now(w))

\* Mutant of SlotRowsDeleted: the slot is not released.
SlotRowsKept(w) == {}

\* DELETE FROM active_experiment_slot, executed for a terminal target only.
SlotRowsDeleted(w) == IF cmd[w].to \in TERMINAL_STATES THEN {cmd[w].case} ELSE {}
DeleteDenied(w) == cmd[w].to \in TERMINAL_STATES /\ w \notin Deleters

UpdateProjection(w) ==
    /\ Continue(w, "update_projection", "append_outbox")
    /\ UpdateAdmitted(case_record[cmd[w].case], UpdatedRow(w))
    /\ ~DeleteDenied(w)
    /\ txn' = [txn EXCEPT ![w].row = UpdatedRow(w),
                          ![w].released = SlotRowsDeleted(w)]
    /\ UNCHANGED <<tables, lock, clock, cmd, attempts, reply>>

RefuseUpdate(w) ==
    LET admitted == UpdateAdmitted(case_record[cmd[w].case], UpdatedRow(w)) IN
    /\ pc[w] = "update_projection"
    /\ ~(admitted /\ ~DeleteDenied(w))
    /\ Rollback(w, IF admitted THEN "denied" ELSE "error")

-----------------------------------------------------------------------------
(***************************************************************************)
(* The loop over command.notifications.  logical_notification_id is unique *)
(* over the whole table: an INSERT fails on a committed duplicate, and on  *)
(* one of the same transaction, and waits for another transaction's        *)
(* uncommitted duplicate to be committed or rolled back.                   *)
(***************************************************************************)

InFlight(w) == {o.notice : o \in txn[w].outbox}
Sending(w) == pc[w] = "append_outbox" /\ txn[w].left # <<>>
\* Mutant of NoticeTaken: unique in each case, not over the table.
NoticeTakenByCase(w) ==
    Head(txn[w].left) \in InFlight(w) \cup
        {o.notice : o \in {p \in outbox : p.case = cmd[w].case}}

NoticeTaken(w) ==
    Head(txn[w].left) \in InFlight(w) \cup {o.notice : o \in outbox}

WaitsFor(w, v) ==
    /\ v # w
    /\ Sending(w)
    /\ Head(txn[w].left) \in InFlight(v)

AppendOutbox(w) ==
    /\ Sending(w)
    /\ ~NoticeTaken(w)
    /\ \A v \in Workers : ~WaitsFor(w, v)
    /\ txn' = [txn EXCEPT ![w].outbox = @ \cup
                   {[notice |-> Head(txn[w].left), case |-> cmd[w].case,
                     event |-> Id(w)]},
                 ![w].left = Tail(@)]
    /\ UNCHANGED <<tables, lock, clock, pc, cmd, attempts, reply>>

RefuseNotice(w) ==
    /\ Sending(w)
    /\ NoticeTaken(w)
    /\ Rollback(w, "duplicate notice")

\* w is on a cycle of transactions that wait for each other.
Deadlocked(w) ==
    \E S \in SUBSET Workers :
        /\ w \in S
        /\ \A x \in S : /\ \E y \in S : WaitsFor(x, y)
                        /\ \E y \in S : WaitsFor(y, x)

\* The server's deadlock detector aborts one transaction of the cycle.
AbortDeadlocked(w) ==
    /\ Deadlocked(w)
    /\ Rollback(w, "deadlock")

\* Mutant of Sent: the transaction ends before the loop does.
SentOrNot(w) == TRUE

Sent(w) == txn[w].left = <<>>

\* COMMIT; the caller learns of it unless the connection breaks first.
Commit(w) ==
    LET c == cmd[w].case IN
    /\ Continue(w, "append_outbox", "idle")
    /\ Sent(w)
    /\ case_record' = [case_record EXCEPT ![c] = txn[w].row]
    /\ active_experiment_slot' =
          IF active_experiment_slot \in txn[w].released
          THEN NoCase ELSE active_experiment_slot
    /\ event' = event \cup txn[w].events
    /\ state_transition' = state_transition \cup txn[w].transitions
    /\ outbox' = outbox \cup txn[w].outbox
    /\ txn' = [txn EXCEPT ![w] = NoTxn]
    /\ lock' = Released(w)
    /\ \E r \in {"committed", "lost"} : reply' = [reply EXCEPT ![w] = r]
    /\ UNCHANGED <<clock, cmd, attempts>>

\* The worker, or its connection, dies inside the transaction.
Crash(w) ==
    /\ pc[w] # "idle"
    /\ Rollback(w, "lost")

-----------------------------------------------------------------------------
(***************************************************************************)
(* The other writers, as the tests write them: single-statement            *)
(* transactions that wait for the row lock of the case.                    *)
(***************************************************************************)

workerState == <<pc, cmd, txn, attempts, reply>>

\* UPDATE case_record SET diagnostic_hold = true, together with the version
\* the trigger asks for on a case that is not terminal.
HeldRow(row) ==
    [row EXCEPT !.hold = TRUE, !.version = IF IsTerminal(row) THEN @ ELSE @ + 1]

EnterHold(c) ==
    /\ lock[c] = NoOne
    /\ ~case_record[c].hold
    /\ case_record' = [case_record EXCEPT ![c] = HeldRow(case_record[c])]
    /\ UNCHANGED <<active_experiment_slot, event, state_transition, outbox,
                   lock, clock, workerState>>

\* INSERT INTO active_experiment_slot: the only row; its foreign key check waits
\* for the row lock.  That the case runs is not checked by the statement or by the
\* schema.  It is assumed of who executes it: the slot is claimed in the transaction
\* that creates the case (docs/17-state-gate-authority-tech-spec-v0.3.md 3.7).
ClaimSlot(c) ==
    /\ lock[c] = NoOne
    /\ active_experiment_slot = NoCase
    /\ ~IsTerminal(case_record[c])
    /\ active_experiment_slot' = c
    /\ UNCHANGED <<case_record, event, state_transition, outbox,
                   lock, clock, workerState>>

Tick ==
    /\ clock < MaxClock
    /\ clock' = clock + 1
    /\ UNCHANGED <<tables, lock, workerState>>

\* Every worker has executed the commands the bound allows.
Finished ==
    /\ \A w \in Workers : pc[w] = "idle" /\ attempts[w] = MaxAttempts
    /\ UNCHANGED vars

-----------------------------------------------------------------------------
\* What a worker and the server do next for a transaction that waits for nobody.
Proceed(w) ==
    \/ CaseMissing(w)
    \/ CheckFacts(w)
    \/ RejectByGuard(w)
    \/ PassGuards(w)
    \/ AppendEvent(w)
    \/ AppendTransition(w)
    \/ RefuseTransition(w)
    \/ UpdateProjection(w)
    \/ RefuseUpdate(w)
    \/ RefuseNotice(w)
    \/ Commit(w)

WorkerNext(w) ==
    \/ RefuseUnknownState(w)
    \/ BeginTransaction(w)
    \/ LoadCaseFacts(w)
    \/ Proceed(w)
    \/ AppendOutbox(w)
    \/ AbortDeadlocked(w)
    \/ Crash(w)

Next ==
    \/ \E w \in Workers : WorkerNext(w)
    \/ \E c \in Cases : EnterHold(c) \/ ClaimSlot(c)
    \/ Tick
    \/ Finished

(***************************************************************************)
(* A statement that can run does run.  Lock waiters queue in order, so one *)
(* whose lock is free again and again gets it: strong fairness.            *)
(***************************************************************************)
Fairness ==
    \A w \in Workers :
        /\ WF_vars(Proceed(w))
        /\ SF_vars(LoadCaseFacts(w))
        /\ SF_vars(AppendOutbox(w))
        /\ WF_vars(AbortDeadlocked(w))

Spec == Init /\ [][Next]_vars
FairSpec == Spec /\ Fairness

-----------------------------------------------------------------------------
(***************************************************************************)
(* What the protocol promises.                                             *)
(***************************************************************************)

TransitionsOf(c) == {t \in state_transition : t.case = c}
IsLast(t) == \A s \in TransitionsOf(t.case) : s.after <= t.after

\* The transitions of a case are one chain: at most one leaves a version, it
\* starts in the state its predecessor reached, and no version is missing in
\* between, whatever commands raced for the case (T05).
LedgerChains ==
    \A s, t \in state_transition :
        s.case = t.case =>
            /\ s.before = t.before => s = t
            /\ s.after = t.before => s.to = t.from
            /\ s.before < t.before =>
                  \E u \in TransitionsOf(t.case) : u.after = t.before

\* The projection is where the last transition left the case; only entering a
\* hold adds a version the ledger does not show.
ProjectionFollowsLedger ==
    \A t \in state_transition :
        LET row == case_record[t.case] IN
        IsLast(t) =>
            /\ row.state = t.to
            /\ row.version = t.after + (IF row.hold /\ ~IsTerminal(row) THEN 1 ELSE 0)

\* The stored columns agree: a status exactly in the states that have one, and
\* a terminal lock exactly in the terminal states.  The CHECK constraints are
\* weaker than this; the code keeps it.
ColumnsAgree ==
    \A c \in Cases :
        LET row == case_record[c] IN
        /\ row.status = IF row.state \in STATUS_STATES THEN row.state ELSE NULL
        /\ IsTerminal(row) <=> row.state \in TERMINAL_STATES

\* From the moment the facts are read until the transaction ends, the canonical
\* row is the one the checks and the guards judged.
FactsStayCurrent ==
    \A w \in Workers :
        pc[w] \notin {"idle", "load"} =>
            case_record[cmd[w].case] = txn[w].facts

\* The effect of the command w executes or executed last, as a whole.
EventsOf(w) == {e \in event : e.id = Id(w)}
MovesOf(w) == {t \in state_transition : t.event = Id(w)}
NoticesOf(w) == {o \in outbox : o.event = Id(w)}

NoEffect(w) == EventsOf(w) = {} /\ MovesOf(w) = {} /\ NoticesOf(w) = {}

FullEffect(w) ==
    /\ \E e \in EventsOf(w) : EventsOf(w) = {e} /\ e.case = cmd[w].case
    /\ \E t \in MovesOf(w) :
          /\ MovesOf(w) = {t}
          /\ t.case = cmd[w].case
          /\ t.before = cmd[w].expected
          /\ t.to = cmd[w].to
    /\ {o.notice : o \in NoticesOf(w)} =
          {cmd[w].notices[i] : i \in DOMAIN cmd[w].notices}
    /\ \A o \in NoticesOf(w) : o.case = cmd[w].case

\* No partial effect is ever visible: nothing of a command that runs or was
\* refused, all of a command that returned an outcome, and one of the two when
\* the connection was lost.
AnswerMatchesEffect ==
    \A w \in Workers :
        /\ pc[w] # "idle" \/ reply[w] \in Refusals => NoEffect(w)
        /\ pc[w] = "idle" /\ reply[w] = "committed" => FullEffect(w)
        /\ pc[w] = "idle" /\ reply[w] = "lost" => NoEffect(w) \/ FullEffect(w)

\* A version conflict is never spurious: the case has moved on from the version
\* the caller had read, by another command or by its own with a lost answer.
ConflictMeansProgress ==
    \A w \in Workers :
        reply[w] = "version conflict" =>
            case_record[cmd[w].case].version > cmd[w].expected

\* A case that became terminal does not keep the single experiment slot.
SlotHolderIsLive ==
    \A c \in Cases :
        active_experiment_slot = c => ~IsTerminal(case_record[c])

\* The ledger is chronological: along the versions of a case occurred_at, the
\* start of the transaction, never goes back, and the terminal lock carries the
\* time of the last event.
OccurredAt(t) == (CHOOSE e \in event : e.id = t.event).at

HistoryIsChronological ==
    \A t \in state_transition :
        /\ \A s \in TransitionsOf(t.case) :
              s.before < t.before => OccurredAt(s) <= OccurredAt(t)
        /\ IsLast(t) /\ IsTerminal(case_record[t.case]) =>
              case_record[t.case].lockedAt = OccurredAt(t)

\* A logical notification is announced once, whichever commands ask for it.
NoticeAnnouncedOnce ==
    \A o, p \in outbox : o.notice = p.notice => o = p

\* Nothing moves a case that is terminal or under diagnostic hold, commands
\* that had started before included; a terminal case may still enter a hold.
Frozen(row) == IsTerminal(row) \/ row.hold

FrozenStep(c) ==
    Frozen(case_record[c]) =>
        /\ [case_record'[c] EXCEPT !.hold = case_record[c].hold] = case_record[c]
        /\ case_record[c].hold => case_record'[c].hold
        /\ \A t \in state_transition' : t.case = c => t \in state_transition
        /\ \A e \in event' : e.case = c => e \in event
        /\ \A o \in outbox' : o.case = c => o \in outbox

FrozenCasesStay == [][\A c \in Cases : FrozenStep(c)]_vars


=============================================================================
