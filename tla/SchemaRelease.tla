--------------------------- MODULE SchemaRelease ---------------------------
(***************************************************************************)
(* The release of a schema while the application runs: `alembic upgrade    *)
(* head` of an image (env.py, revisions 0001-0005), the readiness probe of *)
(* its web process (pls.health), and the transactions of the workers that  *)
(* start once the web process is healthy.                                  *)
(*                                                                         *)
(* All pending revisions run in one transaction.  Revision 0005 is split   *)
(* at the table locks it waits for; 0001-0004 create the tables and the    *)
(* privileges, so nobody can be in their way.  Row locks are left to       *)
(* TransitionProtocol.  A worker transaction is any sequence of INSERTs    *)
(* and UPDATEs; all of them take a ROW EXCLUSIVE table lock.  The ROW      *)
(* SHARE lock of FOR UPDATE and of foreign keys conflicts with no lock     *)
(* that 0005 takes on case_record.                                         *)
(***************************************************************************)
EXTENDS Naturals, FiniteSets, SqlLogic

CONSTANTS
    Images,       \* the heads of the images: the number of their last revision
    Expected,     \* PLS_EXPECTED_MIGRATION_HEAD of an image; 0 is the empty string
    Configured,   \* the images with all secrets and policy versions
    Workers, Home,        \* the workers (numbers that are no image) and their images
    Dismissals,   \* rows a worker may write: [id, case]
    Transitions   \* rows a worker may write: [id, before, after, from, to]

NoRow == [id |-> NULL]   \* of an UPDATE of case_record

ASSUME ImageAssumption == Images \subseteq 1 .. 5
ASSUME ExpectedAssumption == \A i \in Images : Expected[i] \in {0, i}
ASSUME WorkerAssumption == Home \in [Workers -> Images] /\ Workers \cap Images = {}
ASSUME RowAssumption ==
    NoRow \notin Dismissals \cup Transitions /\ Dismissals \cap Transitions = {}

VARIABLES
    schema,       \* the revision alembic_version names; 0: there is no such table
    pre_experiment_dismissal, state_transition,   \* committed rows
    held,         \* the <<table, mode>> locks of a transaction
    pc, base,     \* base: the revision a release step started from
    wrote, stmt,  \* the rows and the current statement of a worker's transaction
    probe, answer, served

tables == <<pre_experiment_dismissal, state_transition>>
client == <<probe, answer, served>>
vars == <<schema, tables, held, pc, base, wrote, stmt, client>>

Head == 5
Processes == Images \cup Workers

Project == [table |-> "case_record", row |-> NoRow]
Statements ==
    {[table |-> "pre_experiment_dismissal", row |-> r] : r \in Dismissals}
    \cup {[table |-> "state_transition", row |-> r] : r \in Transitions}
    \cup {Project}

Init ==
    /\ schema = 0
    /\ pre_experiment_dismissal = {} /\ state_transition = {}
    /\ held = [p \in Processes |-> {}]
    /\ pc = [p \in Processes |-> IF p \in Images THEN "idle" ELSE "stopped"]
    /\ base = [i \in Images |-> 0]
    /\ wrote = [w \in Workers |-> {}]
    /\ stmt = [w \in Workers |-> Project]
    /\ probe = [i \in Images |-> "idle"]
    /\ answer = [i \in Images |-> "none"]
    /\ served = {}

-----------------------------------------------------------------------------
(***************************************************************************)
(* Table locks.                                                            *)
(***************************************************************************)

Conflicts ==
    [RE |-> {"SRE", "AE"}, SRE |-> {"RE", "SRE", "AE"}, AE |-> {"RE", "SRE", "AE"}]

\* The lock the next statement of a process needs.
Wanted(p) ==
    CASE pc[p] = "expand" -> <<"pre_experiment_dismissal", "AE">>
      [] pc[p] = "contract" -> <<"case_record", "SRE">>
      [] pc[p] = "relax" -> <<"state_transition", "AE">>
      [] pc[p] = "waiting" -> <<stmt[p].table, "RE">>

Waiting(p) == pc[p] \in {"expand", "contract", "relax", "waiting"}

WaitsFor(p, q) ==
    /\ p # q /\ Waiting(p)
    /\ \E l \in held[q] : l[1] = Wanted(p)[1] /\ l[2] \in Conflicts[Wanted(p)[2]]

Granted(p) == Waiting(p) /\ \A q \in Processes : ~WaitsFor(p, q)

Deadlocked(p) ==
    \E S \in SUBSET Processes :
        p \in S /\ \A x \in S : \E y \in S : WaitsFor(x, y)

Go(p, to) == pc' = [pc EXCEPT ![p] = to]

\* Mutant of End: the locks outlive the transaction.
EndKeepingLocks(p) ==
    /\ Go(p, "idle")
    /\ wrote' = [w \in Workers |-> IF w = p THEN {} ELSE wrote[w]]
    /\ stmt' = [w \in Workers |-> IF w = p THEN Project ELSE stmt[w]]
    /\ UNCHANGED <<held, base, client>>

\* COMMIT and ROLLBACK give up the locks.
End(p) ==
    /\ Go(p, "idle")
    /\ held' = [held EXCEPT ![p] = {}]
    /\ wrote' = [w \in Workers |-> IF w = p THEN {} ELSE wrote[w]]
    /\ stmt' = [w \in Workers |-> IF w = p THEN Project ELSE stmt[w]]
    /\ UNCHANGED <<base, client>>

Rollback(p) == End(p) /\ UNCHANGED <<schema, tables>>

-----------------------------------------------------------------------------
(***************************************************************************)
(* The release step.                                                       *)
(***************************************************************************)

\* What is pending is run; an image does not know later revisions than its own.
StartRelease(i) ==
    /\ pc[i] = "idle"
    /\ schema < i
    /\ Go(i, IF i = Head THEN "expand" ELSE "stamp")
    /\ base' = [base EXCEPT ![i] = schema]
    /\ UNCHANGED <<schema, tables, held, wrote, stmt, client>>

Acquire(i) ==
    /\ Granted(i)
    /\ held' = [held EXCEPT ![i] = @ \cup {Wanted(i)}]
    /\ UNCHANGED <<schema, tables, base, wrote, stmt, client>>

AddColumn(i) == pc[i] = "expand" /\ Acquire(i) /\ Go(i, "contract")

\* Mutant of NoneWithoutCase: the column stays nullable.
NullableCase == TRUE

\* The column was added just now: every row there is has no case.
NoneWithoutCase == pre_experiment_dismissal = {}

Contract(i) ==
    /\ pc[i] = "contract" /\ NoneWithoutCase
    /\ Acquire(i) /\ Go(i, "relax")

ck_state_transition_genesis(r) ==
    \/ <<r.before, r.after, r.from, r.to>> = <<0, 1, NULL, "INTAKE">>
    \/ r.before > 0 /\ r.from # NULL /\ r.after = r.before + 1

\* Mutant of Validated: the constraint is added NOT VALID.
NotValidated == TRUE

Validated == \A r \in state_transition : ck_state_transition_genesis(r)

Relax(i) ==
    /\ pc[i] = "relax" /\ Validated
    /\ Acquire(i) /\ Go(i, "stamp")

\* The UPDATE of alembic_version must find the revision the step started from.
CommitRelease(i) ==
    /\ pc[i] = "stamp" /\ schema = base[i]
    /\ schema' = i
    /\ End(i) /\ UNCHANGED tables

RefuseRelease(i) ==
    /\ \/ pc[i] = "contract" /\ ~NoneWithoutCase
       \/ pc[i] = "relax" /\ Granted(i) /\ ~Validated
       \/ pc[i] = "stamp" /\ schema # base[i]
    /\ Rollback(i)

-----------------------------------------------------------------------------
(***************************************************************************)
(* Readiness: three statements, each with a snapshot of its own.           *)
(***************************************************************************)

Probing(i, from, to) ==
    /\ probe[i] = from
    /\ probe' = [probe EXCEPT ![i] = to]
    /\ UNCHANGED <<schema, tables, held, pc, base, wrote, stmt>>

Answer(i, migrations_ready) ==
    LET ready == migrations_ready /\ i \in Configured IN
    /\ answer' = [answer EXCEPT ![i] = IF ready THEN "ready" ELSE "not_ready"]
    /\ served' = served \cup (IF ready THEN {i} ELSE {})

Connect(i) ==
    /\ Probing(i, "idle", "connected")
    /\ answer' = [answer EXCEPT ![i] = "none"]
    /\ UNCHANGED served

FindNoTable(i) ==
    /\ schema = 0
    /\ Probing(i, "connected", "idle")
    /\ Answer(i, Expected[i] = 0)

FindTable(i) ==
    /\ schema # 0
    /\ IF Expected[i] = 0
       THEN Probing(i, "connected", "idle") /\ Answer(i, FALSE)
       ELSE Probing(i, "connected", "version") /\ UNCHANGED <<answer, served>>

\* Mutant of HeadsEqual: any applied revision will do.
AnyHead(i) == schema > 0

HeadsEqual(i) == schema = Expected[i]

ReadVersion(i) ==
    /\ Probing(i, "version", "idle")
    /\ Answer(i, HeadsEqual(i))

\* psycopg.Error and OSError: no connection, a connection that breaks, or a
\* statement the role is denied.
FailProbe(i) ==
    /\ Probing(i, probe[i], "idle")
    /\ answer' = [answer EXCEPT ![i] = "unreachable"]
    /\ UNCHANGED served

-----------------------------------------------------------------------------
(***************************************************************************)
(* The workers.                                                            *)
(***************************************************************************)

\* depends_on web: service_healthy, looked at when the container starts only.
StartWorker(w) ==
    /\ pc[w] = "stopped" /\ Home[w] \in served
    /\ Go(w, "idle")
    /\ UNCHANGED <<schema, tables, held, base, wrote, stmt, client>>

Written == UNION {wrote[w] : w \in Workers} \cup pre_experiment_dismissal \cup state_transition

Execute(w) ==
    /\ pc[w] = "idle" /\ schema >= 4
    /\ \E s \in Statements :
          /\ s.row \notin Written
          /\ stmt' = [stmt EXCEPT ![w] = s]
    /\ Go(w, "waiting")
    /\ UNCHANGED <<schema, tables, held, base, wrote, client>>

\* The columns and constraints the committed schema has.
Admits(row) ==
    CASE row \in Dismissals -> IF schema = Head THEN row.case # NULL ELSE row.case = NULL
      [] row \in Transitions ->
            IF schema = Head THEN ck_state_transition_genesis(row)
            ELSE row.from # NULL /\ row.after > row.before
      [] OTHER -> TRUE

RunStatement(w) ==
    /\ pc[w] = "waiting" /\ Granted(w)
    /\ Admits(stmt[w].row)
    /\ held' = [held EXCEPT ![w] = @ \cup {Wanted(w)}]
    /\ wrote' = [wrote EXCEPT ![w] = @ \cup ({stmt[w].row} \ {NoRow})]
    /\ stmt' = [stmt EXCEPT ![w] = Project]
    /\ Go(w, "idle")
    /\ UNCHANGED <<schema, tables, base, client>>

RefuseStatement(w) ==
    /\ pc[w] = "waiting" /\ Granted(w)
    /\ ~Admits(stmt[w].row)
    /\ Rollback(w)

CommitWorker(w) ==
    /\ pc[w] = "idle" /\ held[w] # {}
    /\ pre_experiment_dismissal' = pre_experiment_dismissal \cup (wrote[w] \cap Dismissals)
    /\ state_transition' = state_transition \cup (wrote[w] \cap Transitions)
    /\ End(w) /\ UNCHANGED schema

\* Any transaction may end without a COMMIT; the detector ends one of a cycle.
Abort(p) == (held[p] # {} \/ Waiting(p)) /\ Rollback(p)
AbortDeadlocked(p) == Deadlocked(p) /\ Rollback(p)

Proceed(p) ==
    \/ /\ p \in Images
       /\ AddColumn(p) \/ Contract(p) \/ Relax(p) \/ CommitRelease(p) \/ RefuseRelease(p)
    \/ p \in Workers /\ (RunStatement(p) \/ RefuseStatement(p))

Next ==
    \/ \E i \in Images :
          \/ StartRelease(i)
          \/ Connect(i) \/ FindNoTable(i) \/ FindTable(i) \/ ReadVersion(i) \/ FailProbe(i)
    \/ \E w \in Workers : StartWorker(w) \/ Execute(w) \/ CommitWorker(w)
    \/ \E p \in Processes : Proceed(p) \/ Abort(p) \/ AbortDeadlocked(p)

Spec == Init /\ [][Next]_vars

(***************************************************************************)
(* Lock waiters are served in order, statements and the deadlock detector  *)
(* run, and a transaction has finitely many statements.                    *)
(***************************************************************************)
Fairness ==
    \A p \in Processes :
        /\ SF_vars(Proceed(p))
        /\ WF_vars(AbortDeadlocked(p))
        /\ SF_vars(pc[p] = "idle" /\ (Abort(p) \/ (p \in Workers /\ CommitWorker(p))))

FairSpec == Spec /\ Fairness

-----------------------------------------------------------------------------
Modes == DOMAIN Conflicts
Tables == {"case_record", "pre_experiment_dismissal", "state_transition"}

TypeOK ==
    /\ schema \in 0 .. Head
    /\ pre_experiment_dismissal \subseteq Dismissals
    /\ state_transition \subseteq Transitions
    /\ held \in [Processes -> SUBSET (Tables \X Modes)]
    /\ pc \in [Processes ->
                  {"stopped", "idle", "expand", "contract", "relax", "stamp", "waiting"}]
    /\ base \in [Images -> 0 .. Head]
    /\ wrote \in [Workers -> SUBSET (Dismissals \cup Transitions)]
    /\ stmt \in [Workers -> Statements]
    /\ probe \in [Images -> {"idle", "connected", "version"}]
    /\ answer \in [Images -> {"none", "ready", "not_ready", "unreachable"}]
    /\ served \subseteq Images

\* Once 0005 is applied no row breaks its rules: neither an old one nor one of a
\* transaction that was open when the release began and is committed after it.
ContractHolds ==
    schema = Head =>
        /\ \A r \in pre_experiment_dismissal : r.case # NULL
        /\ \A r \in state_transition : ck_state_transition_genesis(r)
        /\ \A w \in Workers : \A r \in wrote[w] : Admits(r)

\* A worker that waits for its web process to be ready never meets an older
\* schema than the one its image was built for, at any time after, though
\* nothing checks the schema again.
WorkersMeetTheirSchema ==
    \A w \in Workers :
        pc[w] # "stopped" /\ Expected[Home[w]] # 0 => schema >= Home[w]

(***************************************************************************)
(* Why they hold: the inductive invariant of the proofs.                   *)
(***************************************************************************)

Locked(p, t, m) == <<t, m>> \in held[p]

\* No two processes hold conflicting locks.
LockDiscipline ==
    \A p, q \in Processes : \A t \in Tables : \A m, n \in Modes :
        p # q /\ Locked(p, t, m) /\ Locked(q, t, n) => m \notin Conflicts[n]

\* Who has written a row holds the lock of its table.
WritersLock ==
    \A w \in Workers :
        /\ wrote[w] \cap Dismissals # {} => Locked(w, "pre_experiment_dismissal", "RE")
        /\ wrote[w] \cap Transitions # {} => Locked(w, "state_transition", "RE")

Checked(i) == pc[i] = "stamp" /\ i = Head

\* What 0005 has checked it has locked, and stays as it was checked.
CheckedIsLocked ==
    \A i \in Images :
        /\ pc[i] # "idle" => base[i] < i
        /\ pc[i] \in {"contract", "relax"} \/ Checked(i) =>
               Locked(i, "pre_experiment_dismissal", "AE")
        /\ pc[i] = "relax" \/ Checked(i) => NoneWithoutCase
        /\ Checked(i) => Locked(i, "state_transition", "AE") /\ Validated
        /\ pc[i] \in {"expand", "contract", "relax"} => i = Head

\* Only images that were ready run workers, and they were ready for this schema.
GateIsPassed ==
    /\ \A i \in served : Expected[i] # 0 => schema >= i
    /\ \A w \in Workers : IF pc[w] = "stopped" THEN held[w] = {} ELSE Home[w] \in served
    /\ \A w \in Workers : pc[w] \in {"stopped", "idle", "waiting"}
    /\ \A i \in Images : pc[i] \notin {"stopped", "waiting"}

IInv ==
    /\ TypeOK /\ LockDiscipline /\ WritersLock
    /\ CheckedIsLocked /\ GateIsPassed /\ ContractHolds

\* A release step and a statement of the application always return.
EverythingReturns == \A p \in Processes : Waiting(p) ~> pc[p] \in {"idle", "stamp"}

-----------------------------------------------------------------------------
(***************************************************************************)
(* What the documents say and the code does not do.                        *)
(***************************************************************************)

\* "the release-step can run before the application switches over"
\* (0005_schema_v03_errata.py, lines 5-6): an image that serves keeps serving.
ServedImageStaysReady == \A i \in served : answer[i] # "not_ready"

=============================================================================
