------------------------ MODULE SchemaRelease_proofs ------------------------
(***************************************************************************)
(* Revision 0005 and the readiness gate, for any number of images, workers *)
(* and rows.  The locks keep what the release step has checked true until  *)
(* it commits; forward-only revisions keep what the probe has seen true    *)
(* for good.                                                               *)
(***************************************************************************)
EXTENDS SchemaRelease, TLAPS

\* The invariant holds of an empty database without processes.
THEOREM Initially == Init => IInv
<1> SUFFICES ASSUME Init PROVE IInv
  OBVIOUS
<1>1. TypeOK
  BY DEF Init, TypeOK, Head, Statements, Processes
<1> QED
  BY <1>1, ImageAssumption, WorkerAssumption
     DEF Init, IInv, LockDiscipline, WritersLock, CheckedIsLocked, Checked, GateIsPassed,
         ContractHolds, Head, Processes, Locked

-----------------------------------------------------------------------------
(***************************************************************************)
(* Locks.                                                                  *)
(***************************************************************************)

\* The next statement of a waiting process needs one lock of one table.
LEMMA WantedType ==
  ASSUME TypeOK, NEW p \in Processes, Waiting(p), pc[p] = "waiting" => p \in Workers
  PROVE  Wanted(p) \in Tables \X Modes
<1>1. CASE pc[p] = "waiting"
  <2>1. stmt[p].table \in Tables
    BY <1>1 DEF TypeOK, Statements, Project, Tables
  <2> QED
    BY <1>1, <2>1 DEF Wanted, Modes, Conflicts
<1>2. CASE pc[p] \in {"expand", "contract", "relax"}
  BY <1>2 DEF Wanted, Tables, Modes, Conflicts
<1> QED
  BY <1>1, <1>2 DEF Waiting

LEMMA ConflictsSymmetric ==
  ASSUME NEW m \in Modes, NEW n \in Modes, m \in Conflicts[n]
  PROVE  n \in Conflicts[m]
BY DEF Modes, Conflicts

\* A lock is granted next to locks it does not conflict with.
LEMMA GrantKeepsDiscipline ==
  ASSUME TypeOK, LockDiscipline, NEW p \in Processes, Granted(p),
         Wanted(p) \in Tables \X Modes,
         held' = [held EXCEPT ![p] = @ \cup {Wanted(p)}]
  PROVE  LockDiscipline'
<1> SUFFICES ASSUME NEW a \in Processes, NEW b \in Processes, NEW t \in Tables,
                    NEW m \in Modes, NEW n \in Modes, a # b,
                    <<t, m>> \in held'[a], <<t, n>> \in held'[b], m \in Conflicts[n]
             PROVE FALSE
  BY DEF LockDiscipline, Locked
<1>1. \A q \in Processes : q # p =>
         held'[q] = held[q] /\ \A l \in held[q] :
             ~(l[1] = Wanted(p)[1] /\ l[2] \in Conflicts[Wanted(p)[2]])
  BY DEF TypeOK, Granted, WaitsFor
<1>2. held'[p] = held[p] \cup {Wanted(p)}
  BY DEF TypeOK
<1>3. ~(<<t, m>> \in held[a] /\ <<t, n>> \in held[b])
  BY DEF LockDiscipline, Locked
<1>4. CASE a = p
  <2>1. <<t, m>> = Wanted(p) /\ <<t, n>> \in held[b]
    BY <1>1, <1>2, <1>3, <1>4
  <2> QED
    BY <1>1, <1>4, <2>1, ConflictsSymmetric
<1>5. CASE b = p
  <2>1. <<t, n>> = Wanted(p) /\ <<t, m>> \in held[a]
    BY <1>1, <1>2, <1>3, <1>5
  <2> QED
    BY <1>1, <1>5, <2>1
<1> QED
  BY <1>1, <1>3, <1>4, <1>5

\* While 0005 holds ACCESS EXCLUSIVE on a table nobody holds a lock of a writer.
LEMMA ExclusiveLock ==
  ASSUME LockDiscipline, NEW p \in Processes, NEW q \in Processes, p # q,
         NEW t \in Tables, Locked(p, t, "AE")
  PROVE  ~Locked(q, t, "RE")
BY DEF LockDiscipline, Modes, Conflicts

-----------------------------------------------------------------------------
(***************************************************************************)
(* The end of a transaction.                                               *)
(***************************************************************************)

LEMMA EndTyped ==
  ASSUME TypeOK, NEW p \in Processes, End(p)
  PROVE  /\ held' \in [Processes -> SUBSET (Tables \X Modes)]
         /\ pc' \in [Processes ->
              {"stopped", "idle", "expand", "contract", "relax", "stamp", "waiting"}]
         /\ wrote' \in [Workers -> SUBSET (Dismissals \cup Transitions)]
         /\ stmt' \in [Workers -> Statements]
         /\ UNCHANGED <<base, probe, answer, served>>
         /\ pc'[p] = "idle" /\ held'[p] = {}
         /\ \A q \in Processes : q # p => pc'[q] = pc[q] /\ held'[q] = held[q]
         /\ \A w \in Workers : wrote'[w] = IF w = p THEN {} ELSE wrote[w]
<1>1. Project \in Statements
  BY DEF Statements
<1> QED
  BY <1>1 DEF TypeOK, End, Go, client

LEMMA EndKeepsLocks ==
  ASSUME IInv, NEW p \in Processes, End(p)
  PROVE  LockDiscipline' /\ WritersLock'
<1>1. LockDiscipline'
  <2> SUFFICES ASSUME NEW a \in Processes, NEW b \in Processes, NEW t \in Tables,
                      NEW m \in Modes, NEW n \in Modes, a # b,
                      <<t, m>> \in held'[a], <<t, n>> \in held'[b]
               PROVE m \notin Conflicts[n]
    BY DEF LockDiscipline, Locked
  <2>1. <<t, m>> \in held[a] /\ <<t, n>> \in held[b]
    BY EndTyped DEF IInv
  <2> QED
    BY <2>1 DEF IInv, LockDiscipline, Locked
<1>2. WritersLock'
  <2> SUFFICES ASSUME NEW w \in Workers
      PROVE /\ wrote'[w] \cap Dismissals # {} =>
                  <<"pre_experiment_dismissal", "RE">> \in held'[w]
            /\ wrote'[w] \cap Transitions # {} => <<"state_transition", "RE">> \in held'[w]
    BY DEF WritersLock, Locked
  <2>1. CASE w = p
    BY <2>1, EndTyped DEF IInv
  <2>2. CASE w # p
    BY <2>2, EndTyped DEF IInv, WritersLock, Locked, Processes
  <2> QED
    BY <2>1, <2>2
<1> QED
  BY <1>1, <1>2

\* A transaction that leaves schema and tables alone ends.
LEMMA RollbackKeeps ==
  ASSUME IInv, NEW p \in Processes, Rollback(p), pc[p] # "stopped"
  PROVE  IInv'
<1>1. End(p) /\ UNCHANGED <<schema, tables>>
  BY DEF Rollback
<1>2. TypeOK'
  BY <1>1, EndTyped DEF IInv, TypeOK, tables
<1>3. LockDiscipline' /\ WritersLock'
  BY <1>1, EndKeepsLocks
<1>4. CheckedIsLocked'
  BY <1>1, EndTyped DEF IInv, CheckedIsLocked, Checked, Locked, NoneWithoutCase,
     Validated,
     tables, Processes
<1>5. GateIsPassed'
  BY <1>1, EndTyped DEF IInv, GateIsPassed, Processes
<1>6. ContractHolds'
  BY <1>1, EndTyped DEF IInv, ContractHolds, tables, Admits
<1> QED
  BY <1>2, <1>3, <1>4, <1>5, <1>6 DEF IInv

-----------------------------------------------------------------------------
(***************************************************************************)
(* The release step.                                                       *)
(***************************************************************************)

LEMMA StartReleaseKeeps ==
  ASSUME IInv, NEW i \in Images, StartRelease(i)
  PROVE  IInv'
<1>1. /\ UNCHANGED <<schema, tables, held, wrote, stmt, client>>
      /\ pc[i] = "idle" /\ schema < i
      /\ pc' = [pc EXCEPT ![i] = IF i = Head THEN "expand" ELSE "stamp"]
      /\ base' = [base EXCEPT ![i] = schema]
  BY DEF StartRelease, Go
<1>2. TypeOK'
  BY <1>1 DEF IInv, TypeOK, tables, client, Processes
<1>3. LockDiscipline' /\ WritersLock' /\ ContractHolds'
  BY <1>1 DEF IInv, LockDiscipline, WritersLock, Locked, ContractHolds, Admits, tables
<1>4. CheckedIsLocked'
  BY <1>1 DEF IInv, TypeOK, CheckedIsLocked, Checked, Locked, NoneWithoutCase, Validated,
     tables, Processes, Head
<1>5. GateIsPassed'
  BY <1>1, WorkerAssumption DEF IInv, TypeOK, GateIsPassed, client, Processes
<1> QED
  BY <1>2, <1>3, <1>4, <1>5 DEF IInv

\* 0005 gets its next table lock.
LEMMA AcquireKeeps ==
  ASSUME IInv, NEW i \in Images, NEW to \in {"contract", "relax", "stamp"},
         Acquire(i), Go(i, to),
         \/ pc[i] = "expand" /\ to = "contract"
         \/ pc[i] = "contract" /\ to = "relax" /\ NoneWithoutCase
         \/ pc[i] = "relax" /\ to = "stamp" /\ Validated
  PROVE  IInv'
<1>1. /\ UNCHANGED <<schema, tables, base, wrote, stmt, client>>
      /\ held' = [held EXCEPT ![i] = @ \cup {Wanted(i)}]
      /\ pc' = [pc EXCEPT ![i] = to]
      /\ Granted(i)
  BY DEF Acquire, Go
<1>2. i \in Processes /\ pc[i] \in {"expand", "contract", "relax"}
  BY DEF Processes
<1>3. Wanted(i) \in Tables \X Modes
  BY <1>2, WantedType DEF IInv, Waiting
<1>4. TypeOK'
  BY <1>1, <1>2, <1>3 DEF IInv, TypeOK, tables, client
<1>5. LockDiscipline'
  BY <1>1, <1>2, <1>3, GrantKeepsDiscipline DEF IInv
<1>6. \A p \in Processes, t \in Tables, m \in Modes : Locked(p, t, m) => Locked(p, t, m)'
  BY <1>1 DEF IInv, TypeOK, Locked
<1>7. Wanted(i) \in held'[i]
  BY <1>1, <1>2 DEF IInv, TypeOK
<1>8. WritersLock'
  BY <1>1, <1>6 DEF IInv, WritersLock, Processes, Tables, Modes, Conflicts
<1>9. CheckedIsLocked'
  <2>1. /\ pc[i] = "expand" => Locked(i, "pre_experiment_dismissal", "AE")'
        /\ pc[i] = "relax" => Locked(i, "state_transition", "AE")'
    BY <1>7 DEF Wanted, Locked
  <2>2. \A j \in Images : j # i => pc'[j] = pc[j]
    BY <1>1
  <2>3. pc'[i] = to
    BY <1>1, <1>2 DEF IInv, TypeOK
  <2>4. \A j \in Images, t \in Tables : Locked(j, t, "AE") => Locked(j, t, "AE")'
    BY <1>6 DEF Processes, Modes, Conflicts
  <2> QED
    BY <1>1, <1>2, <2>1, <2>2, <2>3, <2>4
       DEF IInv, CheckedIsLocked, Checked, NoneWithoutCase, Validated, tables, Tables
<1>10. GateIsPassed' /\ ContractHolds'
  BY <1>1, <1>2, WorkerAssumption
     DEF IInv, TypeOK, GateIsPassed, ContractHolds, Admits, client, tables, Processes
<1> QED
  BY <1>4, <1>5, <1>8, <1>9, <1>10 DEF IInv

\* When 0005 commits, no open transaction has a row in a table it has locked.
LEMMA NobodyElseWrote ==
  ASSUME IInv, NEW i \in Images, Checked(i), NEW w \in Workers
  PROVE  wrote[w] = {}
<1>1. /\ Locked(i, "pre_experiment_dismissal", "AE")
      /\ Locked(i, "state_transition", "AE")
  BY DEF IInv, CheckedIsLocked
<1>2. i \in Processes /\ w \in Processes /\ i # w
  BY WorkerAssumption DEF Processes
<1>3. /\ ~Locked(w, "pre_experiment_dismissal", "RE")
      /\ ~Locked(w, "state_transition", "RE")
  BY <1>1, <1>2, ExclusiveLock DEF IInv, Tables
<1>4. wrote[w] \subseteq Dismissals \cup Transitions
  BY DEF IInv, TypeOK
<1> QED
  BY <1>3, <1>4 DEF IInv, WritersLock

LEMMA CommitReleaseKeeps ==
  ASSUME IInv, NEW i \in Images, CommitRelease(i)
  PROVE  IInv'
<1>1. /\ End(i) /\ UNCHANGED tables
      /\ pc[i] = "stamp" /\ schema = base[i] /\ schema' = i
      /\ i \in Processes
  BY DEF CommitRelease, Processes
<1>2. i \in 1 .. 5 /\ schema < i /\ schema \in 0 .. 5
  BY <1>1, ImageAssumption DEF IInv, CheckedIsLocked, TypeOK, Head
<1>3. TypeOK'
  <2>1. schema' \in 0 .. Head
    BY <1>1, <1>2 DEF Head
  <2> QED
    BY <1>1, <2>1, EndTyped DEF IInv, TypeOK, tables
<1>4. LockDiscipline' /\ WritersLock'
  BY <1>1, EndKeepsLocks
<1>5. CheckedIsLocked'
  BY <1>1, EndTyped DEF IInv, CheckedIsLocked, Checked, Locked, NoneWithoutCase,
     Validated,
     tables, Processes
<1>6. GateIsPassed'
  <2>1. \A j \in served : Expected[j] # 0 => i >= j
    BY <1>2, ImageAssumption DEF IInv, GateIsPassed, TypeOK
  <2> QED
    BY <1>1, <2>1, EndTyped DEF IInv, GateIsPassed, Processes
<1>7. ContractHolds'
  <2>1. CASE i # Head
    BY <1>1, <2>1 DEF ContractHolds
  <2>2. CASE i = Head
    <3>1. Checked(i)
      BY <1>1, <2>2 DEF Checked
    <3>2. NoneWithoutCase /\ Validated
      BY <3>1 DEF IInv, CheckedIsLocked
    <3>3. \A w \in Workers : wrote'[w] = {}
      BY <1>1, <3>1, NobodyElseWrote, EndTyped DEF IInv
    <3> QED
      BY <1>1, <3>2, <3>3 DEF ContractHolds, NoneWithoutCase, Validated, tables
  <2> QED
    BY <2>1, <2>2
<1> QED
  BY <1>3, <1>4, <1>5, <1>6, <1>7 DEF IInv

-----------------------------------------------------------------------------
(***************************************************************************)
(* The probe and the workers.                                              *)
(***************************************************************************)

\* An answer changes nothing but what the client knows.
LEMMA ClientStepKeeps ==
  ASSUME IInv, UNCHANGED <<schema, tables, held, pc, base, wrote, stmt>>,
         probe' \in [Images -> {"idle", "connected", "version"}],
         answer' \in [Images -> {"none", "ready", "not_ready", "unreachable"}],
         served \subseteq served', served' \subseteq Images,
         \A i \in served' \ served : Expected[i] # 0 => schema >= i
  PROVE  IInv'
<1>1. TypeOK'
  BY DEF IInv, TypeOK, tables
<1>2. LockDiscipline' /\ WritersLock' /\ CheckedIsLocked' /\ ContractHolds'
  BY DEF IInv, LockDiscipline, WritersLock, Locked, CheckedIsLocked, Checked,
     NoneWithoutCase, Validated, ContractHolds, Admits, tables
<1>3. GateIsPassed'
  BY DEF IInv, GateIsPassed
<1> QED
  BY <1>1, <1>2, <1>3 DEF IInv

LEMMA ProbeKeeps ==
  ASSUME IInv, NEW i \in Images,
         Connect(i) \/ FindNoTable(i) \/ FindTable(i) \/ ReadVersion(i) \/ FailProbe(i)
  PROVE  IInv'
<1> USE DEF Probing, Answer
<1>1. CASE Connect(i)
  BY <1>1, ClientStepKeeps DEF Connect, IInv, TypeOK
<1>2. CASE FindNoTable(i)
  BY <1>2, ClientStepKeeps DEF FindNoTable, IInv, TypeOK
<1>3. CASE FindTable(i)
  BY <1>3, ClientStepKeeps DEF FindTable, IInv, TypeOK
<1>4. CASE ReadVersion(i)
  <2>1. HeadsEqual(i) => schema >= i \/ Expected[i] = 0
    BY ExpectedAssumption, ImageAssumption DEF HeadsEqual
  <2> QED
    BY <1>4, <2>1, ClientStepKeeps DEF ReadVersion, IInv, TypeOK
<1>5. CASE FailProbe(i)
  BY <1>5, ClientStepKeeps DEF FailProbe, IInv, TypeOK
<1> QED
  BY <1>1, <1>2, <1>3, <1>4, <1>5

LEMMA StartWorkerKeeps ==
  ASSUME IInv, NEW w \in Workers, StartWorker(w) \/ Execute(w)
  PROVE  IInv'
<1>1. /\ UNCHANGED <<schema, tables, held, base, wrote, client>>
      /\ \E to \in {"idle", "waiting"} : pc' = [pc EXCEPT ![w] = to]
      /\ stmt' \in [Workers -> Statements]
      /\ Home[w] \in served
  BY DEF StartWorker, Execute, Go, IInv, TypeOK, GateIsPassed
<1>2. TypeOK'
  BY <1>1 DEF IInv, TypeOK, tables, client
<1>3. \A i \in Images : pc'[i] = pc[i]
  BY <1>1, WorkerAssumption
<1>4. LockDiscipline' /\ WritersLock' /\ CheckedIsLocked' /\ ContractHolds'
  BY <1>1, <1>3 DEF IInv, LockDiscipline, WritersLock, Locked, CheckedIsLocked, Checked,
     NoneWithoutCase, Validated, ContractHolds, Admits, tables
<1>5. GateIsPassed'
  BY <1>1, <1>3 DEF IInv, GateIsPassed, TypeOK, client, Processes
<1> QED
  BY <1>2, <1>4, <1>5 DEF IInv

LEMMA RunStatementKeeps ==
  ASSUME IInv, NEW w \in Workers, RunStatement(w)
  PROVE  IInv'
<1>1. /\ UNCHANGED <<schema, tables, base, client>>
      /\ pc[w] = "waiting" /\ Granted(w) /\ Admits(stmt[w].row)
      /\ held' = [held EXCEPT ![w] = @ \cup {Wanted(w)}]
      /\ wrote' = [wrote EXCEPT ![w] = @ \cup ({stmt[w].row} \ {NoRow})]
      /\ stmt' = [stmt EXCEPT ![w] = Project]
      /\ pc' = [pc EXCEPT ![w] = "idle"]
  BY DEF RunStatement, Go
<1>2. w \in Processes /\ w \notin Images
  BY WorkerAssumption DEF Processes
<1>3. Wanted(w) = <<stmt[w].table, "RE">> /\ stmt[w] \in Statements
  BY <1>1 DEF Wanted, IInv, TypeOK
<1>4. Wanted(w) \in Tables \X Modes
  BY <1>1, <1>2, WantedType DEF IInv, Waiting
<1>5. {stmt[w].row} \ {NoRow} \subseteq Dismissals \cup Transitions
  BY <1>3 DEF Statements, Project
<1>6. Project \in Statements
  BY DEF Statements
<1>7. TypeOK'
  BY <1>1, <1>2, <1>4, <1>5, <1>6 DEF IInv, TypeOK, tables, client
<1>8. LockDiscipline'
  BY <1>1, <1>2, <1>4, GrantKeepsDiscipline DEF IInv
<1>9. \A i \in Images : pc'[i] = pc[i] /\ held'[i] = held[i]
  BY <1>1, <1>2
<1>10. CheckedIsLocked'
  BY <1>1, <1>9 DEF IInv, CheckedIsLocked, Checked, Locked, NoneWithoutCase,
     Validated, tables
<1>11. GateIsPassed'
  BY <1>1, <1>9 DEF IInv, TypeOK, GateIsPassed, client, Processes
<1>12. WritersLock'
  <2>1. /\ stmt[w].row \in Dismissals => stmt[w].table = "pre_experiment_dismissal"
        /\ stmt[w].row \in Transitions => stmt[w].table = "state_transition"
    BY <1>3, RowAssumption DEF Statements, Project
  <2>2. Wanted(w) \in held'[w] /\ held[w] \subseteq held'[w]
    BY <1>1, <1>2 DEF IInv, TypeOK
  <2>3. wrote'[w] \subseteq wrote[w] \cup {stmt[w].row}
    BY <1>1 DEF IInv, TypeOK
  <2>4. \A v \in Workers : v # w => wrote'[v] = wrote[v] /\ held'[v] = held[v]
    BY <1>1
  <2>5. /\ wrote'[w] \cap Dismissals # {} =>
              <<"pre_experiment_dismissal", "RE">> \in held'[w]
        /\ wrote'[w] \cap Transitions # {} => <<"state_transition", "RE">> \in held'[w]
    BY <1>3, <2>1, <2>2, <2>3 DEF IInv, WritersLock, Locked
  <2> QED
    BY <2>4, <2>5 DEF IInv, WritersLock, Locked
<1>13. ContractHolds'
  <2>1. \A v \in Workers : wrote'[v] \subseteq wrote[v] \cup {stmt[w].row}
    BY <1>1 DEF IInv, TypeOK
  <2>2. \A r : Admits(r)' <=> Admits(r)
    BY <1>1 DEF Admits
  <2> QED
    BY <1>1, <2>1, <2>2 DEF IInv, ContractHolds, tables
<1> QED
  BY <1>7, <1>8, <1>10, <1>11, <1>12, <1>13 DEF IInv

\* Under the new schema the rows a commit adds were admitted by it.
LEMMA CommitWorkerKeeps ==
  ASSUME IInv, NEW w \in Workers, CommitWorker(w)
  PROVE  IInv'
<1>1. /\ End(w) /\ UNCHANGED schema /\ pc[w] = "idle" /\ w \in Processes
      /\ pre_experiment_dismissal' =
            pre_experiment_dismissal \cup (wrote[w] \cap Dismissals)
      /\ state_transition' = state_transition \cup (wrote[w] \cap Transitions)
  BY DEF CommitWorker, Processes
<1>2. TypeOK'
  BY <1>1, EndTyped DEF IInv, TypeOK
<1>3. LockDiscipline' /\ WritersLock'
  BY <1>1, EndKeepsLocks
<1>4. ASSUME NEW i \in Images, pc[i] = "relax" \/ Checked(i)
      PROVE  pre_experiment_dismissal' = pre_experiment_dismissal
  <2>1. i \in Processes /\ i # w /\ Locked(i, "pre_experiment_dismissal", "AE")
    BY <1>4, WorkerAssumption DEF IInv, CheckedIsLocked, Processes
  <2>2. ~Locked(w, "pre_experiment_dismissal", "RE")
    BY <1>1, <2>1, ExclusiveLock DEF IInv, Tables
  <2> QED
    BY <1>1, <2>2 DEF IInv, WritersLock
<1>5. ASSUME NEW i \in Images, Checked(i)
      PROVE  state_transition' = state_transition
  BY <1>1, <1>5, NobodyElseWrote
<1>6. CheckedIsLocked'
  <2>1. \A i \in Images : pc'[i] = pc[i] /\ held'[i] = held[i]
    BY <1>1, WorkerAssumption, EndTyped DEF IInv, Processes
  <2>2. base' = base
    BY <1>1, EndTyped DEF IInv
  <2> QED
    BY <1>4, <1>5, <2>1, <2>2
       DEF IInv, CheckedIsLocked, Checked, Locked, NoneWithoutCase, Validated
<1>7. GateIsPassed'
  BY <1>1, EndTyped DEF IInv, GateIsPassed, Processes
<1>8. ContractHolds'
  <2> SUFFICES ASSUME schema = Head
      PROVE /\ \A r \in pre_experiment_dismissal' : r.case # NULL
            /\ \A r \in state_transition' : ck_state_transition_genesis(r)
            /\ \A v \in Workers : \A r \in wrote'[v] : Admits(r)'
    BY <1>1 DEF ContractHolds
  <2>1. \A r \in wrote[w] : Admits(r)
    BY DEF IInv, ContractHolds
  <2>2. /\ \A r \in wrote[w] \cap Dismissals : r.case # NULL
        /\ \A r \in wrote[w] \cap Transitions : ck_state_transition_genesis(r)
    BY <2>1, RowAssumption DEF Admits
  <2>3. \A v \in Workers : wrote'[v] \subseteq wrote[v]
    BY <1>1, EndTyped DEF IInv
  <2>4. \A r : Admits(r)' <=> Admits(r)
    BY <1>1 DEF Admits
  <2> QED
    BY <1>1, <2>2, <2>3, <2>4 DEF IInv, ContractHolds
<1> QED
  BY <1>2, <1>3, <1>6, <1>7, <1>8 DEF IInv

-----------------------------------------------------------------------------
\* Every step keeps the invariant: what 0005 has checked stays so until it
\* commits, whatever the application and other release steps do.
THEOREM Inductive == Spec => []IInv
<1>1. IInv /\ [Next]_vars => IInv'
  <2> SUFFICES ASSUME IInv, [Next]_vars PROVE IInv'
    OBVIOUS
  <2>1. CASE UNCHANGED vars
    BY <2>1 DEF vars, tables, client, IInv, TypeOK, LockDiscipline, WritersLock, Locked,
       CheckedIsLocked, Checked, NoneWithoutCase, Validated, GateIsPassed,
       ContractHolds, Admits
  <2>2. ASSUME NEW i \in Images, StartRelease(i) PROVE IInv'
    BY <2>2, StartReleaseKeeps
  <2>3. ASSUME NEW i \in Images,
               \/ Connect(i) \/ FindNoTable(i) \/ FindTable(i)
               \/ ReadVersion(i) \/ FailProbe(i)
        PROVE  IInv'
    BY <2>3, ProbeKeeps
  <2>4. ASSUME NEW w \in Workers, StartWorker(w) \/ Execute(w) PROVE IInv'
    BY <2>4, StartWorkerKeeps
  <2>5. ASSUME NEW w \in Workers, CommitWorker(w) PROVE IInv'
    BY <2>5, CommitWorkerKeeps
  <2>6. ASSUME NEW i \in Images, AddColumn(i) \/ Contract(i) \/ Relax(i) PROVE IInv'
    BY <2>6, AcquireKeeps DEF AddColumn, Contract, Relax
  <2>7. ASSUME NEW i \in Images, CommitRelease(i) PROVE IInv'
    BY <2>7, CommitReleaseKeeps
  <2>8. ASSUME NEW w \in Workers, RunStatement(w) PROVE IInv'
    BY <2>8, RunStatementKeeps
  <2>9. ASSUME NEW p \in Processes, Rollback(p), pc[p] # "stopped" PROVE IInv'
    BY <2>9, RollbackKeeps
  <2>10. ASSUME NEW p \in Processes, Abort(p) \/ AbortDeadlocked(p) PROVE IInv'
    <3>1. Rollback(p) /\ (held[p] # {} \/ Waiting(p))
      BY <2>10 DEF Abort, AbortDeadlocked, Deadlocked, WaitsFor
    <3>2. pc[p] # "stopped"
      BY <3>1 DEF IInv, GateIsPassed, Waiting, Processes
    <3> QED
      BY <3>1, <3>2, <2>9
  <2>11. ASSUME NEW p \in Processes, Proceed(p) PROVE IInv'
    <3>1. CASE p \in Images /\ RefuseRelease(p)
      BY <2>9, <3>1 DEF RefuseRelease
    <3>2. CASE p \in Workers /\ RefuseStatement(p)
      BY <2>9, <3>2 DEF RefuseStatement
    <3> QED
      BY <2>6, <2>7, <2>8, <2>11, <3>1, <3>2 DEF Proceed
  <2> QED
    BY <2>1, <2>2, <2>3, <2>4, <2>5, <2>10, <2>11 DEF Next
<1> QED
  BY <1>1, Initially, PTL DEF Spec

\* The types of the variables.
THEOREM TypeCorrect == Spec => []TypeOK
BY Inductive, PTL DEF IInv

\* No row, old or new, breaks the rules of an applied 0005.
THEOREM ContractIsKept == Spec => []ContractHolds
BY Inductive, PTL DEF IInv

\* Workers started behind the readiness gate never meet an older schema.
THEOREM GateSuffices == Spec => []WorkersMeetTheirSchema
<1>1. IInv => WorkersMeetTheirSchema
  BY WorkerAssumption DEF IInv, GateIsPassed, WorkersMeetTheirSchema
<1> QED
  BY <1>1, Inductive, PTL

=============================================================================
