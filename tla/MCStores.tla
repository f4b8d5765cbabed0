------------------------------ MODULE MCStores ------------------------------
(***************************************************************************)
(* The tables an engine of the workers writes, and its identifiers, for    *)
(* TLC.  They fall into groups: no statement on one group reads a row of   *)
(* another, and the foreign keys between two groups name the key of a row  *)
(* that no role may delete.  What can happen inside a group does therefore *)
(* not depend on the other groups, and a behaviour here is a behaviour of  *)
(* one of them, chosen by a configuration among Groups, while the others   *)
(* stay as they are.  dossier_revision belongs to two groups; each of them *)
(* allows every change of a revision the other one would refuse.           *)
(***************************************************************************)
EXTENDS CaseStore, AuthorityStore, GateStore, RunStore, TimeStore, UuidV7, TLC

CONSTANTS
    Groups,
    first, second, third,   \* uuids
    dossier, case, role,
    draft, final,           \* values of content_hash
    small, large            \* requests to spend

VARIABLE group

SeededRow ==
    [state |-> "EXECUTION", status |-> NULL, version |-> 1, lockedAt |-> NoTime,
     hold |-> FALSE]

authorityOwn == <<decision_intent, consent, authority_grant, expense>>
gateOwn == <<gate_attempt, gate_review_session, finding, gate_record>>

\* A group that is not looked at starts in one of its initial states.
StoresInit ==
    /\ group \in Groups
    /\ CaseInit /\ AuthorityInit /\ GateInit /\ RunInit /\ TimeInit /\ IdInit
    /\ group # "case" => case_record = SeededRow
    /\ group # "id" => milliseconds = 0

StoresNext ==
    \/ /\ group = "case" /\ CaseNext
       /\ UNCHANGED <<group, authorityVars, gateOwn, runVars, timeVars, idVars>>
    \/ /\ group = "authority" /\ AuthorityNext
       /\ UNCHANGED <<group, caseVars, gateOwn, runVars, timeVars, idVars>>
    \/ /\ group = "gate" /\ GateNext
       /\ UNCHANGED <<group, caseVars, authorityOwn, runVars, timeVars, idVars>>
    \/ /\ group = "run" /\ RunNext
       /\ UNCHANGED <<group, caseVars, authorityVars, gateOwn, timeVars, idVars>>
    \/ /\ group = "time" /\ TimeNext
       /\ UNCHANGED <<group, caseVars, authorityVars, gateOwn, runVars, idVars>>
    \/ /\ group = "id" /\ IdNext
       /\ UNCHANGED <<group, caseVars, authorityVars, gateOwn, runVars, timeVars>>

StoresSpec ==
    StoresInit /\ [][StoresNext]_<<group, caseVars, authorityVars, gateOwn, runVars,
                                   timeVars, idVars>>

AllGroups == {"case", "authority", "gate", "run", "time", "id"}

-----------------------------------------------------------------------------
\* CaseStore: an active, a paused and a terminal state with every status, four
\* versions, a lock that is set or not.
SomeStates == {"EXECUTION", "PAUSED_USER", "CLOSED_COUNTED"}
SomeRows ==
    [state : SomeStates, status : (SomeStates \cap STATUS_STATES) \cup {NULL},
     version : 0 .. 3, lockedAt : {NoTime, 1}, hold : BOOLEAN]

Both == {first, second}
Three == {first, second, third}
TwoContents == {draft, final}
TwoRequests == {small, large}

\* A revision that may change its content, and another one with one of the contents.
SomeRevisions ==
    {[id |-> first, dossier |-> dossier, number |-> 1, hash |-> h, published |-> p] :
        h \in TwoContents, p \in BOOLEAN}
    \cup {[id |-> second, dossier |-> dossier, number |-> 2, hash |-> final,
           published |-> TRUE]}

\* AuthorityStore: two intents that race for a key, two of everything else, all about
\* one of the revisions.
SomeIntents ==
    {[id |-> i, key |-> k, kind |-> "expense", revision |-> first, hash |-> h,
      request |-> small, status |-> s, consumed |-> (s = "consumed")] :
        i \in Both, k \in Both, h \in {draft, NULL},
        s \in {"pending", "consumed", "superseded"}}
SomeConsents ==
    {[id |-> i, intent |-> j, revision |-> first, hash |-> draft, revokedBy |-> NULL] :
        i \in Both, j \in Both}
SomeGrants ==
    {[id |-> i, consent |-> j, scope |-> q, status |-> s] :
        i \in Both, j \in Both, q \in TwoRequests, s \in {"active", "consumed"}}
SomeExpenses ==
    {[id |-> i, grant |-> j, consent |-> k, request |-> small] :
        i \in Both, j \in Both, k \in Both}

\* GateStore: two attempts at two revisions.
SomeAttempts ==
    {[id |-> i, case |-> case, gate |-> "TR", revision |-> r, hash |-> h, status |-> s] :
        i \in Both, r \in Both, h \in TwoContents, s \in ATTEMPT_STATUSES}
SomeSessions == {[id |-> i, attempt |-> j] : i \in Both, j \in Both}
SomeFindings ==
    {[id |-> i, session |-> j, supersededBy |-> k] : i \in Both, j \in Both, k \in {first, NULL}}
SomeVerdicts ==
    {[id |-> i, attempt |-> j, case |-> case, gate |-> "TR", revision |-> r,
      hash |-> draft, result |-> t] :
        i \in Both, j \in Both, r \in Both,
        t \in {"TECH_REVIEW_PASSED", "TECH_REVIEW_RETURNED"}}

\* RunStore: three runs under any parents, two of which may claim one attempt.
AttemptsOf(i) == CASE i = first -> {1} [] i = second -> {1, 2} [] i = third -> {3}
SomeRuns ==
    {r \in {[id |-> i, case |-> case, role |-> role, attempt |-> n,
      purpose |-> IF i = first THEN "verification" ELSE "production",
      parent |-> p, progress |-> s] :
        i \in Three, n \in AttemptNumbers, p \in Three \cup {NULL}, s \in {"running", "done"}} :
        r.attempt \in AttemptsOf(r.id)}
SomeCalls == {[id |-> i, run |-> j, applied |-> t] : i \in Both, j \in Three, t \in BOOLEAN}

\* UuidV7: moments on both sides of each carry between two bytes, and random bytes that
\* are all low, all high, or mixed.
Carries == {0, 1, 255, 256, 65535, 65536, 16777215, 16777216, 2147483647}
TestArguments == {-1, 1000, 2000}
Low == [k \in 1 .. 10 |-> 0]
High == [k \in 1 .. 10 |-> 255]
Mixed == [k \in 1 .. 10 |-> IF k % 2 = 0 THEN 200 ELSE 15]
ThreeNoises == {Low, High, Mixed}

=============================================================================
