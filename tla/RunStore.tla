------------------------------ MODULE RunStore ------------------------------
(***************************************************************************)
(* Agent runs and their model calls: agent_run, model_call and the partial *)
(* unique index over applied calls, under any statements migration 0004    *)
(* grants the worker role: INSERT into both, UPDATE of agent_run.  There   *)
(* is no runtime of agents yet; the schema is the code.                    *)
(*                                                                         *)
(* As in AuthorityStore a statement is a step.  Columns no key, trigger or *)
(* property names are left out; a model_call stands for its answer, which  *)
(* its row holds from the start, since no statement can change the row.    *)
(***************************************************************************)
EXTENDS TableRows

CONSTANTS
    Roles, AttemptNumbers,
    Runs, Calls    \* rows statements write

PURPOSES == {"production", "verification"}

\* status, result_artifact_id and validation_result are one column, progress.
RunRows ==
    [id : Ids, case : Cases, role : Roles, attempt : AttemptNumbers, purpose : PURPOSES,
     parent : Ids \cup {NULL}, progress : {"running", "done", "failed"}]
CallRows == [id : Ids, run : Ids, applied : BOOLEAN]

ASSUME RunAssumption == Runs \subseteq RunRows /\ Calls \subseteq CallRows

VARIABLES agent_run, model_call

runVars == <<agent_run, model_call>>

RunTypeOK == agent_run \subseteq Runs /\ model_call \subseteq Calls

RunInit == agent_run = {} /\ model_call = {}

AttemptOf(r) == <<r.case, r.role, r.attempt>>

-----------------------------------------------------------------------------
\* Mutant of InsertRun: an attempt is not unique.
RetryAttempt(r) ==
    /\ r.id \notin IdsOf(agent_run)
    /\ r.parent \in IdsOf(agent_run) \cup {r.id, NULL}
    /\ agent_run' = agent_run \cup {r}
    /\ UNCHANGED model_call

\* The foreign key of parent_run_id is satisfied by the row itself as well.
InsertRun(r) ==
    /\ r.id \notin IdsOf(agent_run)
    /\ \A s \in agent_run : AttemptOf(r) # AttemptOf(s)
    /\ r.parent \in IdsOf(agent_run) \cup {r.id, NULL}
    /\ agent_run' = agent_run \cup {r}
    /\ UNCHANGED model_call

\* Mutant of OnlyProgressChanges: a run may be given another parent.
ParentMayChange(old, new) ==
    [old EXCEPT !.progress = new.progress, !.parent = new.parent] = new

\* pls_only_columns_change('status', 'result_artifact_id', 'validation_result').
OnlyProgressChanges(old, new) == [old EXCEPT !.progress = new.progress] = new

UpdateRun(old, new) ==
    /\ OnlyProgressChanges(old, new)
    /\ agent_run' = (agent_run \ {old}) \cup {new}
    /\ UNCHANGED model_call

\* uq_model_call_applied_per_attempt.
InsertCall(k) ==
    /\ k.id \notin IdsOf(model_call)
    /\ k.run \in IdsOf(agent_run)
    /\ k.applied => \A j \in model_call : ~(j.applied /\ j.run = k.run)
    /\ model_call' = model_call \cup {k}
    /\ UNCHANGED agent_run

RunNext ==
    \/ \E r \in Runs : InsertRun(r)
    \/ \E old \in agent_run, new \in Runs : UpdateRun(old, new)
    \/ \E k \in Calls : InsertCall(k)

RunSpec == RunInit /\ [][RunNext]_runVars

-----------------------------------------------------------------------------
\* The calls whose answer an attempt of a role at a case has taken over.
AppliedTo(a) ==
    {k \in model_call : k.applied /\ \E r \in agent_run : r.id = k.run /\ AttemptOf(r) = a}

\* Of all calls of an attempt, repeated and late ones included, one answer at most
\* is applied, by one run and under one purpose.
OneAnswerIsApplied ==
    \A a \in Cases \X Roles \X AttemptNumbers : \A j, k \in AppliedTo(a) : j = k

\* The runs above a run, itself excluded unless it is its own ancestor.
IsAncestorClosed(S, r) ==
    \A p \in agent_run :
        (p.id = r.parent \/ \E s \in agent_run : s.id \in S /\ s.parent = p.id) => p.id \in S

Ancestors(r) ==
    {i \in IdsOf(agent_run) :
        \A S \in SUBSET IdsOf(agent_run) : IsAncestorClosed(S, r) => i \in S}

\* What the Gate Engine has to look at before it records a verdict, the ancestors of a
\* run and their purposes, and the answers that were applied, is the same at every
\* later moment, however runs end, fail and are restarted: the check cannot become
\* stale.
Lineage(r) == {<<p.id, p.purpose>> : p \in {q \in agent_run : q.id \in Ancestors(r)}}

LineageStays ==
    [][/\ \A r \in agent_run :
             \E s \in agent_run' : s.id = r.id /\ s.purpose = r.purpose /\ Lineage(s)' = Lineage(r)
       /\ model_call \subseteq model_call']_runVars

=============================================================================
