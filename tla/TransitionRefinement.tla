------------------------ MODULE TransitionRefinement ------------------------
(***************************************************************************)
(* The refinement mapping from the tables to the case histories they stand *)
(* for: the path of a case is read off its rows of state_transition, and   *)
(* ends in the state of its row of case_record.  And the rules of the      *)
(* database, as seen from the protocol that runs under them.               *)
(***************************************************************************)
EXTENDS TransitionInvariants

Leaving(T, v) == CHOOSE t \in T : t.before = v

\* The path of a case with the transitions T, of which the last reached version top
\* and the state: the row was seeded at version top - n.
PathOf(T, top, state) ==
    LET n == Cardinality(T) IN
    [i \in 1 .. n + 1 |-> IF i <= n THEN Leaving(T, top - n + i - 1).from ELSE state]

Path(c) == PathOf(TransitionsOf(c), Top(c), case_record[c].state)

Paths == [c \in Cases |-> Path(c)]
Held == {c \in Cases : case_record[c].hold}
Announced == {o.notice : o \in outbox}

History == INSTANCE CaseHistory WITH
    path <- Paths, held <- Held, slot <- active_experiment_slot, announced <- Announced

\* The tables change only as a case history does, whatever the workers do.
ImplementsHistory == History!Spec

-----------------------------------------------------------------------------
\* A finite set of transitions that leave the versions below top, one each.
Consecutive(T, top) ==
    /\ IsFiniteSet(T)
    /\ {t.before : t \in T} = top - Cardinality(T) .. top - 1
    /\ \A s, t \in T : s.before = t.before => s = t

\* Every version of a case from the seeded one to the last one reached was left by
\* exactly one row of state_transition: the mapping reads the whole path.
NoVersionMissing == \A c \in Cases : Consecutive(TransitionsOf(c), Top(c))

-----------------------------------------------------------------------------
\* What the database adds is a second line of defence: with the row lock held and
\* the checks passed, neither the unique index on versions nor the trigger or a
\* CHECK of case_record is ever what stops a command.
RulesNeverRefuse ==
    \A w \in Workers :
        /\ pc[w] = "append_transition" => ~VersionTaken(TransitionRow(w))
        /\ pc[w] = "update_projection" =>
              UpdateAdmitted(case_record[cmd[w].case], UpdatedRow(w))

\* Whoever changes a row of case_record, when it is committed, changes it as the
\* trigger and the CHECKs let a single UPDATE of the committed row change it.
RowsChangeByTheRules ==
    [][\A c \in Cases :
          \/ case_record'[c] = case_record[c]
          \/ UpdateAdmitted(case_record[c], case_record'[c])]_vars

=============================================================================
