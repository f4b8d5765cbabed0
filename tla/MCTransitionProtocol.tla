------------------------ MODULE MCTransitionProtocol ------------------------
(***************************************************************************)
(* Instances of TransitionProtocol for TLC.  The configurations name the   *)
(* cases and the workers as model values and choose among the sets below.  *)
(***************************************************************************)
EXTENDS TransitionRefinement, TLC

Symmetry == Permutations(Cases) \cup Permutations(Workers)

\* The rows the tests insert: at version 0 (test_database_invariants), at
\* version 1 (test_transition_protocol) and terminal.
Row(state, version, lockedAt) ==
    [state |-> state, status |-> IF state \in STATUS_STATES THEN state ELSE NULL,
     version |-> version, lockedAt |-> lockedAt, hold |-> FALSE]

SeededRow == Row("EXECUTION", 1, NoTime)
FreshRow == Row("EXECUTION", 0, NoTime)
LiveSeed == {SeededRow}
LiveAndFresh == {SeededRow, FreshRow}
EverySeed == {SeededRow, FreshRow, Row("CLOSED_COUNTED", 1, 1)}

\* An active, a paused and a terminal target, and one that is no state.
EveryTarget ==
    {"EVIDENCE_COLLECTION", "PAUSED_USER", "CLOSED_COUNTED", "NOT_IN_03"}
OneTarget == {"EVIDENCE_COLLECTION"}
TwoTargets == {"EVIDENCE_COLLECTION", "CLOSED_COUNTED"}

\* Two notifications that two commands may announce in opposite orders, and
\* one that a command announces twice.
TwoNotices == {"reminder", "decision"}
NoBatch == {<<>>}
Reminders == {<<>>, <<"reminder">>}
BothOrders == {<<"reminder", "decision">>, <<"decision", "reminder">>}
Colliding == BothOrders \cup {<<"reminder", "reminder">>}

-----------------------------------------------------------------------------
(***************************************************************************)
(* Two statements of docs/14-data-model-persistence-spec-v0.3.md the code  *)
(* does not keep.                                                          *)
(***************************************************************************)

\* The worker role executes the whole set of application commands (line 206).
\* A transition to a terminal state deletes the slot row, and the role has no
\* DELETE privilege on any table.
WorkerIsNeverDenied == \A w \in Workers : reply[w] # "denied"

\* A case whose version or state differs from its last transition is damaged
\* and belongs into a diagnostic hold (line 187).  Entering a hold makes such a
\* case out of any other: the trigger asks for a new version, and no transition
\* records it.
ProjectionMatchesLastTransition ==
    \A t \in state_transition :
        IsLast(t) => /\ case_record[t.case].state = t.to
                     /\ case_record[t.case].version = t.after

=============================================================================
