------------------------------ MODULE CaseStore ------------------------------
(***************************************************************************)
(* The row of one case under any sequence of statements the worker role    *)
(* may send (migration 0004 grants it INSERT and UPDATE, never DELETE).    *)
(* The engine's code is trusted to write sensible rows; the CHECKs and the *)
(* trigger of migration 0003 are what remains when it does not.            *)
(*                                                                         *)
(* A statement that a CHECK or the trigger refuses changes nothing and is  *)
(* not a step.  past records every version of the row ever committed.      *)
(***************************************************************************)
EXTENDS CaseRecord

CONSTANT Rows   \* the rows statements write

ASSUME RowAssumption == Rows \subseteq CaseRows

VARIABLES
    case_record,   \* the row
    past           \* the rows committed so far, this one included

caseVars == <<case_record, past>>

CaseTypeOK == case_record \in CaseRows /\ past \in SUBSET CaseRows

\* INSERT INTO case_record: the trigger guards updates only.
CaseInit ==
    /\ case_record \in {r \in Rows : ChecksPass(r)}
    /\ past = {case_record}

Update(r) ==
    /\ UpdateAdmitted(case_record, r)
    /\ case_record' = r
    /\ past' = past \cup {r}

CaseNext == \E r \in Rows : Update(r)

CaseSpec == CaseInit /\ [][CaseNext]_caseVars

-----------------------------------------------------------------------------
SameButHold(r, s) == [r EXCEPT !.hold = s.hold] = s

\* case_version identifies what a reader saw: two committed rows of one version
\* differ in their diagnostic columns only.  The version check of
\* apply_transition rests on it.
VersionNamesRow ==
    \A r, s \in past : r.version = s.version => SameButHold(r, s)

\* A case that was terminal once is the same terminal case ever after.
TerminalStays ==
    \A r \in past : IsTerminal(r) => SameButHold(r, case_record)

(***************************************************************************)
(* Section 3.1 of docs/14-data-model-persistence-spec-v0.3.md, row `case`  *)
(* (line 41), asks for two equivalences: current_status is set if and only *)
(* if the state has a product status, and terminal_locked_at is set if and *)
(* only if the status is a terminal one.                                   *)
(***************************************************************************)

\* The state of a stored row determines its status and its lock.
StatusFollowsState ==
    /\ case_record.status # NULL <=> case_record.state \in STATUS_STATES
    /\ IsTerminal(case_record) <=> case_record.status \in TERMINAL_STATES

=============================================================================
