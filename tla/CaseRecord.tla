----------------------------- MODULE CaseRecord -----------------------------
(***************************************************************************)
(* A row of case_record, the canonical projection of a case: the states it *)
(* may be in (pls.state_machine), the CHECK constraints every stored row   *)
(* passes, the trigger every UPDATE of a row passes (migration 0003), and  *)
(* the checks and the UPDATE of apply_transition.                          *)
(*                                                                         *)
(* A row keeps the five columns the protocol reads or writes.  lockedAt is *)
(* terminal_locked_at: a time, or NoTime where the column is NULL.  The    *)
(* columns nothing here changes (created_at, current_revision_id,          *)
(* depth_level, timezone) are left out.                                    *)
(***************************************************************************)
EXTENDS Naturals, SqlLogic

ACTIVE_STATES ==
    {"INTAKE", "CLARIFICATION", "FACT_UNKNOWN_MAPPING", "EXPERIMENT_PLANNING",
     "DOSSIER_ASSEMBLY", "TECHNICAL_REVIEW", "SYSTEM_ACCEPTANCE",
     "USER_ACCEPTANCE", "EXECUTION", "EVIDENCE_COLLECTION",
     "REVIEW_CONDITION_HANDLING", "EXPERIMENT_CLOSURE", "DECISION_UPDATE",
     "REWORK_REQUIRED", "REVALIDATION_REQUIRED", "TECHNICAL_REVIEW_ESCALATION"}
PAUSED_STATES == {"PAUSED_USER", "PAUSED_EXTERNAL"}
TERMINAL_STATES ==
    {"CLOSED_COUNTED", "CLOSED_NOT_COUNTED", "REJECTED_BEFORE_EXECUTION"}
STATES == ACTIVE_STATES \cup PAUSED_STATES \cup TERMINAL_STATES
STATUS_STATES == PAUSED_STATES \cup TERMINAL_STATES

NoTime == 0

CaseRows ==
    [state : STATES, status : STATUS_STATES \cup {NULL}, version : Nat,
     lockedAt : Nat, hold : BOOLEAN]

IsTerminal(r) == r.lockedAt # NoTime

-----------------------------------------------------------------------------
(***************************************************************************)
(* The CHECK constraints of case_record, with the truth values SQL gives.  *)
(***************************************************************************)

ck_case_status_values(r) ==
    SqlOr(IsNull(r.status), SqlIn(r.status, STATUS_STATES))

ck_case_status_matches_state(r) ==
    SqlOr(IsNull(r.status), SqlEq(r.status, r.state))

ck_case_terminal_lock(r) ==
    SqlOr(SqlAnd(SqlIn(r.status, TERMINAL_STATES), Known(IsTerminal(r))),
          SqlAnd(SqlOr(IsNull(r.status), SqlIn(r.status, PAUSED_STATES)),
                 Known(~IsTerminal(r))))

ChecksPass(r) ==
    /\ CheckPasses(ck_case_status_values(r))
    /\ CheckPasses(ck_case_status_matches_state(r))
    /\ CheckPasses(ck_case_terminal_lock(r))

\* Mutants of pls_case_update_guard: no terminal branch, and < for <=.
VersionRuleOnly(old, new) == new.version > old.version

VersionMayStay(old, new) ==
    IF IsTerminal(old)
    THEN [old EXCEPT !.hold = new.hold] = new
    ELSE new.version >= old.version

(***************************************************************************)
(* BEFORE UPDATE: a terminal row changes in its diagnostic columns only,   *)
(* any other row only together with a larger case_version.                 *)
(***************************************************************************)
pls_case_update_guard(old, new) ==
    IF IsTerminal(old)
    THEN [old EXCEPT !.hold = new.hold] = new
    ELSE new.version > old.version

UpdateAdmitted(old, new) == pls_case_update_guard(old, new) /\ ChecksPass(new)

-----------------------------------------------------------------------------
(***************************************************************************)
(* What apply_transition asks of the row it has locked, and what it makes  *)
(* of it.                                                                  *)
(***************************************************************************)

\* Mutants of Admission: no version check, an off-by-one in it, no hold check.
AdmitAnyVersion(expected, facts) ==
    IF IsTerminal(facts) THEN "terminal"
    ELSE IF facts.hold THEN "hold"
    ELSE "admitted"

AdmitNextVersion(expected, facts) ==
    IF facts.version # expected + 1 THEN "version conflict"
    ELSE AdmitAnyVersion(expected, facts)

AdmitHeld(expected, facts) ==
    IF facts.version # expected THEN "version conflict"
    ELSE IF IsTerminal(facts) THEN "terminal"
    ELSE "admitted"

\* The checks on the locked row, in the order of the code.
Admission(expected, facts) ==
    IF facts.version # expected THEN "version conflict"
    ELSE IF IsTerminal(facts) THEN "terminal"
    ELSE IF facts.hold THEN "hold"
    ELSE "admitted"

\* Mutant of Projected: the UPDATE forgets current_status.
StatusKept(row, to, version, now) ==
    [row EXCEPT !.state = to,
                !.version = version,
                !.lockedAt = IF to \in TERMINAL_STATES THEN now ELSE @]

\* The UPDATE of _update_projection: it writes four columns of the row as it
\* stands, and terminal_locked_at only on entry to a terminal state.
Projected(row, to, version, now) ==
    [row EXCEPT !.state = to,
                !.status = IF to \in STATUS_STATES THEN to ELSE NULL,
                !.version = version,
                !.lockedAt = IF to \in TERMINAL_STATES THEN now ELSE @]

=============================================================================
