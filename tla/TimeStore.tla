------------------------------ MODULE TimeStore ------------------------------
(***************************************************************************)
(* The table preparation_interval, one row per job that prepares a case,   *)
(* and the view preparation_budget over it, under the statements migration *)
(* 0004 grants the worker.  Nothing runs them yet; the schema is the code. *)
(*                                                                         *)
(* The view takes an interval that is not closed to end at now(), which is *)
(* the start of the transaction that reads it.  Statements write moments   *)
(* that have come: no interval starts or ends after the clock.  Kinds,     *)
(* stages, leases and grants of time are left out.                         *)
(***************************************************************************)
EXTENDS Integers, FiniteSetsExt, TableRows

CONSTANTS
    IntervalIds,   \* the uuids of the intervals
    MaxClock       \* bound

OPEN == -1    \* ended_at IS NULL
IDLE == -1    \* nobody is reading

VARIABLES
    clock,
    preparation_interval,
    reading,    \* now() of the transaction that reads the view, or IDLE
    answer      \* what the last SELECT from the view returned

timeVars == <<clock, preparation_interval, reading, answer>>

TimeInit ==
    /\ clock = 0
    /\ preparation_interval = {}
    /\ reading = IDLE /\ answer = [kind |-> "none"]

Tick ==
    /\ clock < MaxClock
    /\ clock' = clock + 1
    /\ UNCHANGED <<preparation_interval, reading, answer>>

-----------------------------------------------------------------------------
\* CHECK (ended_at IS NULL OR ended_at >= started_at).
EndsAfterStart(row) == row.ended = OPEN \/ row.ended >= row.started

InsertInterval(i, c, start) ==
    /\ \A row \in preparation_interval : row.id # i
    /\ preparation_interval' = preparation_interval \cup
           {[id |-> i, case |-> c, started |-> start, ended |-> OPEN]}
    /\ UNCHANGED <<clock, reading, answer>>

\* pls_only_columns_change('ended_at') lets ended_at be written, any number of
\* times, to any moment and to NULL again.
UpdateEnd(row, moment) ==
    LET new == [row EXCEPT !.ended = moment] IN
    /\ EndsAfterStart(new)
    /\ preparation_interval' = (preparation_interval \ {row}) \cup {new}
    /\ UNCHANGED <<clock, reading, answer>>

-----------------------------------------------------------------------------
\* tstzrange(started_at, COALESCE(ended_at, now()), '[)'), which fails when its
\* bounds are reversed, and which range_agg skips when it is empty.
Upper(row, now) == IF row.ended = OPEN THEN now ELSE row.ended
RowsOf(c) == {row \in preparation_interval : row.case = c}
Reversed(c, now) == \E row \in RowsOf(c) : Upper(row, now) < row.started
RangesOf(c, now) ==
    {[low |-> row.started, high |-> Upper(row, now)] :
        row \in {r \in RowsOf(c) : r.started < Upper(r, now)}}

\* range_agg, of the server: ranges that overlap or touch become one.
Absorb(range, spans) ==
    LET near == {s \in spans : s.low <= range.high /\ range.low <= s.high} \cup {range}
    IN  (spans \ near) \cup
            {[low |-> Min({s.low : s \in near}), high |-> Max({s.high : s \in near})]}
range_agg(ranges) == FoldSet(Absorb, {}, ranges)

\* Mutant of preparation_budget: the ranges are added up as they are.
SummedUp(c, now) ==
    FoldSet(LAMBDA span, total : total + (span.high - span.low), 0, RangesOf(c, now))

preparation_budget(c, now) ==
    FoldSet(LAMBDA span, total : total + (span.high - span.low), 0,
            range_agg(RangesOf(c, now)))

BeginReading ==
    /\ reading = IDLE
    /\ reading' = clock
    /\ UNCHANGED <<clock, preparation_interval, answer>>

\* SELECT consumed_minutes FROM preparation_budget WHERE case_id = c: an error,
\* which ends the transaction, or a row, or none if the case has no time in it.
ReadBudget(c) ==
    /\ reading # IDLE
    /\ IF Reversed(c, reading)
       THEN answer' = [kind |-> "error"] /\ reading' = IDLE
       ELSE /\ answer' = IF RangesOf(c, reading) = {} THEN [kind |-> "none"]
                         ELSE [kind |-> "minutes", case |-> c, at |-> reading,
                               rows |-> RowsOf(c), minutes |-> preparation_budget(c, reading)]
            /\ UNCHANGED reading
    /\ UNCHANGED <<clock, preparation_interval>>

EndReading ==
    /\ reading # IDLE
    /\ reading' = IDLE
    /\ UNCHANGED <<clock, preparation_interval, answer>>

TimeNext ==
    \/ Tick
    \/ \E i \in IntervalIds, c \in Cases, start \in 0 .. clock : InsertInterval(i, c, start)
    \/ \E row \in preparation_interval, moment \in 0 .. clock : UpdateEnd(row, moment)
    \/ \E row \in preparation_interval : UpdateEnd(row, OPEN)
    \/ BeginReading
    \/ \E c \in Cases : ReadBudget(c)
    \/ EndReading

TimeSpec == TimeInit /\ [][TimeNext]_timeVars

-----------------------------------------------------------------------------
\* The moments some job of the case was at work, seen at a moment now.
Worked(rows, now) ==
    UNION {row.started .. (Upper(row, now) - 1) : row \in rows}

\* A budget that is answered is the time at least one job was at work: time in
\* which several intervals overlap counts once and time in none does not count.
TimeIsCountedOnce ==
    answer.kind = "minutes" =>
        answer.minutes = Cardinality(Worked(answer.rows, answer.at))

(***************************************************************************)
(* What the model specification says of the budget                          *)
(* (docs/14-data-model-persistence-spec-v0.3.md).                          *)
(***************************************************************************)

\* The budget is the length of the union of the intervals (line 104): there is
\* an answer for every case that has intervals.
BudgetIsAnswered == answer.kind # "error"

=============================================================================
