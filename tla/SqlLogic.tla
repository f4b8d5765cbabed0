------------------------------ MODULE SqlLogic ------------------------------
(***************************************************************************)
(* The three-valued logic PostgreSQL evaluates the CHECK constraints of    *)
(* the schema with.  A comparison with NULL is UNKNOWN, and a CHECK        *)
(* constraint refuses a row only when its condition is FALSE: a row for    *)
(* which the condition is UNKNOWN is stored.  This is the behaviour of the *)
(* database server, which the migrations rely on and do not define.        *)
(***************************************************************************)

NULL == "NULL"

True == "true"
False == "false"
Unknown == "unknown"

TruthValues == {True, False, Unknown}

\* The truth value of a condition that cannot be UNKNOWN.
Known(p) == IF p THEN True ELSE False

SqlAnd(p, q) ==
    IF p = False \/ q = False THEN False
    ELSE IF p = True /\ q = True THEN True
    ELSE Unknown

SqlOr(p, q) ==
    IF p = True \/ q = True THEN True
    ELSE IF p = False /\ q = False THEN False
    ELSE Unknown

IsNull(x) == Known(x = NULL)
IsNotNull(x) == Known(x # NULL)

\* x = y and x IN (...), for values that may be NULL.
SqlEq(x, y) == IF x = NULL \/ y = NULL THEN Unknown ELSE Known(x = y)
SqlIn(x, S) == IF x = NULL THEN Unknown ELSE Known(x \in S)

\* A CHECK constraint is violated only by FALSE.
CheckPasses(p) == p # False

=============================================================================
