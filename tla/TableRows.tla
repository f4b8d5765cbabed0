------------------------------ MODULE TableRows ------------------------------
(***************************************************************************)
(* What the tables have in common: uuid keys (migration 0002), and a NULL  *)
(* that is no key.                                                         *)
(***************************************************************************)
EXTENDS Naturals, SqlLogic

CONSTANTS
    Ids,    \* uuids, of any table
    Cases   \* the cases that have a row

ASSUME IdAssumption == NULL \notin Ids

IdsOf(table) == {row.id : row \in table}

=============================================================================
