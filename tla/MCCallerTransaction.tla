------------------------ MODULE MCCallerTransaction ------------------------
(***************************************************************************)
(* CallerTransaction for TLC: two connections whose callers run up to two  *)
(* commands in a transaction, on two cases or on one, in any order.        *)
(***************************************************************************)
EXTENDS CallerTransaction, TLC

Symmetry == Permutations(Cases) \cup Permutations(Sessions)

\* A case the tests seed, at version 1.
LiveSeed ==
    {[state |-> "EXECUTION", status |-> NULL, version |-> 1,
      lockedAt |-> NoTime, hold |-> FALSE]}

TwoTargets == {"EVIDENCE_COLLECTION", "CLOSED_COUNTED"}

=============================================================================
