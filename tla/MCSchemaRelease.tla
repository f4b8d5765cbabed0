-------------------------- MODULE MCSchemaRelease --------------------------
(***************************************************************************)
(* SchemaRelease for TLC: the image of revision 0004 and the one of 0005,  *)
(* each with a worker, from an empty database on.                          *)
(***************************************************************************)
EXTENDS SchemaRelease

TwoImages == {4, 5}

HeadsConfigured == [i \in TwoImages |-> i]

TwoWorkers == {14, 15}
Homes == [w \in TwoWorkers |-> w - 10]

\* A dismissal without a case and a transition out of nothing, which 0005 does not
\* admit, and a genesis, which nothing before 0005 does.
OldDismissal == {[id |-> "d1", case |-> NULL]}
OldAndNewTransitions ==
    {[id |-> "t1", before |-> 0, after |-> 1, from |-> "INTAKE", to |-> "EXECUTION"],
     [id |-> "t2", before |-> 0, after |-> 1, from |-> NULL, to |-> "INTAKE"]}

=============================================================================
