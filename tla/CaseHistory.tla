---------------------------- MODULE CaseHistory ----------------------------
(***************************************************************************)
(* What the transition protocol promises of the cases, without workers,    *)
(* transactions or tables: each case has a path, the states it has been    *)
(* in; a path grows by one state at a time, in one atomic step that also   *)
(* announces its notifications and frees the experiment slot; a terminal   *)
(* case and a case under diagnostic hold stay where they are.              *)
(***************************************************************************)
EXTENDS Sequences, CaseRecord

CONSTANTS Cases, NoCase, Notices

VARIABLES
    path,       \* the states of each case, oldest first
    held,       \* the cases under diagnostic hold
    slot,       \* the case that runs the experiment, or NoCase
    announced   \* the notifications promised to be delivered

vars == <<path, held, slot, announced>>

Current(c) == path[c][Len(path[c])]
Closed(c) == Current(c) \in TERMINAL_STATES

Init ==
    /\ path \in [Cases -> {<<s>> : s \in STATES}]
    /\ held = {}
    /\ slot = NoCase
    /\ announced = {}

Advance(c) ==
    /\ ~Closed(c)
    /\ c \notin held
    /\ \E to \in STATES :
         /\ path' = [path EXCEPT ![c] = Append(@, to)]
         /\ slot' = IF to \in TERMINAL_STATES /\ slot = c THEN NoCase ELSE slot
    /\ \E news \in SUBSET (Notices \ announced) : announced' = announced \cup news
    /\ held' = held

Hold(c) ==
    /\ c \notin held
    /\ held' = held \cup {c}
    /\ UNCHANGED <<path, slot, announced>>

\* Only a case that runs claims the slot: assumed of the claimant, see ClaimSlot of
\* TransitionProtocol.  So a slot is given back by the step that closes its case.
Claim(c) ==
    /\ slot = NoCase
    /\ ~Closed(c)
    /\ slot' = c
    /\ UNCHANGED <<path, held, announced>>

Next == \E c \in Cases : Advance(c) \/ Hold(c) \/ Claim(c)

Spec == Init /\ [][Next]_vars

=============================================================================
