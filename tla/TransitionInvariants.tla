------------------------ MODULE TransitionInvariants ------------------------
(***************************************************************************)
(* The inductive invariant behind the safety properties of                 *)
(* TransitionProtocol.  Its core is the row lock: between LoadCaseFacts    *)
(* and the end of the transaction nobody else writes the row, so what was  *)
(* read, checked and prepared there still fits the row at Commit.          *)
(***************************************************************************)
EXTENDS TransitionProtocol

\* The statements executed with the row lock, after the checks passed, with
\* the transition row written, and with the projection written.
Locked == Steps \ {"idle", "load"}
Admitted == Locked \ {"check"}
Moved == {"update_projection", "append_outbox"}

CurrentFacts(w) ==
    pc[w] \in Locked =>
        /\ cmd[w].case \in Cases
        /\ lock[cmd[w].case] = w
        /\ txn[w].facts = case_record[cmd[w].case]

AdmittedFacts(w) ==
    pc[w] \in Admitted =>
        /\ txn[w].facts.version = cmd[w].expected
        /\ ~Frozen(txn[w].facts)

\* What the transaction has written so far, and that it is about its own case.
PrivateWrites(w) ==
    /\ pc[w] # "idle" => txn[w].began \in 1 .. clock
    /\ pc[w] = "idle" => txn[w].events = {} /\ txn[w].outbox = {}
    /\ \A e \in txn[w].events : e.case = cmd[w].case
    /\ \A o \in txn[w].outbox : o.case = cmd[w].case
    /\ pc[w] \in Moved => txn[w].transitions = {TransitionRow(w)}
    /\ pc[w] = "append_outbox" =>
          /\ txn[w].row = UpdatedRow(w)
          /\ txn[w].released = SlotRowsDeleted(w)

\* A caller expects a version the case has had; a conflict proves it stale.
HonestVersions(w) ==
    /\ cmd[w].case \in Cases => cmd[w].expected <= case_record[cmd[w].case].version
    /\ reply[w] = "version conflict" =>
          /\ cmd[w].case \in Cases
          /\ cmd[w].expected < case_record[cmd[w].case].version

WorkersInv ==
    \A w \in Workers : /\ CurrentFacts(w)
                       /\ AdmittedFacts(w)
                       /\ PrivateWrites(w)
                       /\ HonestVersions(w)

\* The version the last transition reached: a hold adds one on top of it.
Top(c) ==
    case_record[c].version -
        (IF case_record[c].hold /\ ~IsTerminal(case_record[c]) THEN 1 ELSE 0)

LedgerInv ==
    \A t \in state_transition :
        /\ t.after = t.before + 1
        /\ t.after <= Top(t.case)
        /\ t.after = Top(t.case) => t.to = case_record[t.case].state
        /\ \E u \in state_transition : u.case = t.case /\ u.after = Top(t.case)

\* The part that the locks keep together.
RowInv ==
    /\ TypeOK
    /\ WorkersInv
    /\ ColumnsAgree
    /\ SlotHolderIsLive
    /\ LedgerInv
    /\ LedgerChains

\* A notification is in one place: the table, or one transaction.
NoticeInv ==
    /\ NoticeAnnouncedOnce
    /\ \A w \in Workers : \A o \in txn[w].outbox :
          /\ \A p \in txn[w].outbox : o.notice = p.notice => o = p
          /\ \A p \in outbox : o.notice # p.notice
          /\ \A v \in Workers \ {w} : \A p \in txn[v].outbox : o.notice # p.notice

Elements(s) == {s[i] : i \in DOMAIN s}

\* What a transaction has written carries the identifier of its command; what it has
\* announced and what it still has to announce is the batch of the command.
OwnWrites(w) ==
    /\ \A o \in txn[w].outbox : o.event = Id(w)
    /\ pc[w] \in {"append_transition"} \cup Moved =>
          txn[w].events = {[id |-> Id(w), case |-> cmd[w].case, at |-> Now(w)]}
    /\ pc[w] \in {"load"} \cup (Locked \ {"append_outbox"}) =>
          txn[w].outbox = {} /\ txn[w].left = cmd[w].notices
    /\ pc[w] = "append_outbox" =>
          InFlight(w) \cup Elements(txn[w].left) = Elements(cmd[w].notices)

\* No committed row carries the identifier of a command that is still to come.
NoFutureIds ==
    /\ \A e \in event : e.id[2] <= attempts[e.id[1]]
    /\ \A t \in state_transition : t.event[2] <= attempts[t.event[1]]
    /\ \A o \in outbox : o.event[2] <= attempts[o.event[1]]

EffectInv ==
    /\ AnswerMatchesEffect
    /\ \A w \in Workers : OwnWrites(w)
    /\ NoFutureIds

\* A command that waits began no earlier than the version it expects was written.
ChronicleInv ==
    /\ HistoryIsChronological
    /\ \A e, f \in event : e.id = f.id => e = f
    /\ \A e \in event : e.at <= clock
    /\ \A t \in state_transition : \E e \in event : e.id = t.event
    /\ \A w \in Workers : \A t \in state_transition :
          pc[w] # "idle" /\ t.case = cmd[w].case /\ t.after <= cmd[w].expected =>
              OccurredAt(t) <= txn[w].began

IInv == RowInv /\ NoticeInv /\ EffectInv /\ ChronicleInv

-----------------------------------------------------------------------------
(***************************************************************************)
(* Waiting, whatever for: FOR UPDATE for the holder of the row lock, and   *)
(* the loop over the notifications for an uncommitted duplicate.           *)
(***************************************************************************)

RowWait(w, v) == pc[w] = "load" /\ cmd[w].case \in Cases /\ lock[cmd[w].case] = v
Blocked(w, v) == RowWait(w, v) \/ WaitsFor(w, v)

\* Transactions each of which waits for one of them and keeps one waiting.
WaitCycle(S) ==
    \A x \in S : /\ \E y \in S : Blocked(x, y)
               /\ \E y \in S : Blocked(y, x)

\* A lock is held by a transaction that has executed FOR UPDATE on that row.
HoldersHaveLoaded ==
    \A c \in Cases, w \in Workers : lock[c] = w => pc[w] \in Locked

\* FOR UPDATE comes first in a transaction, so nobody waits for one that waits for
\* a row lock: all that can close a cycle of waits is the loop over the
\* notifications, and AbortDeadlocked, which looks at those waits only, sees every
\* cycle.
EveryCycleIsSeen ==
    \A S \in SUBSET Workers : WaitCycle(S) => \A w \in S : Deadlocked(w)

=============================================================================
