-------------------------- MODULE CallerInvariants --------------------------
(***************************************************************************)
(* The inductive invariant behind the safety properties of                 *)
(* CallerTransaction.  A session that has written a row holds its lock, so *)
(* each case has at most one version besides the committed one; the chain  *)
(* of moves is stated for what each session sees, and COMMIT makes one of  *)
(* these views the committed one.                                          *)
(***************************************************************************)
EXTENDS CallerTransaction

TxIds == Sessions \X Nat

MoveRows ==
    [tx : TxIds, case : Cases, from : STATES, to : STATES,
     before : Nat, after : Nat, at : Nat \ {NoTime}]

NoticeRows == [tx : TxIds, notice : Notices]
ReceiptRows == [tx : TxIds, key : Keys]

Commands ==
    [case : Cases \cup {NoCase}, expected : Nat, to : STATES,
     notice : Notices \cup {NoNotice}, facts : CaseRows, fresh : BOOLEAN,
     key : Keys \cup {NULL}]

Transactions ==
    [began : Nat, rows : [Cases -> CaseRows], moves : SUBSET MoveRows,
     notices : SUBSET NoticeRows, receipts : SUBSET ReceiptRows,
     released : SUBSET Cases, commands : Nat]

TypeOK ==
    /\ case_record \in [Cases -> CaseRows]
    /\ \A c \in Cases : case_record[c].version > 0
    /\ active_experiment_slot \in Cases \cup {NoCase}
    /\ state_transition \subseteq MoveRows
    /\ outbox \subseteq NoticeRows
    /\ command_receipt \subseteq ReceiptRows
    /\ lock \in [Cases -> Sessions \cup {NoOne}]
    /\ clock \in Nat \ {NoTime}
    /\ pc \in [Sessions -> {"idle", "open", "lock", "write", "receipt"}]
    /\ cmd \in [Sessions -> Commands]
    /\ txn \in [Sessions -> Transactions]
    /\ opened \in [Sessions -> Nat]
    /\ committed \subseteq TxIds
    /\ told \subseteq MoveRows

\* What a session has written it has locked; what it has judged it still sees; a
\* savepoint gives up no lock that an earlier command of the transaction needs.
SessionInv(s) ==
    /\ pc[s] = "idle" => txn[s] = NoTxn
    /\ pc[s] # "idle" => txn[s].began # NoTime
    /\ \A c \in Cases : Wrote(s, c) => lock[c] = s
    /\ pc[s] \in {"lock", "write"} => cmd[s].case \in Cases
    /\ pc[s] = "receipt" => cmd[s].key \in Keys
    /\ pc[s] = "lock" => ~cmd[s].fresh
    /\ pc[s] = "write" =>
          /\ lock[cmd[s].case] = s
          /\ cmd[s].facts = Seen(s, cmd[s].case)
          /\ cmd[s].fresh => ~Wrote(s, cmd[s].case)

\* The private moves of a session lead from the committed row to the one it sees.
Promised(s, c) ==
    /\ IsFiniteSet(MovesOf(s, c))
    /\ {m.after : m \in MovesOf(s, c)} = case_record[c].version + 1 .. Seen(s, c).version
    /\ Cardinality(MovesOf(s, c)) = Seen(s, c).version - case_record[c].version
    /\ Wrote(s, c) => ~IsTerminal(case_record[c])
    /\ Wrote(s, c) /\ IsTerminal(txn[s].rows[c]) => c \in txn[s].released

\* What an open transaction has done carries its identifier, and no other row does.
OwnRows(s) ==
    /\ \A m \in txn[s].moves : m.tx = Tx(s) /\ m \in told
    /\ \A row \in txn[s].notices \cup txn[s].receipts : row.tx = Tx(s)
    /\ pc[s] # "idle" => Tx(s) \notin committed
    /\ \A m \in told : pc[s] # "idle" /\ m.tx = Tx(s) => m \in txn[s].moves

NoFutureIds ==
    /\ \A tx \in committed : tx[2] <= opened[tx[1]]
    /\ \A m \in told : m.tx[2] <= opened[m.tx[1]]

\* A notification and a key are in one place: the table, or one transaction.
OnePlace(s) ==
    /\ \A o \in txn[s].notices :
          /\ \A p \in txn[s].notices : o.notice = p.notice => o = p
          /\ \A p \in outbox : o.notice # p.notice
          /\ \A v \in Sessions \ {s} : \A p \in txn[v].notices : o.notice # p.notice
    /\ \A r \in txn[s].receipts :
          /\ \A q \in command_receipt : r.key # q.key
          /\ \A v \in Sessions \ {s} : \A q \in txn[v].receipts : r.key # q.key

\* A chain of moves of one case that ends in row.
Chain(moves, row) ==
    /\ \A l, m \in moves :
          /\ l.before = m.before => l = m
          /\ l.after = m.before => l.to = m.from
    /\ \A m \in moves :
          /\ m.after = m.before + 1
          /\ m.after <= row.version
          /\ m.after = row.version => m.to = row.state
          /\ m.to \in TERMINAL_STATES => <<m.after, m.at>> = <<row.version, row.lockedAt>>

CommittedMoves(c) == {m \in state_transition : m.case = c}

ChainInv ==
    \A c \in Cases :
        /\ Chain(CommittedMoves(c), case_record[c])
        /\ \A s \in Sessions : Chain(CommittedMoves(c) \cup MovesOf(s, c), Seen(s, c))

SlotHolderIsLive ==
    \A c \in Cases : active_experiment_slot = c => ~IsTerminal(case_record[c])

LockInv == \A s \in Sessions : SessionInv(s)
PromiseInv == \A s \in Sessions, c \in Cases : Promised(s, c)
WholeInv == (\A s \in Sessions : OwnRows(s)) /\ NoFutureIds /\ TransactionIsWhole
PlaceInv == (\A s \in Sessions : OnePlace(s)) /\ NoticeHasOneOwner /\ KeyHasOneEffect

IInv ==
    /\ TypeOK
    /\ LockInv
    /\ PromiseInv
    /\ WholeInv
    /\ PlaceInv
    /\ ChainInv
    /\ SlotHolderIsLive

=============================================================================
