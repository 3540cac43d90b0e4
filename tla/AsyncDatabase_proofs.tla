------------------------ MODULE AsyncDatabase_proofs ------------------------
(***************************************************************************)
(* Proofs about AsyncDatabase, for every set of client threads and every   *)
(* bound.                                                                  *)
(***************************************************************************)
EXTENDS AsyncDatabase, TLAPS

LEMMA SuffixAppend ==
    ASSUME NEW S, NEW s \in Seq(S), NEW u \in Seq(S), NEW x \in S,
           EndsWith(s, u)
    PROVE  EndsWith(Append(s, x), Append(u, x))
<1>1. /\ Len(u) \in Nat /\ Len(s) \in Nat /\ Len(u) <= Len(s)
      /\ Len(Append(u, x)) = Len(u) + 1
      /\ Len(Append(s, x)) = Len(s) + 1
  BY DEF EndsWith
<1>2. ASSUME NEW k \in 1..Len(u) + 1
      PROVE  Append(u, x)[k] = Append(s, x)[Len(s) - Len(u) + k]
  <2>1. CASE k = Len(u) + 1
    BY <1>1, <2>1
  <2>2. CASE k \in 1..Len(u)
    BY <1>1, <2>2 DEF EndsWith
  <2> QED
    BY <1>1, <2>1, <2>2
<1>3. (Len(s) + 1) - (Len(u) + 1) = Len(s) - Len(u)
  BY <1>1
<1> QED
  BY <1>1, <1>2, <1>3 DEF EndsWith

LEMMA SuffixTail ==
    ASSUME NEW S, NEW s \in Seq(S), NEW u \in Seq(S), u # <<>>,
           EndsWith(s, u)
    PROVE  EndsWith(s, Tail(u))
BY DEF EndsWith

LEMMA RangeSubset ==
    ASSUME NEW S, NEW s \in Seq(S)
    PROVE  Range(s) \in SUBSET S
BY DEF Range

-----------------------------------------------------------------------------
(* Types of the values the actions build.                                  *)

LEMMA RequestTypes ==
    /\ \A n \in Stmts : Plain(n) \in Ops /\ Query(n) \in Ops
    /\ \A q \in StmtSeq : Transaction(q) \in Ops
BY DEF Plain, Query, Transaction, Ops, Kinds, StmtSeq

LEMMA IdleType == Idle \in Executions /\ Idle.ph = "idle"
BY DEF Idle, Transaction, Executions, Phases, Ops, Kinds, StmtSeq, Stmts

LEMMA ExecutionFields ==
    ASSUME NEW e \in Executions
    PROVE  /\ e.ph \in Phases /\ e.op \in Ops /\ e.i \in Nat
           /\ e.saw \in SUBSET Stmts
           /\ e.op.stmts \in StmtSeq /\ e.op.kind \in Kinds
           /\ \A p \in Phases : [e EXCEPT !.ph = p] \in Executions
           /\ \A p \in Phases, i \in Nat, S \in SUBSET Stmts :
                 /\ [e EXCEPT !.i = i, !.ph = p] \in Executions
                 /\ [e EXCEPT !.ph = p, !.saw = S] \in Executions
BY DEF Executions, Ops

LEMMA TransactionFields ==
    ASSUME NEW x \in Transactions
    PROVE  /\ x.stmts \in StmtSeq
           /\ x.open \in BOOLEAN
           /\ x.open => \A q \in StmtSeq : [x EXCEPT !.stmts = q] \in Transactions
<1>1. CASE x = NoTx
  BY <1>1 DEF NoTx, StmtSeq
<1>2. CASE x \in [open : {TRUE}, stmts : StmtSeq]
  BY <1>2 DEF Transactions
<1> QED
  BY <1>1, <1>2 DEF Transactions

LEMMA NewTransaction ==
    /\ NoTx \in Transactions
    /\ [open |-> TRUE, stmts |-> <<>>] \in Transactions
BY DEF Transactions, StmtSeq

LEMMA FreshType ==
    ASSUME TypeOK, MayCreate
    PROVE  Fresh \in Stmts /\ Fresh = Len(owner) + 1
BY BoundAssumption DEF TypeOK, MayCreate, Fresh, Stmts

LEMMA BeginOutcomesType == BeginOutcomes \subseteq BOOLEAN
BY DEF BeginOutcomes

LEMMA StartExecuteType ==
    ASSUME TypeOK, NEW t \in Thread, NEW op \in Ops, StartExecute(t, op)
    PROVE  exec' \in [Thread -> Executions]
<1>1. [ph |-> "lock", op |-> op, i |-> 1, saw |-> {}] \in Executions
  BY DEF Executions, Phases
<1> QED
  BY <1>1 DEF StartExecute, TypeOK

LEMMA DelayType ==
    ASSUME TypeOK, NEW c \in Client, NEW op \in Ops, Delay(c, op)
    PROVE  /\ queue' \in Seq(Ops)
           /\ sent' \in Seq(Ops)
           /\ nullBody' \in SUBSET Client
<1>1. /\ queue \in Seq(Ops) /\ sent \in Seq(Ops) /\ nullBody \in SUBSET Client
  BY DEF TypeOK
<1>2. CASE dpc = "deleted"
  BY <1>1, <1>2 DEF Delay
<1>3. CASE dpc # "deleted"
  <2>1. queue' = Append(queue, op) /\ sent' = Append(sent, op)
    BY <1>3, Zenon DEF Delay
  <2>2. nullBody' = nullBody
    BY <1>3, Zenon DEF Delay
  <2>3. queue' \in Seq(Ops) /\ sent' \in Seq(Ops)
    BY <1>1, <2>1
  <2> QED
    BY <1>1, <2>2, <2>3
<1> QED
  BY <1>2, <1>3

-----------------------------------------------------------------------------
\* Type correctness of Database, SqlDelayThread and SqlResultQueue.
LEMMA TypeInit == Init => TypeOK
<1> SUFFICES ASSUME Init PROVE TypeOK
  OBVIOUS
<1>1. /\ tx \in [Client -> Transactions]
      /\ exec \in [Thread -> Executions]
  BY IdleType, NewTransaction DEF Init
<1>2. /\ queue \in Seq(Ops) /\ local \in Seq(Ops) /\ sent \in Seq(Ops)
      /\ results \in Seq(Answers) /\ called \in Seq(Answers)
      /\ txBuf \in StmtSeq /\ db \in StmtSeq /\ owner \in Seq(Client)
      /\ txs \in Seq(StmtSeq)
  BY DEF Init, StmtSeq
<1>3. Len(owner) <= MaxStmts
  BY BoundAssumption DEF Init
<1> QED
  BY <1>1, <1>2, <1>3 DEF Init, TypeOK

LEMMA TypeNext == TypeOK /\ AtStatement /\ [Next]_vars => TypeOK'
<1> SUFFICES ASSUME TypeOK, AtStatement, [Next]_vars PROVE TypeOK'
  OBVIOUS
<1>t. \A c \in Client : c \in Thread
  BY DEF Thread
<1>e. \A t \in Thread : exec[t] \in Executions
  BY DEF TypeOK
<1>x. \A c \in Client : tx[c] \in Transactions
  BY DEF TypeOK
<1>1. ASSUME NEW c \in Client, BeginTransaction(c) PROVE TypeOK'
  <2>1. tx' \in [Client -> Transactions]
    BY <1>1, NewTransaction DEF BeginTransaction, TypeOK
  <2> QED
    BY <1>1, <2>1 DEF BeginTransaction, serverVars, TypeOK
<1>2. ASSUME NEW c \in Client, Execute(c) PROVE TypeOK'
  <2>1. Fresh \in Stmts /\ Fresh = Len(owner) + 1
    BY <1>2, FreshType DEF Execute
  <2>2. owner' \in Seq(Client) /\ Len(owner') <= MaxStmts
    BY <1>2, BoundAssumption DEF Execute, MayCreate, TypeOK
  <2>3. CASE tx[c].open /\ UNCHANGED <<queue, sent, nullBody, exec>>
               /\ tx' = [tx EXCEPT ![c].stmts = Append(@, Fresh)]
    <3>1. Append(tx[c].stmts, Fresh) \in StmtSeq
      BY <1>x, <2>1, TransactionFields DEF StmtSeq
    <3>2. tx' \in [Client -> Transactions]
      BY <1>x, <2>3, <3>1, TransactionFields DEF TypeOK
    <3> QED
      BY <1>2, <2>2, <2>3, <3>2 DEF Execute, serverVars, TypeOK
  <2>4. CASE Delay(c, Plain(Fresh)) /\ UNCHANGED <<tx, exec>>
    <3>1. queue' \in Seq(Ops) /\ sent' \in Seq(Ops) /\ nullBody' \in SUBSET Client
      BY <2>1, <2>4, DelayType, RequestTypes
    <3> QED
      BY <1>2, <2>2, <2>4, <3>1 DEF Execute, serverVars, TypeOK
  <2>5. CASE StartExecute(c, Plain(Fresh)) /\ UNCHANGED <<tx, queue, sent, nullBody>>
    <3>1. exec' \in [Thread -> Executions]
      BY <1>t, <2>1, <2>5, StartExecuteType, RequestTypes
    <3> QED
      BY <1>2, <2>2, <2>5, <3>1 DEF Execute, serverVars, TypeOK
  <2> QED
    BY <1>2, <2>3, <2>4, <2>5 DEF Execute
<1>3. ASSUME NEW c \in Client, DirectExecute(c) PROVE TypeOK'
  <2>1. Fresh \in Stmts
    BY <1>3, FreshType DEF DirectExecute
  <2>2. owner' \in Seq(Client) /\ Len(owner') <= MaxStmts
    BY <1>3, BoundAssumption DEF DirectExecute, MayCreate, TypeOK
  <2>3. exec' \in [Thread -> Executions]
    BY <1>t, <1>3, <2>1, StartExecuteType, RequestTypes DEF DirectExecute
  <2> QED
    BY <1>3, <2>2, <2>3 DEF DirectExecute, serverVars, TypeOK
<1>4. ASSUME NEW c \in Client, CommitTransaction(c) PROVE TypeOK'
  <2>1. tx[c].stmts \in StmtSeq /\ Transaction(tx[c].stmts) \in Ops
    BY <1>x, TransactionFields, RequestTypes
  <2>2. tx' \in [Client -> Transactions] /\ txs' \in Seq(StmtSeq)
    BY <1>4, <2>1, NewTransaction DEF CommitTransaction, Release, TypeOK
  <2>3. CASE Delay(c, Transaction(tx[c].stmts)) /\ UNCHANGED exec
    <3>1. queue' \in Seq(Ops) /\ sent' \in Seq(Ops) /\ nullBody' \in SUBSET Client
      BY <2>1, <2>3, DelayType
    <3> QED
      BY <1>4, <2>2, <2>3, <3>1 DEF CommitTransaction, serverVars, TypeOK
  <2>4. CASE StartExecute(c, Transaction(tx[c].stmts))
               /\ UNCHANGED <<queue, sent, nullBody>>
    <3>1. exec' \in [Thread -> Executions]
      BY <1>t, <2>1, <2>4, StartExecuteType
    <3> QED
      BY <1>4, <2>2, <2>4, <3>1 DEF CommitTransaction, serverVars, TypeOK
  <2> QED
    BY <1>4, <2>3, <2>4 DEF CommitTransaction
<1>5. ASSUME NEW c \in Client, CommitTransactionDirect(c) PROVE TypeOK'
  <2>1. tx[c].stmts \in StmtSeq /\ Transaction(tx[c].stmts) \in Ops
    BY <1>x, TransactionFields, RequestTypes
  <2>2. tx' \in [Client -> Transactions] /\ txs' \in Seq(StmtSeq)
    BY <1>5, <2>1, NewTransaction DEF CommitTransactionDirect, Release, TypeOK
  <2>3. exec' \in [Thread -> Executions]
    BY <1>t, <1>5, <2>1, StartExecuteType DEF CommitTransactionDirect
  <2> QED
    BY <1>5, <2>2, <2>3 DEF CommitTransactionDirect, serverVars, TypeOK
<1>6. ASSUME NEW c \in Client, RollbackTransaction(c) PROVE TypeOK'
  <2>1. Range(tx[c].stmts) \in SUBSET Stmts
    BY <1>x, TransactionFields, RangeSubset DEF StmtSeq
  <2>2. tx' \in [Client -> Transactions] /\ failed' \in SUBSET Stmts
    BY <1>6, <2>1, NewTransaction DEF RollbackTransaction, Release, TypeOK
  <2> QED
    BY <1>6, <2>2 DEF RollbackTransaction, TypeOK
<1>7. ASSUME NEW c \in Client, AsyncQuery(c) PROVE TypeOK'
  <2>1. Fresh \in Stmts
    BY <1>7, FreshType DEF AsyncQuery
  <2>2. owner' \in Seq(Client) /\ Len(owner') <= MaxStmts
    BY <1>7, BoundAssumption DEF AsyncQuery, MayCreate, TypeOK
  <2>3. queue' \in Seq(Ops) /\ sent' \in Seq(Ops) /\ nullBody' \in SUBSET Client
    BY <1>7, <2>1, DelayType, RequestTypes DEF AsyncQuery
  <2> QED
    BY <1>7, <2>2, <2>3 DEF AsyncQuery, serverVars, TypeOK
<1>8. ASSUME NEW c \in Client, ClientEnds(c) PROVE TypeOK'
  BY <1>8 DEF ClientEnds, requestVars, serverVars, TypeOK
<1>9. ASSUME NEW t \in Thread, LockConnection(t) PROVE TypeOK'
  <2>1. exec' \in [Thread -> Executions]
    BY <1>9, <1>e, ExecutionFields DEF LockConnection, TypeOK, Phases
  <2>2. inTrans' \in BOOLEAN /\ txBuf' \in StmtSeq
    <3>1. CASE exec[t].op.kind = "tx"
      <4>1. inTrans' \in BeginOutcomes /\ txBuf' = <<>>
        BY <1>9, <3>1, Zenon DEF LockConnection
      <4>2. inTrans' \in BOOLEAN
        BY <4>1, BeginOutcomesType
      <4>3. txBuf' \in StmtSeq
        BY <4>1 DEF StmtSeq
      <4> QED
        BY <4>2, <4>3
    <3>2. CASE exec[t].op.kind # "tx"
      BY <1>9, <3>2 DEF LockConnection, TypeOK
    <3> QED
      BY <3>1, <3>2
  <2> QED
    BY <1>9, <2>1, <2>2 DEF LockConnection, requestVars, TypeOK
<1>10. ASSUME NEW t \in Thread, StatementDone(t) PROVE TypeOK'
  <2>1. exec[t].op.stmts \in StmtSeq /\ exec[t].i \in Nat
    BY <1>e, ExecutionFields
  <2>2. exec[t].op.stmts[exec[t].i] \in Stmts
    BY <1>10, <2>1 DEF StatementDone, StmtSeq, AtStatement
  <2>3. txBuf' \in StmtSeq /\ db' \in StmtSeq
    <3>0. txBuf \in StmtSeq /\ db \in StmtSeq
      BY DEF TypeOK
    <3>a. \A q \in StmtSeq :
             Append(q, exec[t].op.stmts[exec[t].i]) \in StmtSeq
      BY <2>2 DEF StmtSeq
    <3>1. CASE inTrans
      <4>1. /\ txBuf' = Append(txBuf, exec[t].op.stmts[exec[t].i])
            /\ db' = db
        BY <1>10, <3>1, Zenon DEF StatementDone
      <4> QED
        BY <3>0, <3>a, <4>1
    <3>2. CASE ~inTrans
      <4>1. /\ db' = Append(db, exec[t].op.stmts[exec[t].i])
            /\ txBuf' = txBuf
        BY <1>10, <3>2, Zenon DEF StatementDone
      <4> QED
        BY <3>0, <3>a, <4>1
    <3> QED
      BY <3>1, <3>2
  <2>4. exec' \in [Thread -> Executions]
    <3>1. CASE exec[t].op.kind = "plain"
      BY <1>10, <3>1, IdleType DEF StatementDone, TypeOK
    <3>2. CASE exec[t].op.kind # "plain"
      <4> DEFINE ph == IF exec[t].i = Len(exec[t].op.stmts)
                       THEN "commit" ELSE "stmt"
                 e == [exec[t] EXCEPT !.i = exec[t].i + 1, !.ph = ph]
      <4>0. exec \in [Thread -> Executions]
        BY DEF TypeOK
      <4>1. exec' = [exec EXCEPT ![t].i = @ + 1, ![t].ph = ph]
        BY <1>10, <3>2 DEF StatementDone
      <4>2. exec' = [exec EXCEPT ![t] = e]
        BY <4>0, <4>1
      <4>3. ph \in Phases /\ exec[t].i + 1 \in Nat
        BY <2>1 DEF Phases
      <4>4. e \in Executions
        <5> HIDE DEF ph
        <5> QED
          BY <1>e, <4>3, ExecutionFields
      <4> HIDE DEF e
      <4> QED
        BY <4>0, <4>2, <4>4
    <3> QED
      BY <3>1, <3>2
  <2> QED
    BY <1>10, <2>3, <2>4 DEF StatementDone, requestVars, TypeOK
<1>11. ASSUME NEW t \in Thread, StatementFailed(t) PROVE TypeOK'
  <2>1. Range(exec[t].op.stmts) \in SUBSET Stmts
    BY <1>e, ExecutionFields, RangeSubset DEF StmtSeq
  <2>2. failed' \in SUBSET Stmts
    BY <1>11, <2>1 DEF StatementFailed, TypeOK
  <2>3. exec' \in [Thread -> Executions]
    BY <1>11, IdleType DEF StatementFailed, TypeOK
  <2>4. inTrans' \in BOOLEAN /\ txBuf' \in StmtSeq
    <3>1. CASE exec[t].op.kind = "tx"
      <4>1. inTrans' = FALSE /\ txBuf' = <<>>
        BY <1>11, <3>1, Zenon DEF StatementFailed
      <4>2. txBuf' \in StmtSeq
        BY <4>1 DEF StmtSeq
      <4> QED
        BY <4>1, <4>2
    <3>2. CASE exec[t].op.kind # "tx"
      BY <1>11, <3>2 DEF StatementFailed, TypeOK
    <3> QED
      BY <3>1, <3>2
  <2> QED
    BY <1>11, <2>2, <2>3, <2>4 DEF StatementFailed, requestVars, TypeOK
<1>12. ASSUME NEW t \in Thread, Commit(t) PROVE TypeOK'
  <2>1. exec' \in [Thread -> Executions]
    BY <1>12, IdleType DEF Commit, TypeOK
  <2>2. db' \in StmtSeq /\ txBuf' \in StmtSeq
    BY <1>12 DEF Commit, TypeOK, StmtSeq
  <2> QED
    BY <1>12, <2>1, <2>2 DEF Commit, requestVars, TypeOK
<1>13. ASSUME NEW t \in Thread, RunQuery(t) PROVE TypeOK'
  <2>1. Range(db) \in SUBSET Stmts
    BY RangeSubset DEF TypeOK, StmtSeq
  <2>2. exec' \in [Thread -> Executions]
    BY <1>13, <1>e, <2>1, ExecutionFields DEF RunQuery, TypeOK, Phases
  <2> QED
    BY <1>13, <2>2 DEF RunQuery, requestVars, serverVars, TypeOK
<1>14. ASSUME NEW t \in Thread, AddResult(t) PROVE TypeOK'
  <2>1. exec[t].saw \in SUBSET Stmts /\ exec[t].op.stmts \in StmtSeq
    BY <1>e, ExecutionFields
  <2>2. AnswerOf(t) \in Answers
    BY <1>14, <2>1
       DEF AddResult, AnswerOf, Answers, StmtSeq, AtStatement
  <2>3. results' \in Seq(Answers)
    BY <1>14, <2>2 DEF AddResult, Pushed, TypeOK
  <2>4. exec' \in [Thread -> Executions]
    BY <1>14, IdleType DEF AddResult, TypeOK
  <2> QED
    BY <1>14, <2>3, <2>4 DEF AddResult, requestVars, serverVars, TypeOK
<1>15. ASSUME CheckRunning PROVE TypeOK'
  BY <1>15 DEF CheckRunning, AfterCheck, delayUnchanged, serverVars, TypeOK
<1>16. ASSUME TakeRequests PROVE TypeOK'
  BY <1>16 DEF TakeRequests, MoveQueue, delayUnchanged, serverVars, TypeOK
<1>17. ASSUME NextRequest PROVE TypeOK'
  <2>1. Head(local) \in Ops /\ Tail(local) \in Seq(Ops)
    BY <1>17 DEF NextRequest, TypeOK
  <2>2. exec' \in [Thread -> Executions]
    BY <1>17, <2>1, StartExecuteType DEF NextRequest, PopRequest, Thread
  <2> QED
    BY <1>17, <2>1, <2>2
       DEF NextRequest, PopRequest, delayUnchanged, serverVars, TypeOK
<1>18. ASSUME RequestsDone PROVE TypeOK'
  BY <1>18 DEF RequestsDone, delayUnchanged, serverVars, TypeOK
<1>19. ASSUME Ping PROVE TypeOK'
  BY <1>19 DEF Ping, delayUnchanged, serverVars, TypeOK
<1>20. ASSUME LockResults PROVE TypeOK'
  BY <1>20 DEF LockResults, requestVars, serverVars, TypeOK
<1>21. ASSUME RunCallback PROVE TypeOK'
  <2>1. results' \in Seq(Answers) /\ called' \in Seq(Answers)
    BY <1>21 DEF RunCallback, Waiting, TypeOK
  <2> QED
    BY <1>21, <2>1 DEF RunCallback, requestVars, serverVars, TypeOK
<1>22. ASSUME UnlockResults PROVE TypeOK'
  BY <1>22 DEF UnlockResults, requestVars, serverVars, TypeOK
<1>23. ASSUME AllowAsyncTransactions PROVE TypeOK'
  BY <1>23 DEF AllowAsyncTransactions, requestVars, serverVars, TypeOK
<1>24. ASSUME HaltDelayThread PROVE TypeOK'
  BY <1>24 DEF HaltDelayThread, requestVars, serverVars, TypeOK
<1>25. ASSUME UNCHANGED vars PROVE TypeOK'
  BY <1>25 DEF vars, TypeOK
<1> QED
  BY <1>1, <1>2, <1>3, <1>4, <1>5, <1>6, <1>7, <1>8, <1>9, <1>10, <1>11,
     <1>12, <1>13, <1>14, <1>15, <1>16, <1>17, <1>18, <1>19, <1>20, <1>21,
     <1>22, <1>23, <1>24, <1>25
     DEF Next, ClientStep, ExecuteStep, DelayStep, UpdateStep, Terminated

-----------------------------------------------------------------------------
(* The lock of the async connection.  What matters of an action is what it *)
(* does to exec and connOwner: nothing, start an operation, move the       *)
(* operation of the holder on, or finish it.                               *)

Locking == AtStatement /\ ConnectionExclusive

LEMMA LockingQuiet ==
    ASSUME Locking, UNCHANGED <<exec, connOwner>>
    PROVE  Locking'
BY DEF Locking, AtStatement, ConnectionExclusive

LEMMA LockingStart ==
    ASSUME TypeOK, Locking, NEW t \in Thread, exec[t].ph = "idle",
           NEW op \in Ops, StartExecute(t, op), UNCHANGED connOwner
    PROVE  Locking'
<1> DEFINE e == [ph |-> "lock", op |-> op, i |-> 1, saw |-> {}]
<1>1. CASE op.stmts = <<>>
  BY <1>1, LockingQuiet DEF StartExecute
<1>2. CASE op.stmts # <<>>
  <2>1. exec' = [exec EXCEPT ![t] = e]
    BY <1>2 DEF StartExecute
  <2>2. /\ exec'[t] = e
        /\ \A u \in Thread : u # t => exec'[u] = exec[u]
    BY <2>1 DEF TypeOK
  <2>3. e.i \in 1..Len(e.op.stmts)
    BY <1>2 DEF Ops, StmtSeq
  <2>4. AtStatement'
    BY <2>2, <2>3 DEF AtStatement, Locking
  <2>5. ConnectionExclusive'
    BY <2>2 DEF ConnectionExclusive, Locking
  <2> QED
    BY <2>4, <2>5 DEF Locking
<1> QED
  BY <1>1, <1>2

LEMMA LockingAdvance ==
    ASSUME TypeOK, Locking, NEW t \in Thread, NEW e,
           exec' = [exec EXCEPT ![t] = e], connOwner \in {Nobody, t},
           connOwner' = t, e.ph \in {"stmt", "commit", "answer"},
           e.ph # "commit" => e.i \in 1..Len(e.op.stmts)
    PROVE  Locking'
<1>1. /\ exec'[t] = e
      /\ \A u \in Thread : u # t => exec'[u] = exec[u]
  BY DEF TypeOK
<1>2. AtStatement'
  BY <1>1 DEF AtStatement, Locking
<1>3. \A u \in Thread : u # t => connOwner # u
  BY ClientAssumption DEF Thread
<1>4. ConnectionExclusive'
  BY <1>1, <1>3 DEF ConnectionExclusive, Locking
<1> QED
  BY <1>2, <1>4 DEF Locking

LEMMA LockingFinish ==
    ASSUME TypeOK, Locking, NEW t \in Thread,
           exec[t].ph \in {"stmt", "commit", "answer"},
           exec' = [exec EXCEPT ![t] = Idle], connOwner' = Nobody
    PROVE  Locking'
<1>1. /\ exec'[t] = Idle
      /\ \A u \in Thread : u # t => exec'[u] = exec[u]
  BY DEF TypeOK
<1>2. AtStatement'
  BY <1>1, IdleType DEF AtStatement, Locking
<1>3. connOwner = t /\ \A u \in Thread : Nobody # u
  BY ClientAssumption DEF Thread, Locking, ConnectionExclusive
<1>4. ConnectionExclusive'
  BY <1>1, <1>3, IdleType DEF ConnectionExclusive, Locking
<1> QED
  BY <1>2, <1>4 DEF Locking

LEMMA LockingInit == Init => Locking
<1>1. Init => AtStatement
  BY IdleType DEF Init, AtStatement
<1>2. Init => ConnectionExclusive
  BY IdleType, ClientAssumption DEF Init, ConnectionExclusive, Thread
<1> QED
  BY <1>1, <1>2 DEF Locking

LEMMA LockingNext == TypeOK /\ Locking /\ [Next]_vars => Locking'
<1> SUFFICES ASSUME TypeOK, Locking, [Next]_vars PROVE Locking'
  OBVIOUS
<1>t. \A c \in Client : c \in Thread
  BY DEF Thread
<1>e. \A t \in Thread : exec[t] \in Executions
  BY DEF TypeOK
<1>x. \A c \in Client :
        tx[c].stmts \in StmtSeq /\ Transaction(tx[c].stmts) \in Ops
  BY TransactionFields, RequestTypes DEF TypeOK
<1>1. ASSUME NEW c \in Client, BeginTransaction(c) PROVE Locking'
  BY <1>1, LockingQuiet DEF BeginTransaction
<1>2. ASSUME NEW c \in Client, Execute(c) PROVE Locking'
  <2>1. Plain(Fresh) \in Ops
    BY <1>2, FreshType, RequestTypes DEF Execute
  <2>2. CASE UNCHANGED exec
    BY <1>2, <2>2, LockingQuiet DEF Execute
  <2>3. CASE StartExecute(c, Plain(Fresh))
    BY <1>2, <1>t, <2>1, <2>3, LockingStart DEF Execute, Ready
  <2> QED
    BY <1>2, <2>2, <2>3 DEF Execute
<1>3. ASSUME NEW c \in Client, DirectExecute(c) PROVE Locking'
  BY <1>3, <1>t, FreshType, RequestTypes, LockingStart DEF DirectExecute, Ready
<1>4. ASSUME NEW c \in Client, CommitTransaction(c) PROVE Locking'
  <2>1. CASE UNCHANGED exec
    BY <1>4, <2>1, LockingQuiet DEF CommitTransaction
  <2>2. CASE StartExecute(c, Transaction(tx[c].stmts))
    BY <1>4, <1>t, <1>x, <2>2, LockingStart DEF CommitTransaction, Ready
  <2> QED
    BY <1>4, <2>1, <2>2 DEF CommitTransaction
<1>5. ASSUME NEW c \in Client, CommitTransactionDirect(c) PROVE Locking'
  BY <1>5, <1>t, <1>x, LockingStart DEF CommitTransactionDirect, Ready
<1>6. ASSUME NEW c \in Client, RollbackTransaction(c) PROVE Locking'
  BY <1>6, LockingQuiet DEF RollbackTransaction
<1>7. ASSUME NEW c \in Client, AsyncQuery(c) PROVE Locking'
  BY <1>7, LockingQuiet DEF AsyncQuery
<1>8. ASSUME NEW c \in Client, ClientEnds(c) PROVE Locking'
  BY <1>8, LockingQuiet DEF ClientEnds
<1>9. ASSUME NEW t \in Thread, LockConnection(t) PROVE Locking'
  <2> DEFINE e == [exec[t] EXCEPT !.ph = "stmt"]
  <2>1. exec' = [exec EXCEPT ![t] = e] /\ connOwner = Nobody /\ connOwner' = t
    BY <1>9 DEF LockConnection, ConnectionFree
  <2>2. e.ph = "stmt" /\ e.i = exec[t].i /\ e.op = exec[t].op
    BY <1>e DEF Executions
  <2>3. e.i \in 1..Len(e.op.stmts)
    BY <1>9, <2>2 DEF LockConnection, Locking, AtStatement
  <2> HIDE DEF e
  <2> QED
    BY <2>1, <2>2, <2>3, LockingAdvance
<1>10. ASSUME NEW t \in Thread, StatementDone(t) PROVE Locking'
  <2>0. exec[t].ph = "stmt" /\ connOwner = t
    BY <1>10 DEF StatementDone, Locking, ConnectionExclusive
  <2>1. CASE exec[t].op.kind = "plain"
    <3>1. exec' = [exec EXCEPT ![t] = Idle] /\ connOwner' = Nobody
      BY <1>10, <2>1 DEF StatementDone
    <3> QED
      BY <2>0, <3>1, LockingFinish
  <2>2. CASE exec[t].op.kind # "plain"
    <3> DEFINE ph == IF exec[t].i = Len(exec[t].op.stmts)
                     THEN "commit" ELSE "stmt"
               e == [exec[t] EXCEPT !.i = exec[t].i + 1, !.ph = ph]
    <3>0. exec \in [Thread -> Executions]
      BY DEF TypeOK
    <3>1. exec' = [exec EXCEPT ![t].i = @ + 1, ![t].ph = ph] /\ connOwner' = t
      BY <1>10, <2>0, <2>2 DEF StatementDone
    <3>2. exec' = [exec EXCEPT ![t] = e]
      BY <3>0, <3>1
    <3>3. e.ph = ph /\ e.i = exec[t].i + 1 /\ e.op = exec[t].op
      BY <1>e DEF Executions
    <3>4. exec[t].i \in 1..Len(exec[t].op.stmts) /\ exec[t].op.stmts \in Seq(Stmts)
      BY <2>0, <1>e, ExecutionFields DEF Locking, AtStatement, StmtSeq
    <3>5. ph # "commit" => exec[t].i + 1 \in 1..Len(exec[t].op.stmts)
      BY <3>4
    <3>6. ph \in {"stmt", "commit", "answer"}
      OBVIOUS
    <3> HIDE DEF e, ph
    <3> QED
      BY <2>0, <3>1, <3>2, <3>3, <3>5, <3>6, LockingAdvance
  <2> QED
    BY <2>1, <2>2
<1>11. ASSUME NEW t \in Thread, StatementFailed(t) PROVE Locking'
  BY <1>11, LockingFinish DEF StatementFailed
<1>12. ASSUME NEW t \in Thread, Commit(t) PROVE Locking'
  BY <1>12, LockingFinish DEF Commit
<1>13. ASSUME NEW t \in Thread, RunQuery(t) PROVE Locking'
  <2> DEFINE e == [exec[t] EXCEPT !.ph = "answer", !.saw = Range(db)]
  <2>0. exec[t].ph = "stmt" /\ connOwner = t /\ connOwner' = t
    BY <1>13 DEF RunQuery, Locking, ConnectionExclusive
  <2>1. exec' = [exec EXCEPT ![t] = e]
    BY <1>13 DEF RunQuery, TypeOK
  <2>2. e.ph = "answer" /\ e.i = exec[t].i /\ e.op = exec[t].op
    BY <1>e DEF Executions
  <2>3. e.i \in 1..Len(e.op.stmts)
    BY <2>0, <2>2 DEF Locking, AtStatement
  <2> HIDE DEF e
  <2> QED
    BY <2>0, <2>1, <2>2, <2>3, LockingAdvance
<1>14. ASSUME NEW t \in Thread, AddResult(t) PROVE Locking'
  BY <1>14, LockingFinish DEF AddResult
<1>15. ASSUME CheckRunning PROVE Locking'
  BY <1>15, LockingQuiet DEF CheckRunning, delayUnchanged
<1>16. ASSUME TakeRequests PROVE Locking'
  BY <1>16, LockingQuiet DEF TakeRequests, delayUnchanged
<1>17. ASSUME NextRequest PROVE Locking'
  <2>1. Head(local) \in Ops /\ Delayer \in Thread
    BY <1>17 DEF NextRequest, TypeOK, Thread
  <2> QED
    BY <1>17, <2>1, LockingStart DEF NextRequest, PopRequest, delayUnchanged
<1>18. ASSUME RequestsDone PROVE Locking'
  BY <1>18, LockingQuiet DEF RequestsDone, delayUnchanged
<1>19. ASSUME Ping PROVE Locking'
  BY <1>19, LockingQuiet DEF Ping, delayUnchanged
<1>20. ASSUME UpdateStep PROVE Locking'
  BY <1>20, LockingQuiet DEF UpdateStep, LockResults, RunCallback, UnlockResults
<1>21. ASSUME AllowAsyncTransactions \/ HaltDelayThread PROVE Locking'
  BY <1>21, LockingQuiet DEF AllowAsyncTransactions, HaltDelayThread
<1>22. ASSUME UNCHANGED vars PROVE Locking'
  BY <1>22, LockingQuiet DEF vars
<1> QED
  BY <1>1, <1>2, <1>3, <1>4, <1>5, <1>6, <1>7, <1>8, <1>9, <1>10, <1>11,
     <1>12, <1>13, <1>14, <1>15, <1>16, <1>17, <1>18, <1>19, <1>20, <1>21,
     <1>22
     DEF Next, ClientStep, ExecuteStep, DelayStep, Terminated

LEMMA LockingInductive == Spec => [](TypeOK /\ Locking)
<1>1. TypeOK /\ Locking /\ [Next]_vars => (TypeOK /\ Locking)'
  BY TypeNext, LockingNext DEF Locking
<1>2. Init => TypeOK /\ Locking
  BY TypeInit, LockingInit
<1> QED
  BY <1>1, <1>2, PTL DEF Spec

\* Every variable keeps its type: in particular the statement a thread hands
\* to the server is always one of its request.
THEOREM TypeCorrect == Spec => []TypeOK
BY LockingInductive, PTL

\* However many threads share the async connection, the one that holds its
\* lock is the only one between LOCK_DB_CONN and the end of its Execute.
THEOREM ConnectionIsExclusive == Spec => []ConnectionExclusive
<1>1. TypeOK /\ Locking => ConnectionExclusive
  BY DEF Locking
<1> QED
  BY <1>1, LockingInductive, PTL

-----------------------------------------------------------------------------
(* The queue between the callers and the delay thread.  An action leaves   *)
(* the unserved requests alone, appends one that is given to Delay, moves  *)
(* them from one queue to the next, or removes the oldest.                 *)

Handover == DelayThreadEmptyHanded /\ FifoHandover

LEMMA UnservedType ==
    ASSUME TypeOK
    PROVE  /\ Current \in Seq(Ops) /\ Unserved \in Seq(Ops)
           /\ local \in Seq(Ops) /\ queue \in Seq(Ops) /\ sent \in Seq(Ops)
<1>1. exec[Delayer].op \in Ops
  BY ExecutionFields DEF TypeOK, Thread
<1>2. Current \in Seq(Ops)
  BY <1>1 DEF Current
<1>3. local \in Seq(Ops) /\ queue \in Seq(Ops) /\ sent \in Seq(Ops)
  BY DEF TypeOK
<1> QED
  BY <1>2, <1>3 DEF Unserved

LEMMA HandoverQuiet ==
    ASSUME Handover, UNCHANGED <<local, queue, sent>>,
           exec'[Delayer] = exec[Delayer],
           dpc' \notin {"run", "flush"} => dpc \notin {"run", "flush"}
    PROVE  Handover'
<1>1. Unserved' = Unserved
  BY DEF Unserved, Current
<1> QED
  BY <1>1 DEF Handover, DelayThreadEmptyHanded, FifoHandover, EndsWith

LEMMA HandoverDelay ==
    ASSUME TypeOK, Handover, NEW c \in Client, NEW op \in Ops, Delay(c, op),
           exec'[Delayer] = exec[Delayer], UNCHANGED <<local, dpc>>
    PROVE  Handover'
<1>1. CASE dpc = "deleted"
  BY <1>1, HandoverQuiet DEF Delay
<1>2. CASE dpc # "deleted"
  <2>1. queue' = Append(queue, op) /\ sent' = Append(sent, op)
    BY <1>2, Zenon DEF Delay
  <2>2. Unserved' = Append(Unserved, op)
    <3>1. Current' = Current /\ local' = local
      BY DEF Current
    <3>2. Unserved' = Current \o local \o Append(queue, op)
      BY <2>1, <3>1 DEF Unserved
    <3>3. \A p, q \in Seq(Ops) : p \o Append(q, op) = Append(p \o q, op)
      OBVIOUS
    <3>4. Current \o local \in Seq(Ops)
      BY UnservedType
    <3> QED
      BY <3>2, <3>3, <3>4, UnservedType DEF Unserved
  <2>3. FifoHandover'
    BY <2>1, <2>2, UnservedType, SuffixAppend DEF Handover, FifoHandover
  <2> QED
    BY <2>3 DEF Handover, DelayThreadEmptyHanded
<1> QED
  BY <1>1, <1>2

\* The delay thread is past the oldest request, or drops an empty one.
LEMMA HandoverServed ==
    ASSUME TypeOK, Handover, UNCHANGED <<sent, dpc>>, dpc \in {"run", "flush"},
           Unserved # <<>>, Unserved' = Tail(Unserved)
    PROVE  Handover'
<1>1. FifoHandover'
  BY UnservedType, SuffixTail DEF Handover, FifoHandover
<1> QED
  BY <1>1 DEF Handover, DelayThreadEmptyHanded

\* A thread of its own runs Execute; the delay thread only while it serves.
LEMMA HandoverFinish ==
    ASSUME TypeOK, Handover, NEW t \in Thread, exec[t].ph # "idle",
           exec' = [exec EXCEPT ![t] = Idle],
           UNCHANGED <<local, queue, sent, dpc>>
    PROVE  Handover'
<1>1. CASE t # Delayer
  BY <1>1, HandoverQuiet DEF TypeOK, Thread
<1>2. CASE t = Delayer
  <2>1. Current = <<exec[Delayer].op>> /\ Current' = <<>>
    BY <1>2, IdleType DEF Current, TypeOK
  <2>2. dpc \in {"run", "flush"}
    BY <1>2 DEF Handover, DelayThreadEmptyHanded
  <2>3. Unserved # <<>> /\ Unserved' = Tail(Unserved)
    BY <2>1, UnservedType DEF Unserved
  <2> QED
    BY <2>2, <2>3, HandoverServed
<1> QED
  BY <1>1, <1>2

LEMMA HandoverAdvance ==
    ASSUME TypeOK, Handover, NEW t \in Thread, NEW e, exec[t].ph # "idle",
           exec' = [exec EXCEPT ![t] = e], e.ph # "idle", e.op = exec[t].op,
           UNCHANGED <<local, queue, sent, dpc>>
    PROVE  Handover'
<1>1. CASE t # Delayer
  BY <1>1, HandoverQuiet DEF TypeOK, Thread
<1>2. CASE t = Delayer
  <2>1. Current' = Current
    BY <1>2 DEF Current, TypeOK
  <2>2. FifoHandover'
    BY <2>1 DEF Handover, FifoHandover, Unserved, EndsWith
  <2>3. DelayThreadEmptyHanded'
    BY <1>2 DEF Handover, DelayThreadEmptyHanded
  <2> QED
    BY <2>2, <2>3 DEF Handover
<1> QED
  BY <1>1, <1>2

LEMMA HandoverInit == Init => Handover
<1> SUFFICES ASSUME Init PROVE Handover
  OBVIOUS
<1>1. exec[Delayer].ph = "idle"
  BY IdleType DEF Init, Thread
<1>2. Unserved = <<>> /\ sent = <<>>
  BY <1>1 DEF Init, Unserved, Current
<1> QED
  BY <1>1, <1>2
     DEF Init, Handover, DelayThreadEmptyHanded, FifoHandover, EndsWith

LEMMA HandoverNext == TypeOK /\ Handover /\ [Next]_vars => Handover'
<1> SUFFICES ASSUME TypeOK, Handover, [Next]_vars PROVE Handover'
  OBVIOUS
<1>t. \A c \in Client : c # Delayer
  BY ClientAssumption
<1>d. Delayer \in Thread /\ exec \in [Thread -> Executions]
  BY DEF Thread, TypeOK
<1>s. \A c \in Client, op \in Ops :
        StartExecute(c, op) => exec'[Delayer] = exec[Delayer]
  BY <1>t, <1>d DEF StartExecute
<1>x. \A c \in Client : Transaction(tx[c].stmts) \in Ops
  BY TransactionFields, RequestTypes DEF TypeOK
<1>1. ASSUME NEW c \in Client, BeginTransaction(c) PROVE Handover'
  BY <1>1, HandoverQuiet DEF BeginTransaction
<1>2. ASSUME NEW c \in Client, Execute(c) PROVE Handover'
  <2>1. Plain(Fresh) \in Ops
    BY <1>2, FreshType, RequestTypes DEF Execute
  <2>2. CASE UNCHANGED <<queue, sent, nullBody, exec>>
    BY <1>2, <2>2, HandoverQuiet DEF Execute
  <2>3. CASE Delay(c, Plain(Fresh)) /\ UNCHANGED <<tx, exec>>
    BY <1>2, <2>1, <2>3, HandoverDelay DEF Execute
  <2>4. CASE StartExecute(c, Plain(Fresh)) /\ UNCHANGED <<tx, queue, sent, nullBody>>
    BY <1>2, <1>s, <2>1, <2>4, HandoverQuiet DEF Execute
  <2> QED
    BY <1>2, <2>2, <2>3, <2>4 DEF Execute
<1>3. ASSUME NEW c \in Client, DirectExecute(c) PROVE Handover'
  <2>1. Plain(Fresh) \in Ops
    BY <1>3, FreshType, RequestTypes DEF DirectExecute
  <2> QED
    BY <1>3, <1>s, <2>1, HandoverQuiet DEF DirectExecute
<1>4. ASSUME NEW c \in Client, CommitTransaction(c) PROVE Handover'
  <2>1. CASE Delay(c, Transaction(tx[c].stmts)) /\ UNCHANGED exec
    BY <1>4, <1>x, <2>1, HandoverDelay DEF CommitTransaction
  <2>2. CASE StartExecute(c, Transaction(tx[c].stmts))
               /\ UNCHANGED <<queue, sent, nullBody>>
    BY <1>4, <1>s, <1>x, <2>2, HandoverQuiet DEF CommitTransaction
  <2> QED
    BY <1>4, <2>1, <2>2 DEF CommitTransaction
<1>5. ASSUME NEW c \in Client, CommitTransactionDirect(c) PROVE Handover'
  BY <1>5, <1>s, <1>x, HandoverQuiet DEF CommitTransactionDirect
<1>6. ASSUME NEW c \in Client, RollbackTransaction(c) PROVE Handover'
  BY <1>6, HandoverQuiet DEF RollbackTransaction
<1>7. ASSUME NEW c \in Client, AsyncQuery(c) PROVE Handover'
  <2>1. Query(Fresh) \in Ops
    BY <1>7, FreshType, RequestTypes DEF AsyncQuery
  <2> QED
    BY <1>7, <2>1, HandoverDelay DEF AsyncQuery
<1>8. ASSUME NEW c \in Client, ClientEnds(c) PROVE Handover'
  BY <1>8, HandoverQuiet DEF ClientEnds, requestVars
<1>9. ASSUME NEW t \in Thread, LockConnection(t) PROVE Handover'
  <2> DEFINE e == [exec[t] EXCEPT !.ph = "stmt"]
  <2>1. exec' = [exec EXCEPT ![t] = e] /\ exec[t].ph = "lock"
    BY <1>9 DEF LockConnection
  <2>2. e.ph = "stmt" /\ e.op = exec[t].op
    BY <1>d DEF Executions
  <2> HIDE DEF e
  <2> QED
    BY <1>9, <2>1, <2>2, HandoverAdvance DEF LockConnection, requestVars
<1>10. ASSUME NEW t \in Thread, StatementDone(t) PROVE Handover'
  <2>0. exec[t].ph = "stmt" /\ UNCHANGED <<local, queue, sent, dpc>>
    BY <1>10 DEF StatementDone, requestVars
  <2>1. CASE exec[t].op.kind = "plain"
    <3>1. exec' = [exec EXCEPT ![t] = Idle]
      BY <1>10, <2>1 DEF StatementDone
    <3> QED
      BY <2>0, <3>1, HandoverFinish
  <2>2. CASE exec[t].op.kind # "plain"
    <3> DEFINE ph == IF exec[t].i = Len(exec[t].op.stmts)
                     THEN "commit" ELSE "stmt"
               e == [exec[t] EXCEPT !.i = exec[t].i + 1, !.ph = ph]
    <3>1. exec' = [exec EXCEPT ![t].i = @ + 1, ![t].ph = ph]
      BY <1>10, <2>2 DEF StatementDone
    <3>2. exec' = [exec EXCEPT ![t] = e]
      BY <1>d, <3>1
    <3>3. e.ph # "idle" /\ e.op = exec[t].op
      BY <1>d DEF Executions
    <3> HIDE DEF e
    <3> QED
      BY <2>0, <3>2, <3>3, HandoverAdvance
  <2> QED
    BY <2>1, <2>2
<1>11. ASSUME NEW t \in Thread, StatementFailed(t) PROVE Handover'
  BY <1>11, HandoverFinish DEF StatementFailed, requestVars
<1>12. ASSUME NEW t \in Thread, Commit(t) PROVE Handover'
  BY <1>12, HandoverFinish DEF Commit, requestVars
<1>13. ASSUME NEW t \in Thread, RunQuery(t) PROVE Handover'
  <2> DEFINE e == [exec[t] EXCEPT !.ph = "answer", !.saw = Range(db)]
  <2>1. exec' = [exec EXCEPT ![t] = e] /\ exec[t].ph = "stmt"
    BY <1>13 DEF RunQuery, TypeOK
  <2>2. e.ph = "answer" /\ e.op = exec[t].op
    BY <1>d DEF Executions
  <2> HIDE DEF e
  <2> QED
    BY <1>13, <2>1, <2>2, HandoverAdvance DEF RunQuery, requestVars
<1>14. ASSUME NEW t \in Thread, AddResult(t) PROVE Handover'
  BY <1>14, HandoverFinish DEF AddResult, requestVars
<1>15. ASSUME CheckRunning PROVE Handover'
  BY <1>15, HandoverQuiet DEF CheckRunning, delayUnchanged
<1>16. ASSUME TakeRequests PROVE Handover'
  <2>1. local = <<>> /\ exec[Delayer].ph = "idle"
    BY <1>16 DEF TakeRequests, Handover, DelayThreadEmptyHanded
  <2>2. local' = queue /\ queue' = <<>> /\ dpc' \in {"run", "flush"}
    BY <1>16 DEF TakeRequests, MoveQueue
  <2>3. UNCHANGED <<exec, sent>>
    BY <1>16 DEF TakeRequests, delayUnchanged
  <2>4. Unserved' = Unserved
    BY <2>1, <2>2, <2>3, UnservedType DEF Unserved, Current
  <2> QED
    BY <2>2, <2>3, <2>4
       DEF Handover, DelayThreadEmptyHanded, FifoHandover, EndsWith
<1>17. ASSUME NextRequest PROVE Handover'
  <2>1. /\ dpc \in {"run", "flush"} /\ dpc' = dpc
        /\ exec[Delayer].ph = "idle" /\ local # <<>>
        /\ local' = Tail(local) /\ queue' = queue /\ sent' = sent
        /\ StartExecute(Delayer, Head(local))
    BY <1>17 DEF NextRequest, PopRequest, delayUnchanged
  <2>2. Current = <<>>
    BY <2>1 DEF Current
  <2>3. CASE Head(local).stmts = <<>>
    <3>1. Current' = <<>>
      BY <2>1, <2>3 DEF StartExecute, Current
    <3>2. Unserved # <<>> /\ Unserved' = Tail(Unserved)
      BY <2>1, <2>2, <3>1, UnservedType DEF Unserved
    <3> QED
      BY <2>1, <3>2, HandoverServed
  <2>4. CASE Head(local).stmts # <<>>
    <3>1. Current' = <<Head(local)>>
      BY <1>d, <2>1, <2>4 DEF StartExecute, Current
    <3>2. <<Head(local)>> \o Tail(local) = local
      BY <2>1, UnservedType
    <3>3. Unserved' = Unserved
      BY <2>1, <2>2, <3>1, <3>2, UnservedType DEF Unserved
    <3> QED
      BY <2>1, <3>3
         DEF Handover, DelayThreadEmptyHanded, FifoHandover, EndsWith
  <2> QED
    BY <2>3, <2>4
<1>18. ASSUME RequestsDone PROVE Handover'
  <2>1. /\ local = <<>> /\ exec[Delayer].ph = "idle"
        /\ UNCHANGED <<local, queue, exec, sent>>
    BY <1>18 DEF RequestsDone, delayUnchanged
  <2>2. Unserved' = Unserved
    BY <2>1 DEF Unserved, Current
  <2> QED
    BY <2>1, <2>2
       DEF Handover, DelayThreadEmptyHanded, FifoHandover, EndsWith
<1>19. ASSUME Ping PROVE Handover'
  BY <1>19, HandoverQuiet DEF Ping, delayUnchanged
<1>20. ASSUME UpdateStep PROVE Handover'
  BY <1>20, HandoverQuiet
     DEF UpdateStep, LockResults, RunCallback, UnlockResults, requestVars
<1>21. ASSUME AllowAsyncTransactions \/ HaltDelayThread PROVE Handover'
  BY <1>21, HandoverQuiet
     DEF AllowAsyncTransactions, HaltDelayThread, requestVars
<1>22. ASSUME UNCHANGED vars PROVE Handover'
  BY <1>22, HandoverQuiet DEF vars
<1> QED
  BY <1>1, <1>2, <1>3, <1>4, <1>5, <1>6, <1>7, <1>8, <1>9, <1>10, <1>11,
     <1>12, <1>13, <1>14, <1>15, <1>16, <1>17, <1>18, <1>19, <1>20, <1>21,
     <1>22
     DEF Next, ClientStep, ExecuteStep, DelayStep, Terminated

\* However the callers, ProcessRequests, Stop and the destructor of the delay
\* thread interleave, what is still unserved is the newest part of what was
\* given to Delay, in order: no request is lost, repeated or overtaken.
THEOREM HandoverIsFifo == Spec => []FifoHandover
<1>1. TypeOK /\ Handover /\ [Next]_vars => Handover'
  BY HandoverNext
<1>2. Init => Handover
  BY HandoverInit
<1>3. Handover => FifoHandover
  BY DEF Handover
<1> QED
  BY <1>1, <1>2, <1>3, TypeCorrect, PTL DEF Spec

-----------------------------------------------------------------------------
(* What the refinement of RequestStore needs: the transaction that is open *)
(* is that of the thread that holds the connection, and it holds what the  *)
(* thread has executed so far.  The server accepts START TRANSACTION.      *)

\* A write outside a transaction and a query are one statement.
Proper(op) == op.kind # "tx" => Len(op.stmts) = 1

ProperQueues ==
    /\ \A k \in 1..Len(queue) : Proper(queue[k])
    /\ \A k \in 1..Len(local) : Proper(local[k])

SoFar(e, buf) ==
    /\ Len(buf) = e.i - 1
    /\ \A k \in 1..Len(buf) : buf[k] = e.op.stmts[k]

Progressing(e, buf, open) ==
    /\ Proper(e.op) /\ e.op.stmts # <<>>
    /\ e.ph = "lock" => e.i = 1
    /\ e.ph = "answer" => e.op.kind = "query" /\ ~open
    /\ e.ph = "commit" => /\ e.op.kind = "tx" /\ open /\ SoFar(e, buf)
                          /\ e.i = Len(e.op.stmts) + 1
    /\ e.ph = "stmt" => IF e.op.kind = "tx" THEN open /\ SoFar(e, buf) ELSE ~open

Progress ==
    /\ \A t \in Thread : exec[t].ph # "idle" => Progressing(exec[t], txBuf, inTrans)
    /\ connOwner = Nobody => ~inTrans

\* A statement belongs to the thread that created it, so no two direct requests are equal.
OwnedBy(own, c, s) == \A k \in 1..Len(s) : s[k] \in 1..Len(own) /\ own[s[k]] = c

Creators ==
    \A c \in Client :
        /\ OwnedBy(owner, c, tx[c].stmts)
        /\ exec[c].ph # "idle" =>
               OwnedBy(owner, c, exec[c].op.stmts) /\ exec[c].op.kind # "query"

Refining == ProperQueues /\ Progress /\ Creators

LEMMA ProperRequests ==
    /\ \A n \in Stmts : Proper(Plain(n)) /\ Proper(Query(n))
    /\ \A s \in StmtSeq : Proper(Transaction(s))
BY DEF Proper, Plain, Query, Transaction

LEMMA ProperQuiet ==
    ASSUME ProperQueues, UNCHANGED <<queue, local>>
    PROVE  ProperQueues'
BY DEF ProperQueues

LEMMA ProperDelay ==
    ASSUME TypeOK, ProperQueues, NEW c \in Client, NEW op \in Ops, Proper(op),
           Delay(c, op), UNCHANGED local
    PROVE  ProperQueues'
<1>1. CASE dpc = "deleted"
  BY <1>1, ProperQuiet DEF Delay
<1>2. CASE dpc # "deleted"
  <2>1. queue' = Append(queue, op) /\ queue \in Seq(Ops)
    BY <1>2, Zenon DEF Delay, TypeOK
  <2>2. \A k \in 1..Len(queue') : queue'[k] = op \/ (k \in 1..Len(queue) /\ queue'[k] = queue[k])
    BY <2>1
  <2> QED
    BY <2>2 DEF ProperQueues
<1> QED
  BY <1>1, <1>2

LEMMA ProgressQuiet ==
    ASSUME Progress, UNCHANGED <<exec, txBuf, inTrans, connOwner>>
    PROVE  Progress'
BY DEF Progress

LEMMA ProgressKept ==
    ASSUME TypeOK, Locking, Progress, NEW t \in Thread, NEW e,
           exec' = [exec EXCEPT ![t] = e], connOwner \in {Nobody, t},
           e.ph # "idle" => Progressing(e, txBuf', inTrans'),
           connOwner' = Nobody => ~inTrans'
    PROVE  Progress'
<1>1. exec'[t] = e /\ \A u \in Thread : u # t => exec'[u] = exec[u]
  BY DEF TypeOK
<1>2. ASSUME NEW u \in Thread, u # t, exec[u].ph # "idle"
      PROVE  Progressing(exec[u], txBuf', inTrans')
  <2>1. connOwner # u
    BY <1>2, ClientAssumption DEF Thread
  <2>2. exec[u].ph \notin {"stmt", "commit", "answer"}
    BY <2>1 DEF Locking, ConnectionExclusive
  <2>3. Progressing(exec[u], txBuf, inTrans)
    BY <1>2 DEF Progress
  <2> QED
    BY <2>2, <2>3 DEF Progressing
<1> QED
  BY <1>1, <1>2 DEF Progress

LEMMA ProgressStart ==
    ASSUME TypeOK, Locking, Progress, NEW t \in Thread, exec[t].ph = "idle",
           NEW op \in Ops, Proper(op), StartExecute(t, op),
           UNCHANGED <<txBuf, inTrans, connOwner>>
    PROVE  Progress'
<1> DEFINE e == [ph |-> "lock", op |-> op, i |-> 1, saw |-> {}]
<1>1. CASE op.stmts = <<>>
  BY <1>1, ProgressQuiet DEF StartExecute
<1>2. CASE op.stmts # <<>>
  <2>1. exec' = [exec EXCEPT ![t] = e]
    BY <1>2 DEF StartExecute
  <2>2. exec'[t] = e /\ \A u \in Thread : u # t => exec'[u] = exec[u]
    BY <2>1 DEF TypeOK
  <2>3. Progressing(e, txBuf, inTrans)
    BY <1>2 DEF Progressing
  <2> HIDE DEF e
  <2> QED
    BY <2>2, <2>3 DEF Progress
<1> QED
  BY <1>1, <1>2

\* The holder of the connection takes the lock, goes on, or is over.
LEMMA ProgressLock ==
    ASSUME TypeOK, Locking, Progress, ~BeginMayFail, NEW t \in Thread, LockConnection(t)
    PROVE  Progress'
<1> DEFINE e == [exec[t] EXCEPT !.ph = "stmt"]
<1>1. /\ exec' = [exec EXCEPT ![t] = e] /\ exec[t].ph = "lock"
      /\ connOwner = Nobody /\ connOwner' = t
  BY DEF LockConnection, ConnectionFree
<1>2. exec[t] \in Executions
  BY DEF TypeOK
<1>3. e.ph = "stmt" /\ e.op = exec[t].op /\ e.i = exec[t].i
  BY <1>2 DEF Executions
<1>4. Progressing(exec[t], txBuf, inTrans) /\ ~inTrans
  BY <1>1 DEF Progress
<1>5. IF exec[t].op.kind = "tx" THEN inTrans' = TRUE /\ txBuf' = <<>> ELSE inTrans' = inTrans
  <2>1. CASE exec[t].op.kind = "tx"
    <3>1. inTrans' \in BeginOutcomes /\ txBuf' = <<>>
      BY <2>1, Zenon DEF LockConnection
    <3>2. inTrans' = TRUE
      BY <3>1 DEF BeginOutcomes
    <3> QED
      BY <2>1, <3>1, <3>2
  <2>2. CASE exec[t].op.kind # "tx"
    BY <2>2 DEF LockConnection
  <2> QED
    BY <2>1, <2>2
<1>6. connOwner' # Nobody
  BY <1>1, ClientAssumption DEF Thread
<1> HIDE DEF e
<1>7. Progressing(e, txBuf', inTrans')
  <2>1. CASE exec[t].op.kind = "tx"
    <3>1. SoFar(e, <<>>)
      BY <1>1, <1>3, <1>4 DEF SoFar, Progressing
    <3> QED
      BY <1>3, <1>4, <1>5, <2>1, <3>1 DEF Progressing
  <2>2. CASE exec[t].op.kind # "tx"
    BY <1>3, <1>4, <1>5, <2>2 DEF Progressing
  <2> QED
    BY <2>1, <2>2
<1> QED
  BY <1>1, <1>6, <1>7, ProgressKept

LEMMA ProgressFinish ==
    ASSUME TypeOK, Locking, Progress, NEW t \in Thread, connOwner = t,
           exec' = [exec EXCEPT ![t] = Idle], ~inTrans'
    PROVE  Progress'
BY IdleType, ProgressKept

LEMMA ProgressStatement ==
    ASSUME TypeOK, Locking, Progress, NEW t \in Thread, StatementDone(t)
    PROVE  Progress'
<1>0. exec[t].ph = "stmt" /\ connOwner = t /\ exec[t] \in Executions /\ inTrans' = inTrans
  BY DEF StatementDone, Locking, ConnectionExclusive, TypeOK
<1>1. /\ Progressing(exec[t], txBuf, inTrans)
      /\ exec[t].i \in 1..Len(exec[t].op.stmts) /\ exec[t].op.stmts \in Seq(Stmts)
  BY <1>0, ExecutionFields DEF Progress, Locking, AtStatement, StmtSeq
<1>2. CASE exec[t].op.kind = "plain"
  <2>1. exec' = [exec EXCEPT ![t] = Idle]
    BY <1>2 DEF StatementDone
  <2>2. ~inTrans'
    BY <1>0, <1>1, <1>2 DEF Progressing
  <2> QED
    BY <1>0, <2>1, <2>2, ProgressFinish
<1>3. CASE exec[t].op.kind # "plain"
  <2> DEFINE ph == IF exec[t].i = Len(exec[t].op.stmts) THEN "commit" ELSE "stmt"
             e == [exec[t] EXCEPT !.i = exec[t].i + 1, !.ph = ph]
  <2>0. exec \in [Thread -> Executions] /\ txBuf \in Seq(Stmts)
    BY DEF TypeOK, StmtSeq
  <2>1. exec[t].op.kind = "tx"
    BY <1>0, <1>3, ExecutionFields DEF StatementDone, Kinds
  <2>2. exec' = [exec EXCEPT ![t].i = @ + 1, ![t].ph = ph] /\ connOwner' = t
    BY <1>0, <1>3 DEF StatementDone
  <2>3. exec' = [exec EXCEPT ![t] = e]
    BY <2>0, <2>2
  <2>4. e.ph = ph /\ e.i = exec[t].i + 1 /\ e.op = exec[t].op
    BY <1>0 DEF Executions
  <2>5. inTrans /\ SoFar(exec[t], txBuf)
    BY <1>0, <1>1, <2>1 DEF Progressing
  <2>6. txBuf' = Append(txBuf, exec[t].op.stmts[exec[t].i])
    BY <2>5 DEF StatementDone
  <2>7. ph = "commit" => exec[t].i = Len(exec[t].op.stmts)
    OBVIOUS
  <2>8. ph \in {"commit", "stmt"}
    OBVIOUS
  <2> HIDE DEF e, ph
  <2>9. SoFar(e, txBuf')
    <3> DEFINE s == exec[t].op.stmts
               n == exec[t].i
    <3>1. n \in Nat /\ Len(txBuf) = n - 1 /\ \A k \in 1..Len(txBuf) : txBuf[k] = s[k]
      BY <1>1, <2>5 DEF SoFar
    <3>2. txBuf' = Append(txBuf, s[n]) /\ s[n] \in Stmts
      BY <1>1, <2>6
    <3>3. e.i = n + 1 /\ e.op.stmts = s
      BY <2>4
    <3> HIDE DEF s, n
    <3>4. Len(txBuf') = n /\ txBuf'[n] = s[n] /\ \A k \in 1..(n - 1) : txBuf'[k] = txBuf[k]
      BY <2>0, <3>1, <3>2
    <3> QED
      BY <3>1, <3>3, <3>4 DEF SoFar
  <2>10. Progressing(e, txBuf', inTrans')
    BY <1>0, <1>1, <2>1, <2>4, <2>5, <2>7, <2>8, <2>9 DEF Progressing
  <2>11. connOwner' # Nobody
    BY <2>2, ClientAssumption DEF Thread
  <2> QED
    BY <1>0, <2>3, <2>10, <2>11, ProgressKept
<1> QED
  BY <1>2, <1>3

LEMMA ProgressEnds ==
    ASSUME TypeOK, Locking, Progress, NEW t \in Thread,
           StatementFailed(t) \/ Commit(t) \/ AddResult(t)
    PROVE  Progress'
<1>0. /\ exec[t].ph \in {"stmt", "commit", "answer"} /\ connOwner = t
      /\ exec' = [exec EXCEPT ![t] = Idle]
      /\ Progressing(exec[t], txBuf, inTrans)
  BY DEF StatementFailed, Commit, AddResult, Locking, ConnectionExclusive, Progress
<1>1. ~inTrans'
  <2>1. CASE StatementFailed(t)
    <3>1. CASE exec[t].op.kind = "tx"
      <4>1. inTrans' = FALSE
        BY <2>1, <3>1, Zenon DEF StatementFailed
      <4> QED
        BY <4>1
    <3>2. CASE exec[t].op.kind # "tx"
      BY <1>0, <2>1, <3>2 DEF StatementFailed, Progressing
    <3> QED
      BY <3>1, <3>2
  <2>2. CASE Commit(t)
    BY <2>2 DEF Commit
  <2>3. CASE AddResult(t)
    BY <1>0, <2>3 DEF AddResult, Progressing, serverVars
  <2> QED
    BY <2>1, <2>2, <2>3
<1> QED
  BY <1>0, <1>1, ProgressFinish

LEMMA ProgressQuery ==
    ASSUME TypeOK, Locking, Progress, NEW t \in Thread, RunQuery(t)
    PROVE  Progress'
<1> DEFINE e == [exec[t] EXCEPT !.ph = "answer", !.saw = Range(db)]
<1>1. /\ exec[t].ph = "stmt" /\ connOwner = t /\ connOwner' = t /\ exec[t].op.kind = "query"
      /\ UNCHANGED <<inTrans, txBuf>>
  BY DEF RunQuery, Locking, ConnectionExclusive, serverVars
<1>2. exec' = [exec EXCEPT ![t] = e] /\ exec[t] \in Executions
  BY DEF RunQuery, TypeOK
<1>3. e.ph = "answer" /\ e.op = exec[t].op
  BY <1>2 DEF Executions
<1>4. Progressing(exec[t], txBuf, inTrans)
  BY <1>1 DEF Progress
<1> HIDE DEF e
<1>5. Progressing(e, txBuf', inTrans')
  BY <1>1, <1>3, <1>4 DEF Progressing
<1>6. connOwner' # Nobody
  BY <1>1, ClientAssumption DEF Thread
<1> QED
  BY <1>1, <1>2, <1>5, <1>6, ProgressKept

LEMMA OwnedKept ==
    ASSUME owner \in Seq(Client), NEW own, own = owner \/ \E x \in Client : own = Append(owner, x),
           NEW c, NEW s, OwnedBy(owner, c, s)
    PROVE  OwnedBy(own, c, s)
<1>1. CASE own = owner
  BY <1>1
<1>2. ASSUME NEW x \in Client, own = Append(owner, x) PROVE OwnedBy(own, c, s)
  <2>1. Len(own) = Len(owner) + 1 /\ \A k \in 1..Len(owner) : own[k] = owner[k]
    BY <1>2
  <2> QED
    BY <2>1 DEF OwnedBy
<1> QED
  BY <1>1, <1>2

\* The statement object that thread c creates.
LEMMA OwnedFresh ==
    ASSUME TypeOK, NEW c \in Client, owner' = Append(owner, c)
    PROVE  /\ OwnedBy(owner', c, <<Fresh>>)
           /\ \A s \in StmtSeq : OwnedBy(owner, c, s) => OwnedBy(owner', c, Append(s, Fresh))
<1>1. /\ Fresh \in 1..Len(owner') /\ owner'[Fresh] = c
      /\ Len(owner') = Len(owner) + 1 /\ \A k \in 1..Len(owner) : owner'[k] = owner[k]
  BY DEF TypeOK, Fresh
<1>2. OwnedBy(owner', c, <<Fresh>>)
  BY <1>1 DEF OwnedBy
<1>3. ASSUME NEW s \in StmtSeq, OwnedBy(owner, c, s)
      PROVE  OwnedBy(owner', c, Append(s, Fresh))
  <2> DEFINE u == Append(s, Fresh)
  <2>1. s \in Seq(Stmts) /\ Len(owner) \in Nat
    BY DEF StmtSeq, TypeOK
  <2>2. Len(u) = Len(s) + 1 /\ u[Len(s) + 1] = Fresh /\ \A k \in 1..Len(s) : u[k] = s[k]
    BY <2>1
  <2>3. \A k \in 1..Len(s) : s[k] \in 1..Len(owner) /\ owner[s[k]] = c
    BY <1>3 DEF OwnedBy
  <2> HIDE DEF u
  <2>4. \A k \in 1..Len(u) : u[k] \in 1..Len(owner') /\ owner'[u[k]] = c
    BY <1>1, <2>1, <2>2, <2>3
  <2> QED
    BY <2>4 DEF OwnedBy, u
<1> QED
  BY <1>2, <1>3

LEMMA CreatorsStep ==
    ASSUME TypeOK, Creators,
           owner' = owner \/ \E x \in Client : owner' = Append(owner, x),
           \A c \in Client : \/ tx'[c].stmts \in {tx[c].stmts, <<>>}
                             \/ OwnedBy(owner', c, tx'[c].stmts),
           \A c \in Client : exec'[c].ph # "idle" =>
               \/ exec[c].ph # "idle" /\ exec'[c].op = exec[c].op
               \/ OwnedBy(owner', c, exec'[c].op.stmts) /\ exec'[c].op.kind # "query"
    PROVE  Creators'
<1>1. owner \in Seq(Client)
  BY DEF TypeOK
<1>2. \A c \in Client : \A s : OwnedBy(owner, c, s) => OwnedBy(owner', c, s)
  BY <1>1, OwnedKept
<1>3. \A c \in Client : OwnedBy(owner', c, <<>>)
  BY DEF OwnedBy
<1>4. ASSUME NEW c \in Client PROVE OwnedBy(owner', c, tx'[c].stmts)
  <2>1. OwnedBy(owner', c, tx[c].stmts)
    BY <1>2 DEF Creators
  <2> QED
    BY <1>3, <2>1
<1>5. ASSUME NEW c \in Client, exec'[c].ph # "idle"
      PROVE  OwnedBy(owner', c, exec'[c].op.stmts) /\ exec'[c].op.kind # "query"
  BY <1>2, <1>5 DEF Creators
<1> QED
  BY <1>4, <1>5 DEF Creators

\* A client enters a request of its own statements.
LEMMA CreatorsStart ==
    ASSUME TypeOK, Creators, NEW c \in Client, NEW op \in Ops, StartExecute(c, op),
           owner' = owner \/ \E x \in Client : owner' = Append(owner, x),
           OwnedBy(owner', c, op.stmts), op.kind # "query",
           \A d \in Client : tx'[d].stmts \in {tx[d].stmts, <<>>}
    PROVE  Creators'
<1> DEFINE e == [ph |-> "lock", op |-> op, i |-> 1, saw |-> {}]
<1>1. exec' = exec \/ exec' = [exec EXCEPT ![c] = e]
  BY DEF StartExecute
<1>2. e.op = op
  OBVIOUS
<1> HIDE DEF e
<1>3. \A d \in Client : exec'[d] = exec[d] \/ (d = c /\ exec'[d] = e)
  BY <1>1 DEF TypeOK, Thread
<1> QED
  BY <1>2, <1>3, CreatorsStep

LEMMA CreatorsNext ==
    ASSUME TypeOK, Creators, [Next]_vars
    PROVE  Creators'
<1>1. ASSUME NEW c \in Client,
             BeginTransaction(c) \/ RollbackTransaction(c) \/ ClientEnds(c) \/ AsyncQuery(c)
      PROVE  Creators'
  <2>1. exec' = exec /\ (owner' = owner \/ \E x \in Client : owner' = Append(owner, x))
    BY <1>1 DEF BeginTransaction, RollbackTransaction, ClientEnds, AsyncQuery, requestVars
  <2>2. \/ tx' = tx \/ tx' = [tx EXCEPT ![c] = NoTx]
        \/ tx' = [tx EXCEPT ![c] = [open |-> TRUE, stmts |-> <<>>]]
    BY <1>1 DEF BeginTransaction, RollbackTransaction, ClientEnds, AsyncQuery, requestVars,
                Release
  <2> DEFINE fresh == [open |-> TRUE, stmts |-> <<>>]
  <2>3. NoTx.stmts = <<>> /\ fresh.stmts = <<>>
    BY DEF NoTx
  <2> HIDE DEF fresh
  <2>4. \A d \in Client : tx'[d] \in {tx[d], NoTx, fresh}
    BY <2>2 DEF TypeOK, fresh
  <2>5. \A d \in Client : tx'[d].stmts \in {tx[d].stmts, <<>>}
    BY <2>3, <2>4
  <2> QED
    BY <2>1, <2>5, CreatorsStep
<1>2. ASSUME NEW c \in Client, Execute(c) PROVE Creators'
  <2>1. owner' = Append(owner, c) /\ Fresh \in Stmts
    BY <1>2, FreshType DEF Execute
  <2>2. CASE exec' = exec /\ tx' = tx
    BY <2>1, <2>2, CreatorsStep
  <2>3. CASE exec' = exec /\ tx' = [tx EXCEPT ![c].stmts = Append(@, Fresh)]
    <3>1. tx'[c].stmts = Append(tx[c].stmts, Fresh) /\ \A d \in Client : d # c => tx'[d] = tx[d]
      BY <2>3, TransactionFields DEF TypeOK, Transactions, NoTx
    <3>2. tx[c].stmts \in StmtSeq /\ OwnedBy(owner, c, tx[c].stmts)
      BY TransactionFields DEF TypeOK, Creators
    <3>3. OwnedBy(owner', c, tx'[c].stmts)
      BY <2>1, <3>1, <3>2, OwnedFresh
    <3>4. \A d \in Client : tx'[d].stmts = tx[d].stmts \/ OwnedBy(owner', d, tx'[d].stmts)
      BY <3>1, <3>3
    <3> QED
      BY <2>1, <2>3, <3>4, CreatorsStep
  <2>4. CASE StartExecute(c, Plain(Fresh)) /\ tx' = tx
    <3>1. Plain(Fresh) \in Ops /\ Plain(Fresh).stmts = <<Fresh>> /\ Plain(Fresh).kind # "query"
      BY <2>1, RequestTypes DEF Plain
    <3>2. OwnedBy(owner', c, <<Fresh>>)
      BY <2>1, OwnedFresh
    <3> QED
      BY <2>1, <2>4, <3>1, <3>2, CreatorsStart
  <2> QED
    BY <1>2, <2>2, <2>3, <2>4 DEF Execute
<1>3. ASSUME NEW c \in Client, DirectExecute(c) PROVE Creators'
  <2>1. owner' = Append(owner, c) /\ Fresh \in Stmts /\ tx' = tx /\ StartExecute(c, Plain(Fresh))
    BY <1>3, FreshType DEF DirectExecute
  <2>2. Plain(Fresh) \in Ops /\ Plain(Fresh).stmts = <<Fresh>> /\ Plain(Fresh).kind # "query"
    BY <2>1, RequestTypes DEF Plain
  <2>3. OwnedBy(owner', c, <<Fresh>>)
    BY <2>1, OwnedFresh
  <2> QED
    BY <2>1, <2>2, <2>3, CreatorsStart
<1>4. ASSUME NEW c \in Client, CommitTransaction(c) \/ CommitTransactionDirect(c)
      PROVE  Creators'
  <2> DEFINE op == Transaction(tx[c].stmts)
  <2>1. op \in Ops /\ op.stmts = tx[c].stmts /\ op.kind # "query"
    BY TransactionFields, RequestTypes DEF TypeOK, Transaction
  <2>2. owner' = owner /\ tx' = [tx EXCEPT ![c] = NoTx] /\ (exec' = exec \/ StartExecute(c, op))
    BY <1>4 DEF CommitTransaction, CommitTransactionDirect, Release
  <2>3. OwnedBy(owner', c, op.stmts)
    BY <2>1, <2>2 DEF Creators
  <2>4. \A d \in Client : tx'[d].stmts \in {tx[d].stmts, <<>>}
    BY <2>2 DEF TypeOK, NoTx
  <2> HIDE DEF op
  <2>5. CASE exec' = exec
    BY <2>2, <2>4, <2>5, CreatorsStep
  <2>6. CASE StartExecute(c, op)
    BY <2>1, <2>2, <2>3, <2>4, <2>6, CreatorsStart
  <2> QED
    BY <2>2, <2>5, <2>6
<1>5. ASSUME NEW t \in Thread, ExecuteStep(t) PROVE Creators'
  <2>1. tx' = tx /\ owner' = owner
    BY <1>5 DEF ExecuteStep, LockConnection, StatementDone, StatementFailed, Commit, RunQuery,
                AddResult, requestVars
  <2>2. exec[t].ph # "idle"
    BY <1>5 DEF ExecuteStep, LockConnection, StatementDone, StatementFailed, Commit, RunQuery,
                AddResult
  <2>3. exec \in [Thread -> Executions] /\ Idle.ph = "idle"
    BY IdleType DEF TypeOK
  <2>4. /\ \A u \in Thread : u # t => exec'[u] = exec[u]
        /\ exec'[t].ph = "idle" \/ exec'[t].op = exec[t].op
    <3>1. CASE LockConnection(t)
      BY <2>3, <3>1 DEF LockConnection, Executions
    <3>2. CASE StatementDone(t)
      <4> DEFINE ph == IF exec[t].i = Len(exec[t].op.stmts) THEN "commit" ELSE "stmt"
      <4>1. \/ exec' = [exec EXCEPT ![t] = Idle]
            \/ exec' = [exec EXCEPT ![t].i = @ + 1, ![t].ph = ph]
        BY <3>2, Zenon DEF StatementDone
      <4> HIDE DEF ph
      <4> QED
        BY <2>3, <4>1 DEF Executions
    <3>3. CASE StatementFailed(t) \/ Commit(t) \/ AddResult(t)
      <4>1. exec' = [exec EXCEPT ![t] = Idle]
        BY <3>3 DEF StatementFailed, Commit, AddResult
      <4> QED
        BY <2>3, <4>1
    <3>4. CASE RunQuery(t)
      <4>1. exec' = [exec EXCEPT ![t].ph = "answer", ![t].saw = Range(db)]
        BY <3>4 DEF RunQuery
      <4> QED
        BY <2>3, <4>1 DEF Executions
    <3> QED
      BY <1>5, <3>1, <3>2, <3>3, <3>4 DEF ExecuteStep
  <2>5. Client \subseteq Thread
    BY DEF Thread
  <2>6. \A c \in Client : exec'[c].ph # "idle" => exec[c].ph # "idle" /\ exec'[c].op = exec[c].op
    BY <2>2, <2>4, <2>5
  <2> QED
    BY <2>1, <2>6, CreatorsStep
<1>6. CASE NextRequest
  <2>1. tx' = tx /\ owner' = owner /\ StartExecute(Delayer, Head(local))
    BY <1>6 DEF NextRequest, PopRequest, delayUnchanged
  <2>2. \A c \in Client : exec'[c] = exec[c]
    BY <2>1, ClientAssumption DEF StartExecute, TypeOK, Thread
  <2> QED
    BY <2>1, <2>2, CreatorsStep
<1>7. CASE \/ CheckRunning \/ TakeRequests \/ RequestsDone \/ Ping
           \/ UpdateStep \/ AllowAsyncTransactions \/ HaltDelayThread \/ UNCHANGED vars
  <2>1. UNCHANGED <<tx, owner, exec>>
    BY <1>7 DEF CheckRunning, TakeRequests, RequestsDone, Ping, delayUnchanged,
                UpdateStep, LockResults, RunCallback, UnlockResults, AllowAsyncTransactions,
                HaltDelayThread, requestVars, vars
  <2> QED
    BY <2>1 DEF Creators
<1> QED
  BY <1>1, <1>2, <1>3, <1>4, <1>5, <1>6, <1>7
     DEF Next, ClientStep, DelayStep, Terminated

LEMMA ProperNext ==
    ASSUME TypeOK, ProperQueues, [Next]_vars
    PROVE  ProperQueues'
<1>x. \A c \in Client : tx[c].stmts \in StmtSeq
  BY TransactionFields DEF TypeOK
<1>1. ASSUME NEW c \in Client, Execute(c) PROVE ProperQueues'
  <2>1. Plain(Fresh) \in Ops /\ Proper(Plain(Fresh))
    BY <1>1, FreshType, RequestTypes, ProperRequests DEF Execute
  <2>2. UNCHANGED local /\ (UNCHANGED queue \/ Delay(c, Plain(Fresh)))
    BY <1>1 DEF Execute
  <2> QED
    BY <2>1, <2>2, ProperQuiet, ProperDelay
<1>2. ASSUME NEW c \in Client, CommitTransaction(c) PROVE ProperQueues'
  <2>1. Transaction(tx[c].stmts) \in Ops /\ Proper(Transaction(tx[c].stmts))
    BY <1>x, RequestTypes, ProperRequests
  <2>2. UNCHANGED local /\ (UNCHANGED queue \/ Delay(c, Transaction(tx[c].stmts)))
    BY <1>2 DEF CommitTransaction
  <2> QED
    BY <2>1, <2>2, ProperQuiet, ProperDelay
<1>3. ASSUME NEW c \in Client, AsyncQuery(c) PROVE ProperQueues'
  <2>1. Query(Fresh) \in Ops /\ Proper(Query(Fresh))
    BY <1>3, FreshType, RequestTypes, ProperRequests DEF AsyncQuery
  <2>2. UNCHANGED local /\ Delay(c, Query(Fresh))
    BY <1>3 DEF AsyncQuery
  <2> QED
    BY <2>1, <2>2, ProperDelay
<1>4. CASE TakeRequests
  BY <1>4 DEF TakeRequests, MoveQueue, ProperQueues
<1>5. CASE NextRequest
  <2>1. local \in Seq(Ops) /\ local # <<>> /\ local' = Tail(local) /\ queue' = queue
    BY <1>5, Zenon DEF NextRequest, PopRequest, TypeOK
  <2>2. Len(local') = Len(local) - 1 /\ \A k \in 1..Len(local') : local'[k] = local[k + 1]
    BY <2>1
  <2> QED
    BY <2>1, <2>2 DEF ProperQueues
<1>6. ASSUME NEW c \in Client,
             \/ BeginTransaction(c) \/ DirectExecute(c) \/ CommitTransactionDirect(c)
             \/ RollbackTransaction(c) \/ ClientEnds(c)
      PROVE  ProperQueues'
  BY <1>6, ProperQuiet DEF BeginTransaction, DirectExecute, CommitTransactionDirect,
        RollbackTransaction, ClientEnds, requestVars
<1>7. ASSUME NEW t \in Thread, ExecuteStep(t) PROVE ProperQueues'
  BY <1>7, ProperQuiet DEF ExecuteStep, LockConnection, StatementDone, StatementFailed, Commit,
        RunQuery, AddResult, requestVars
<1>8. CASE \/ CheckRunning \/ RequestsDone \/ Ping
           \/ UpdateStep \/ AllowAsyncTransactions \/ HaltDelayThread \/ UNCHANGED vars
  BY <1>8, ProperQuiet DEF CheckRunning, RequestsDone, Ping, UpdateStep, LockResults,
        RunCallback, UnlockResults, AllowAsyncTransactions, HaltDelayThread, requestVars, vars
<1> QED
  BY <1>1, <1>2, <1>3, <1>4, <1>5, <1>6, <1>7, <1>8
     DEF Next, ClientStep, DelayStep, Terminated

LEMMA ProgressNext ==
    ASSUME ~BeginMayFail, TypeOK, Locking, ProperQueues, Progress, [Next]_vars
    PROVE  Progress'
<1>x. \A c \in Client : tx[c].stmts \in StmtSeq
  BY TransactionFields DEF TypeOK
<1>1. ASSUME NEW c \in Client, Execute(c) \/ DirectExecute(c) PROVE Progress'
  <2>1. Plain(Fresh) \in Ops /\ Proper(Plain(Fresh))
    BY <1>1, FreshType, RequestTypes, ProperRequests DEF Execute, DirectExecute
  <2>2. /\ UNCHANGED <<txBuf, inTrans, connOwner>> /\ exec[c].ph = "idle" /\ c \in Thread
        /\ UNCHANGED exec \/ StartExecute(c, Plain(Fresh))
    BY <1>1 DEF Execute, DirectExecute, Ready, serverVars, Thread
  <2> QED
    BY <2>1, <2>2, ProgressQuiet, ProgressStart
<1>2. ASSUME NEW c \in Client, CommitTransaction(c) \/ CommitTransactionDirect(c)
      PROVE  Progress'
  <2>1. Transaction(tx[c].stmts) \in Ops /\ Proper(Transaction(tx[c].stmts))
    BY <1>x, RequestTypes, ProperRequests
  <2>2. /\ UNCHANGED <<txBuf, inTrans, connOwner>> /\ exec[c].ph = "idle" /\ c \in Thread
        /\ UNCHANGED exec \/ StartExecute(c, Transaction(tx[c].stmts))
    BY <1>2 DEF CommitTransaction, CommitTransactionDirect, Ready, serverVars, Thread
  <2> QED
    BY <2>1, <2>2, ProgressQuiet, ProgressStart
<1>3. ASSUME NEW c \in Client,
             BeginTransaction(c) \/ RollbackTransaction(c) \/ AsyncQuery(c) \/ ClientEnds(c)
      PROVE  Progress'
  BY <1>3, ProgressQuiet DEF BeginTransaction, RollbackTransaction, AsyncQuery, ClientEnds,
        serverVars, requestVars
<1>4. ASSUME NEW t \in Thread, ExecuteStep(t) PROVE Progress'
  BY <1>4, ProgressLock, ProgressStatement, ProgressEnds, ProgressQuery DEF ExecuteStep
<1>5. CASE NextRequest
  <2>1. /\ local \in Seq(Ops) /\ local # <<>> /\ exec[Delayer].ph = "idle"
        /\ UNCHANGED <<txBuf, inTrans, connOwner>> /\ StartExecute(Delayer, Head(local))
    BY <1>5, Zenon DEF NextRequest, PopRequest, TypeOK, delayUnchanged, serverVars
  <2>2. Head(local) \in Ops /\ Proper(Head(local)) /\ Delayer \in Thread
    BY <2>1 DEF ProperQueues, Thread
  <2> QED
    BY <2>1, <2>2, ProgressStart
<1>6. CASE \/ CheckRunning \/ TakeRequests \/ RequestsDone \/ Ping
           \/ UpdateStep \/ AllowAsyncTransactions \/ HaltDelayThread \/ UNCHANGED vars
  BY <1>6, ProgressQuiet DEF CheckRunning, TakeRequests, RequestsDone, Ping, delayUnchanged,
        UpdateStep, LockResults, RunCallback, UnlockResults, AllowAsyncTransactions,
        HaltDelayThread, serverVars, vars
<1> QED
  BY <1>1, <1>2, <1>3, <1>4, <1>5, <1>6
     DEF Next, ClientStep, DelayStep, Terminated

LEMMA CreatorsInit == Init => Creators
<1> SUFFICES ASSUME Init, NEW c \in Client
             PROVE  OwnedBy(owner, c, tx[c].stmts) /\ exec[c].ph = "idle"
  BY DEF Creators
<1>1. tx[c].stmts = <<>> /\ exec[c].ph = "idle"
  BY IdleType DEF Init, NoTx, Thread
<1> QED
  BY <1>1 DEF OwnedBy

LEMMA RefiningInductive ==
    ASSUME ~BeginMayFail
    PROVE  Spec => [](TypeOK /\ Locking /\ Handover /\ Refining)
<1>1. Init => Refining
  <2> SUFFICES ASSUME Init PROVE Refining
    OBVIOUS
  <2>1. ProperQueues
    BY DEF Init, ProperQueues
  <2>2. Progress
    BY IdleType DEF Init, Progress
  <2>3. Creators
    BY CreatorsInit
  <2> QED
    BY <2>1, <2>2, <2>3 DEF Refining
<1>2. TypeOK /\ Locking /\ Refining /\ [Next]_vars => Refining'
  BY ProperNext, ProgressNext, CreatorsNext DEF Refining
<1>3. Init => Handover
  BY HandoverInit
<1>4. TypeOK /\ Handover /\ [Next]_vars => Handover'
  BY HandoverNext
<1> QED
  BY <1>1, <1>2, <1>3, <1>4, LockingInductive, PTL DEF Spec

-----------------------------------------------------------------------------
(* The end of the delay thread, when Master::Run has joined the threads    *)
(* Joined before HaltDelayThread; any other thread may still be running.   *)

OfOthers(own, op) == \E c \in Client \ Joined : OwnedBy(own, c, op.stmts)

Ending ==
    /\ ~running => \A c \in Joined : stopped[c]
    /\ dpc \in {"ended", "flush", "deleted"} => ~running
    /\ dpc \in {"flush", "deleted"} =>
           \A k \in 1..Len(queue) : OfOthers(owner, queue[k])
    /\ nullBody \cap Joined = {}

LEMMA OthersKept ==
    ASSUME TypeOK, owner' = owner \/ \E x \in Client : owner' = Append(owner, x),
           NEW op, OfOthers(owner, op)
    PROVE  OfOthers(owner', op)
<1>1. PICK c \in Client \ Joined : OwnedBy(owner, c, op.stmts)
  BY DEF OfOthers
<1>2. OwnedBy(owner', c, op.stmts)
  BY <1>1, OwnedKept DEF TypeOK
<1> QED
  BY <1>2 DEF OfOthers

LEMMA EndingQuiet ==
    ASSUME TypeOK, Ending, UNCHANGED <<running, queue, owner, nullBody>>,
           \A c \in Client : stopped[c] => stopped'[c],
           dpc' \in {dpc, "check", "sleep", "ping"}
    PROVE  Ending'
BY ClientAssumption DEF Ending

\* A joined thread that has not ended finds the delay thread running, and what
\* another thread adds to the queue is its own.
LEMMA EndingRequest ==
    ASSUME TypeOK, Ending, NEW c \in Client, ~stopped[c],
           UNCHANGED <<running, stopped, dpc>>,
           owner' = owner \/ \E x \in Client : owner' = Append(owner, x),
           \/ UNCHANGED <<queue, nullBody>>
           \/ \E op \in Ops : OwnedBy(owner', c, op.stmts) /\ Delay(c, op)
    PROVE  Ending'
<1>1. CASE c \in Joined
  <2>1. running /\ dpc \notin {"ended", "flush", "deleted"}
    BY <1>1 DEF Ending
  <2>2. nullBody' = nullBody
    BY <2>1 DEF Delay
  <2> QED
    BY <2>1, <2>2 DEF Ending
<1>2. CASE c \notin Joined
  <2>1. nullBody' \subseteq nullBody \cup {c}
    BY Zenon DEF Delay
  <2>2. \/ queue' = queue
        \/ \E op \in Ops : OwnedBy(owner', c, op.stmts) /\ queue' = Append(queue, op)
    BY Zenon DEF Delay
  <2>3. ASSUME \A k \in 1..Len(queue) : OfOthers(owner, queue[k])
        PROVE  \A k \in 1..Len(queue') : OfOthers(owner', queue'[k])
    <3>1. \A k \in 1..Len(queue) : OfOthers(owner', queue[k])
      BY <2>3, OthersKept
    <3>2. ASSUME NEW op \in Ops, OwnedBy(owner', c, op.stmts), queue' = Append(queue, op),
                 NEW k \in 1..Len(queue')
          PROVE  OfOthers(owner', queue'[k])
      <4>1. OfOthers(owner', op)
        BY <1>2, <3>2 DEF OfOthers
      <4>2. queue'[k] = op \/ (k \in 1..Len(queue) /\ queue'[k] = queue[k])
        BY <3>2 DEF TypeOK
      <4> QED
        BY <3>1, <4>1, <4>2
    <3> QED
      BY <2>2, <3>1, <3>2
  <2> QED
    BY <1>2, <2>1, <2>3 DEF Ending
<1> QED
  BY <1>1, <1>2

LEMMA EndingNext ==
    ASSUME TypeOK, Creators, Ending, [Next]_vars
    PROVE  Ending'
<1>1. ASSUME NEW c \in Client,
             \/ BeginTransaction(c) \/ DirectExecute(c) \/ CommitTransactionDirect(c)
             \/ RollbackTransaction(c)
      PROVE  Ending'
  <2>1. /\ ~stopped[c] /\ UNCHANGED <<running, stopped, dpc, queue, nullBody>>
        /\ owner' = owner \/ owner' = Append(owner, c)
    BY <1>1 DEF BeginTransaction, DirectExecute, CommitTransactionDirect,
                RollbackTransaction, Ready
  <2> QED
    BY <2>1, EndingRequest
<1>2. ASSUME NEW c \in Client, Execute(c) PROVE Ending'
  <2>1. Plain(Fresh) \in Ops /\ Plain(Fresh).stmts = <<Fresh>>
    BY <1>2, FreshType, RequestTypes DEF Execute, Plain
  <2>2. /\ ~stopped[c] /\ UNCHANGED <<running, stopped, dpc>>
        /\ owner' = Append(owner, c)
        /\ UNCHANGED <<queue, nullBody>> \/ Delay(c, Plain(Fresh))
    BY <1>2 DEF Execute, Ready
  <2>3. OwnedBy(owner', c, <<Fresh>>)
    BY <2>2, OwnedFresh
  <2> QED
    BY <2>1, <2>2, <2>3, EndingRequest
<1>3. ASSUME NEW c \in Client, CommitTransaction(c) PROVE Ending'
  <2>1. /\ Transaction(tx[c].stmts) \in Ops
        /\ Transaction(tx[c].stmts).stmts = tx[c].stmts
    BY TransactionFields, RequestTypes DEF TypeOK, Transaction
  <2>2. /\ ~stopped[c] /\ UNCHANGED <<running, stopped, dpc, owner>>
        /\ UNCHANGED <<queue, nullBody>> \/ Delay(c, Transaction(tx[c].stmts))
    BY <1>3 DEF CommitTransaction, Ready
  <2>3. OwnedBy(owner', c, tx[c].stmts)
    BY <2>2 DEF Creators
  <2> QED
    BY <2>1, <2>2, <2>3, EndingRequest
<1>4. ASSUME NEW c \in Client, AsyncQuery(c) PROVE Ending'
  <2>1. Query(Fresh) \in Ops /\ Query(Fresh).stmts = <<Fresh>>
    BY <1>4, FreshType, RequestTypes DEF AsyncQuery, Query
  <2>2. /\ ~stopped[c] /\ UNCHANGED <<running, stopped, dpc>>
        /\ owner' = Append(owner, c) /\ Delay(c, Query(Fresh))
    BY <1>4 DEF AsyncQuery, Ready
  <2>3. OwnedBy(owner', c, <<Fresh>>)
    BY <2>2, OwnedFresh
  <2> QED
    BY <2>1, <2>2, <2>3, EndingRequest
<1>5. ASSUME NEW c \in Client, ClientEnds(c) PROVE Ending'
  <2>1. /\ UNCHANGED <<running, queue, owner, nullBody, dpc>>
        /\ \A d \in Client : stopped[d] => stopped'[d]
    BY <1>5 DEF ClientEnds, requestVars, TypeOK
  <2> QED
    BY <2>1, EndingQuiet
<1>6. ASSUME NEW t \in Thread, ExecuteStep(t) PROVE Ending'
  <2>1. UNCHANGED <<running, queue, owner, nullBody, dpc, stopped>>
    BY <1>6 DEF ExecuteStep, LockConnection, StatementDone, StatementFailed, Commit,
                RunQuery, AddResult, requestVars
  <2> QED
    BY <2>1, EndingQuiet
<1>7. CASE CheckRunning
  <2>1. /\ UNCHANGED <<running, queue, owner, nullBody, stopped>>
        /\ dpc' = IF running THEN "sleep" ELSE "ended"
    BY <1>7 DEF CheckRunning, AfterCheck, delayUnchanged
  <2> QED
    BY <2>1 DEF Ending
<1>8. CASE TakeRequests
  <2>1. /\ UNCHANGED <<running, owner, nullBody, stopped>> /\ queue' = <<>>
        /\ dpc' = "run" \/ (dpc = "ended" /\ dpc' = "flush")
    BY <1>8 DEF TakeRequests, MoveQueue, delayUnchanged
  <2> QED
    BY <2>1 DEF Ending
<1>9. CASE NextRequest
  BY <1>9, EndingQuiet DEF NextRequest, delayUnchanged
<1>10. CASE RequestsDone
  <2>1. /\ UNCHANGED <<running, queue, owner, nullBody, stopped>>
        /\ dpc' \in {"check", "ping"} \/ (dpc = "flush" /\ dpc' = "deleted")
    BY <1>10 DEF RequestsDone, delayUnchanged
  <2> QED
    BY <2>1 DEF Ending
<1>11. CASE Ping
  BY <1>11, EndingQuiet DEF Ping, delayUnchanged
<1>12. CASE UpdateStep \/ AllowAsyncTransactions \/ UNCHANGED vars
  <2>1. UNCHANGED <<running, queue, owner, nullBody, dpc, stopped>>
    BY <1>12 DEF UpdateStep, LockResults, RunCallback, UnlockResults,
                 AllowAsyncTransactions, requestVars, vars
  <2> QED
    BY <2>1, EndingQuiet
<1>13. CASE HaltDelayThread
  <2>1. UNCHANGED <<queue, owner, nullBody, dpc, stopped>> /\ \A c \in Joined : stopped[c]
    BY <1>13 DEF HaltDelayThread, requestVars
  <2>2. running' = FALSE
    BY <1>13 DEF HaltDelayThread
  <2> QED
    BY <2>1, <2>2 DEF Ending
<1> QED
  BY <1>1, <1>2, <1>3, <1>4, <1>5, <1>6, <1>7, <1>8, <1>9, <1>10, <1>11, <1>12, <1>13
     DEF Next, ClientStep, DelayStep, Terminated

\* Whatever threads were joined before the delay thread is halted, its
\* destructor leaves no request of theirs unserved and none of them delays one
\* afterwards, although the others go on appending to the queue.
THEOREM NothingIsLeft == Spec => []FlushedBeforeEnd
<1>1. Init => Creators /\ Ending
  BY CreatorsInit DEF Init, Ending
<1>2. TypeOK /\ Creators /\ Ending /\ [Next]_vars => (Creators /\ Ending)'
  BY CreatorsNext, EndingNext
<1>3. TypeOK /\ Handover /\ Ending => FlushedBeforeEnd
  <2> SUFFICES ASSUME TypeOK, Handover, Ending, dpc = "deleted"
               PROVE  /\ \A k \in 1..Len(Unserved) : ~OfJoined(Unserved[k])
                      /\ nullBody \cap Joined = {}
    BY DEF FlushedBeforeEnd
  <2>1. local = <<>> /\ exec[Delayer].ph = "idle" /\ nullBody \cap Joined = {}
    BY DEF Handover, DelayThreadEmptyHanded, Ending
  <2>2. queue \in Seq(Ops) /\ Unserved = <<>> \o <<>> \o queue
    BY <2>1 DEF Unserved, Current, TypeOK
  <2>3. Unserved = queue
    BY <2>2
  <2>4. ASSUME NEW k \in 1..Len(queue) PROVE ~OfJoined(queue[k])
    <3>1. PICK c \in Client \ Joined : OwnedBy(owner, c, queue[k].stmts)
      BY DEF Ending, OfOthers
    <3> QED
      BY <3>1 DEF OwnedBy, OfJoined
  <2> QED
    BY <2>1, <2>3, <2>4
<1>4. Init => Handover
  BY HandoverInit
<1>5. TypeOK /\ Handover /\ [Next]_vars => Handover'
  BY HandoverNext
<1> QED
  BY <1>1, <1>2, <1>3, <1>4, <1>5, TypeCorrect, PTL DEF Spec

-----------------------------------------------------------------------------
(* The refinement of RequestStore: every step is one of its actions or is  *)
(* not seen.                                                               *)

AbsPending == (IF Effective(Delayer) THEN <<>> ELSE <<exec[Delayer].op>>) \o local \o queue
AbsDirect == {exec[c].op : c \in {x \in Client : exec[x].ph # "idle"}}

\* The actions of RequestStore, of what is seen of the state.
LEMMA Unseen ==
    ASSUME AbsPending' = AbsPending, AbsDirect' = AbsDirect, db' = db, AbsAnswers' = AbsAnswers
    PROVE  UNCHANGED Store!absVars
BY DEF Store!absVars, AbsPending, AbsDirect

LEMMA SeenSubmit ==
    ASSUME NEW op \in Ops, AbsPending \in Seq(Ops), AbsPending' = Append(AbsPending, op),
           AbsDirect' = AbsDirect, db' = db, AbsAnswers' = AbsAnswers
    PROVE  Store!AbsNext
<1>1. AbsPending' # <<>> /\ Last(AbsPending') = op
  BY DEF Last
<1>2. Store!Submit
  BY <1>1 DEF Store!Submit, AbsPending, AbsDirect, Last, Store!Last
<1> QED
  BY <1>2, Zenon DEF Store!AbsNext

LEMMA SeenSubmitDirect ==
    ASSUME NEW op, op \notin AbsDirect, AbsDirect' = AbsDirect \cup {op},
           AbsPending' = AbsPending, db' = db, AbsAnswers' = AbsAnswers
    PROVE  Store!AbsNext
<1>1. op \in AbsDirect' \ AbsDirect
  OBVIOUS
<1>2. Store!SubmitDirect
  BY <1>1, Zenon DEF Store!SubmitDirect, AbsPending, AbsDirect
<1> QED
  BY <1>2, Zenon DEF Store!AbsNext

LEMMA SeenServeWrite ==
    ASSUME NEW op, AbsPending # <<>>, op = Head(AbsPending), op.kind # "query",
           AbsPending' = Tail(AbsPending), db' \in {db, db \o op.stmts},
           AbsDirect' = AbsDirect, AbsAnswers' = AbsAnswers
    PROVE  Store!AbsNext
<1>1. Store!ServeWrite
  BY Zenon DEF Store!ServeWrite, AbsPending, AbsDirect
<1> QED
  BY <1>1, Zenon DEF Store!AbsNext

LEMMA SeenServeQuery ==
    ASSUME NEW op, AbsPending # <<>>, op = Head(AbsPending), op.kind = "query",
           AbsPending' = Tail(AbsPending), AbsDirect' = AbsDirect, db' = db,
           AbsAnswers' = Append(AbsAnswers, [id |-> op.stmts[1], saw |-> Range(db)])
    PROVE  Store!AbsNext
<1>1. Store!ServeQuery
  BY DEF Store!ServeQuery, AbsPending, AbsDirect, Range, Store!Range
<1> QED
  BY <1>1, Zenon DEF Store!AbsNext

LEMMA SeenServeDirect ==
    ASSUME NEW op \in AbsDirect, AbsDirect' = AbsDirect \ {op}, db' \in {db, db \o op.stmts},
           AbsPending' = AbsPending, AbsAnswers' = AbsAnswers
    PROVE  Store!AbsNext
<1>1. Store!ServeDirect
  BY Zenon DEF Store!ServeDirect, AbsPending, AbsDirect
<1> QED
  BY <1>1, Zenon DEF Store!AbsNext

LEMMA PendingType ==
    ASSUME TypeOK
    PROVE  AbsPending \in Seq(Ops)
<1>1. exec[Delayer].op \in Ops
  BY ExecutionFields DEF TypeOK, Thread
<1>2. (IF Effective(Delayer) THEN <<>> ELSE <<exec[Delayer].op>>) \in Seq(Ops)
  BY <1>1
<1>3. local \in Seq(Ops) /\ queue \in Seq(Ops)
  BY DEF TypeOK
<1> QED
  BY <1>2, <1>3 DEF AbsPending

LEMMA TakeHead ==
    ASSUME NEW S, NEW a \in Seq(S), NEW b \in Seq(S), a # <<>>
    PROVE  /\ a \o b # <<>>
           /\ Head(a \o b) = Head(a)
           /\ Tail(a \o b) = Tail(a) \o b
           /\ <<Head(a)>> \o Tail(a) \o b = a \o b
<1>1. Head(a) \in S /\ Tail(a) \in Seq(S)
  OBVIOUS
<1>2. a = <<Head(a)>> \o Tail(a)
  BY <1>1
<1>3. a \o b # <<>> /\ Head(a \o b) = Head(a)
  OBVIOUS
<1>4. Tail(a \o b) = Tail(a) \o b
  OBVIOUS
<1> QED
  BY <1>2, <1>3, <1>4

\* Nothing of what is seen changes.
LEMMA RefineQuiet ==
    ASSUME UNCHANGED <<exec, local, queue, db, called, results>>
    PROVE  UNCHANGED Store!absVars
<1>1. AbsPending' = AbsPending
  BY DEF AbsPending, Effective
<1>2. AbsDirect' = AbsDirect
  BY DEF AbsDirect
<1>3. AbsAnswers' = AbsAnswers
  BY DEF AbsAnswers, AnswerOf
<1> QED
  BY <1>1, <1>2, <1>3, Unseen

LEMMA RefineDelay ==
    ASSUME TypeOK, NEW c \in Client, NEW op \in Ops, Delay(c, op),
           UNCHANGED <<exec, local, db, called, results>>
    PROVE  Store!AbsNext \/ UNCHANGED Store!absVars
<1>1. CASE queue' = queue
  BY <1>1, RefineQuiet
<1>2. CASE queue' = Append(queue, op)
  <2> DEFINE e == IF Effective(Delayer) THEN <<>> ELSE <<exec[Delayer].op>>
  <2>1. exec[Delayer].op \in Ops /\ local \in Seq(Ops) /\ queue \in Seq(Ops)
    BY ExecutionFields, Zenon DEF TypeOK, Thread
  <2>2. e \in Seq(Ops) /\ e' = e
    BY <2>1 DEF Effective
  <2>3. AbsPending = e \o local \o queue
    BY DEF AbsPending
  <2>4. AbsPending' = e \o local \o Append(queue, op)
    BY <1>2, <2>2 DEF AbsPending
  <2> HIDE DEF e
  <2>5. AbsPending' = Append(AbsPending, op)
    <3>1. e \o local \in Seq(Ops)
      BY <2>1, <2>2
    <3>2. (e \o local) \o Append(queue, op) = Append((e \o local) \o queue, op)
      BY <2>1, <3>1
    <3> QED
      BY <2>3, <2>4, <3>2
  <2>6. AbsDirect' = AbsDirect
    BY DEF AbsDirect
  <2>7. AbsAnswers' = AbsAnswers
    BY DEF AbsAnswers, AnswerOf
  <2> QED
    BY <2>5, <2>6, <2>7, PendingType, SeenSubmit
<1> QED
  BY <1>1, <1>2, Zenon DEF Delay

\* A thread that is no client leaves the direct requests alone, and a client
\* the delayed ones.
LEMMA DelayerAlone ==
    ASSUME TypeOK, \A c \in Client : exec'[c] = exec[c]
    PROVE  AbsDirect' = AbsDirect
BY DEF AbsDirect

LEMMA ClientAlone ==
    ASSUME exec'[Delayer] = exec[Delayer], UNCHANGED <<local, queue, called, results>>
    PROVE  AbsPending' = AbsPending /\ AbsAnswers' = AbsAnswers
<1>1. AbsPending' = AbsPending
  BY DEF AbsPending, Effective
<1>2. AbsAnswers' = AbsAnswers
  BY DEF AbsAnswers, AnswerOf
<1> QED
  BY <1>1, <1>2

LEMMA RefineStart ==
    ASSUME TypeOK, NEW c \in Client, exec[c].ph = "idle", NEW op \in Ops,
           StartExecute(c, op), UNCHANGED <<local, queue, db, called, results>>
    PROVE  Store!AbsNext \/ UNCHANGED Store!absVars
<1> DEFINE e == [ph |-> "lock", op |-> op, i |-> 1, saw |-> {}]
<1>1. CASE exec' = exec
  BY <1>1, RefineQuiet
<1>2. CASE exec' = [exec EXCEPT ![c] = e]
  <2>1. e.ph # "idle" /\ e.op = op
    OBVIOUS
  <2> HIDE DEF e
  <2>2. exec'[c] = e /\ \A t \in Thread : t # c => exec'[t] = exec[t]
    BY <1>2 DEF TypeOK, Thread
  <2>3. exec'[Delayer] = exec[Delayer]
    BY <2>2, ClientAssumption DEF Thread
  <2>4. \A d \in Client : d # c => exec'[d] = exec[d]
    BY <2>2 DEF Thread
  <2>5. AbsDirect' = AbsDirect \cup {op}
    <3>1. \A d \in Client : exec[d].ph # "idle" => exec'[d].ph # "idle" /\ exec'[d].op = exec[d].op
      BY <2>4
    <3>2. \A d \in Client : exec'[d].ph # "idle" =>
              (exec[d].ph # "idle" /\ exec'[d].op = exec[d].op) \/ exec'[d].op = op
      BY <2>1, <2>2, <2>4
    <3>3. exec'[c].ph # "idle" /\ exec'[c].op = op
      BY <2>1, <2>2
    <3> QED
      BY <3>1, <3>2, <3>3 DEF AbsDirect
  <2>6. AbsPending' = AbsPending /\ AbsAnswers' = AbsAnswers
    BY <2>3, ClientAlone
  <2>7. CASE op \in AbsDirect
    <3>1. AbsDirect' = AbsDirect
      BY <2>5, <2>7
    <3> QED
      BY <2>6, <3>1, Unseen
  <2>8. CASE op \notin AbsDirect
    BY <2>5, <2>6, <2>8, SeenSubmitDirect
  <2> QED
    BY <2>7, <2>8
<1> QED
  BY <1>1, <1>2 DEF StartExecute

\* A step of the delay thread inside Execute.
LEMMA DelayerPending ==
    ASSUME TypeOK, UNCHANGED <<local, queue>>, exec[Delayer].ph \notin {"idle", "answer"}
    PROVE  /\ AbsPending # <<>> /\ Head(AbsPending) = exec[Delayer].op
           /\ exec'[Delayer].ph \in {"idle", "answer"} => AbsPending' = Tail(AbsPending)
           /\ exec'[Delayer].ph \notin {"idle", "answer"}
                 /\ exec'[Delayer].op = exec[Delayer].op => AbsPending' = AbsPending
<1>1. exec[Delayer].op \in Ops /\ local \in Seq(Ops) /\ queue \in Seq(Ops)
  BY ExecutionFields, Zenon DEF TypeOK, Thread
<1>2. AbsPending = <<exec[Delayer].op>> \o local \o queue
  BY DEF AbsPending, Effective
<1>3. AbsPending # <<>> /\ Head(AbsPending) = exec[Delayer].op /\ Tail(AbsPending) = local \o queue
  <2> DEFINE op == exec[Delayer].op
             all == <<op>> \o local \o queue
  <2>1. op \in Ops
    BY <1>1
  <2> HIDE DEF op
  <2>2. all # <<>> /\ Head(all) = op /\ Tail(all) = local \o queue
    <3>1. all # <<>> /\ Head(all) = op
      BY <1>1, <2>1
    <3>2. Tail(all) = local \o queue
      BY <1>1, <2>1
    <3> QED
      BY <3>1, <3>2
  <2> QED
    BY <1>2, <2>2 DEF op
<1>4. ASSUME exec'[Delayer].ph \in {"idle", "answer"} PROVE AbsPending' = Tail(AbsPending)
  <2>1. AbsPending' = <<>> \o local \o queue
    BY <1>4 DEF AbsPending, Effective
  <2> QED
    <3>1. <<>> \o local = local
      BY <1>1
    <3> QED
      BY <1>3, <2>1, <3>1
<1>5. ASSUME exec'[Delayer].ph \notin {"idle", "answer"}, exec'[Delayer].op = exec[Delayer].op
      PROVE  AbsPending' = AbsPending
  BY <1>2, <1>5 DEF AbsPending, Effective
<1> QED
  BY <1>3, <1>4, <1>5

\* A step of a client inside Execute: it goes on, or its request is over.
LEMMA ClientDirect ==
    ASSUME TypeOK, Creators, NEW c \in Client, exec[c].ph # "idle", exec[c].op.stmts # <<>>,
           \A t \in Thread : t # c => exec'[t] = exec[t]
    PROVE  /\ exec[c].op \in AbsDirect
           /\ exec'[c].ph = "idle" => AbsDirect' = AbsDirect \ {exec[c].op}
           /\ exec'[c].ph # "idle" /\ exec'[c].op = exec[c].op => AbsDirect' = AbsDirect
<1>1. exec[c].op \in AbsDirect
  BY DEF AbsDirect
<1>2. ASSUME NEW d \in Client, d # c, exec[d].ph # "idle" PROVE exec[d].op # exec[c].op
  <2>1. exec[c].op.stmts \in Seq(Stmts) /\ exec[d].op.stmts \in Seq(Stmts)
    BY ExecutionFields, Zenon DEF TypeOK, Thread, StmtSeq
  <2>2. OwnedBy(owner, c, exec[c].op.stmts) /\ OwnedBy(owner, d, exec[d].op.stmts)
    BY <1>2 DEF Creators
  <2>3. 1 \in 1..Len(exec[c].op.stmts)
    BY <2>1
  <2>4. owner[exec[c].op.stmts[1]] = c
    BY <2>2, <2>3 DEF OwnedBy
  <2>5. ASSUME exec[d].op = exec[c].op PROVE FALSE
    <3>1. owner[exec[d].op.stmts[1]] = d
      BY <2>2, <2>3, <2>5 DEF OwnedBy
    <3> QED
      BY <1>2, <2>4, <2>5, <3>1
  <2> QED
    BY <2>5
<1>3. \A d \in Client : d # c => exec'[d] = exec[d]
  BY DEF Thread
<1>4. ASSUME exec'[c].ph = "idle" PROVE AbsDirect' = AbsDirect \ {exec[c].op}
  BY <1>2, <1>3, <1>4 DEF AbsDirect
<1>5. ASSUME exec'[c].ph # "idle", exec'[c].op = exec[c].op PROVE AbsDirect' = AbsDirect
  BY <1>3, <1>5 DEF AbsDirect
<1> QED
  BY <1>1, <1>4, <1>5

\* A write goes on, or is over with all or none of its statements applied.
LEMMA RefineWrite ==
    ASSUME TypeOK, Refining, NEW t \in Thread, exec[t].ph \notin {"idle", "answer"},
           UNCHANGED <<local, queue, called, results>>,
           \A u \in Thread : u # t => exec'[u] = exec[u],
           \/ /\ exec'[t].ph \notin {"idle", "answer"} /\ exec'[t].op = exec[t].op
              /\ db' = db
           \/ /\ exec'[t].ph = "idle" /\ exec[t].op.kind # "query"
              /\ db' \in {db, db \o exec[t].op.stmts}
    PROVE  Store!AbsNext \/ UNCHANGED Store!absVars
<1>1. CASE t = Delayer
  <2>1. AbsDirect' = AbsDirect
    BY <1>1, ClientAssumption, DelayerAlone DEF Thread
  <2>2. AbsAnswers' = AbsAnswers
    BY <1>1 DEF AbsAnswers, AnswerOf
  <2>3. CASE exec'[t].ph = "idle"
    <3>1. /\ AbsPending # <<>> /\ Head(AbsPending) = exec[Delayer].op
          /\ AbsPending' = Tail(AbsPending)
      BY <1>1, <2>3, DelayerPending
    <3>2. exec[Delayer].op.kind # "query" /\ db' \in {db, db \o exec[Delayer].op.stmts}
      BY <1>1, <2>3
    <3> QED
      BY <2>1, <2>2, <3>1, <3>2, SeenServeWrite
  <2>4. CASE exec'[t].ph # "idle"
    <3>1. AbsPending' = AbsPending /\ db' = db
      BY <1>1, <2>4, DelayerPending
    <3> QED
      BY <2>1, <2>2, <3>1, Unseen
  <2> QED
    BY <2>3, <2>4
<1>2. CASE t \in Client
  <2>1. AbsPending' = AbsPending /\ AbsAnswers' = AbsAnswers
    BY <1>2, ClientAssumption, ClientAlone DEF Thread
  <2>2. exec[t].op.stmts # <<>>
    BY DEF Refining, Progress, Progressing
  <2>3. Creators
    BY DEF Refining
  <2>4. CASE exec'[t].ph = "idle"
    <3>1. exec[t].op \in AbsDirect /\ AbsDirect' = AbsDirect \ {exec[t].op}
      BY <1>2, <2>2, <2>3, <2>4, ClientDirect
    <3> QED
      BY <2>1, <2>4, <3>1, SeenServeDirect
  <2>5. CASE exec'[t].ph # "idle"
    <3>1. AbsDirect' = AbsDirect /\ db' = db
      BY <1>2, <2>2, <2>3, <2>5, ClientDirect
    <3> QED
      BY <2>1, <3>1, Unseen
  <2> QED
    BY <2>4, <2>5
<1> QED
  BY <1>1, <1>2 DEF Thread

LEMMA RefineExecute ==
    ASSUME TypeOK, Locking, Handover, Refining, NEW t \in Thread,
           LockConnection(t) \/ StatementDone(t) \/ StatementFailed(t) \/ Commit(t)
    PROVE  Store!AbsNext \/ UNCHANGED Store!absVars
<1>0. /\ exec \in [Thread -> Executions] /\ exec[t] \in Executions
      /\ exec[t].op.stmts \in Seq(Stmts) /\ db \in Seq(Stmts) /\ txBuf \in Seq(Stmts)
  BY ExecutionFields, Zenon DEF TypeOK, StmtSeq
<1>1. exec[t].ph \notin {"idle", "answer"} /\ UNCHANGED <<local, queue, called, results>>
  BY DEF LockConnection, StatementDone, StatementFailed, Commit, requestVars
<1>2. Progressing(exec[t], txBuf, inTrans)
  BY <1>1 DEF Refining, Progress
<1>3. CASE LockConnection(t)
  <2>1. exec' = [exec EXCEPT ![t].ph = "stmt"] /\ db' = db
    BY <1>3 DEF LockConnection
  <2>2. exec'[t].ph = "stmt" /\ exec'[t].op = exec[t].op /\ \A u \in Thread : u # t => exec'[u] = exec[u]
    BY <1>0, <2>1 DEF Executions
  <2> QED
    BY <1>1, <2>1, <2>2, RefineWrite
<1>4. CASE StatementDone(t)
  <2> DEFINE s == exec[t].op.stmts[exec[t].i]
             ph == IF exec[t].i = Len(exec[t].op.stmts) THEN "commit" ELSE "stmt"
  <2>0. /\ exec[t].ph = "stmt" /\ exec[t].op.kind # "query"
        /\ exec[t].i \in 1..Len(exec[t].op.stmts)
    BY <1>4 DEF StatementDone, Locking, AtStatement
  <2>1. CASE exec[t].op.kind = "plain"
    <3>1. ~inTrans /\ Len(exec[t].op.stmts) = 1
      BY <1>2, <2>0, <2>1 DEF Progressing, Proper
    <3>2. db' = Append(db, s)
      BY <1>4, <3>1 DEF StatementDone
    <3>3. exec[t].i = 1
      BY <2>0, <3>1
    <3>4. exec[t].op.stmts = <<s>>
      BY <1>0, <3>1, <3>3
    <3>5. s \in Stmts
      BY <1>0, <2>0
    <3> HIDE DEF s
    <3>6. db' = db \o exec[t].op.stmts
      BY <1>0, <3>2, <3>4, <3>5
    <3>7. exec' = [exec EXCEPT ![t] = Idle]
      BY <1>4, <2>1 DEF StatementDone
    <3>8. exec'[t].ph = "idle" /\ \A u \in Thread : u # t => exec'[u] = exec[u]
      BY <1>0, <3>7, IdleType
    <3> QED
      BY <1>1, <2>0, <3>6, <3>8, RefineWrite
  <2>2. CASE exec[t].op.kind # "plain"
    <3>1. exec' = [exec EXCEPT ![t].i = @ + 1, ![t].ph = ph]
      BY <1>4, <2>2 DEF StatementDone
    <3>2. exec[t].op.kind = "tx"
      BY <1>0, <2>0, <2>2, ExecutionFields DEF Kinds
    <3>3. inTrans
      BY <1>2, <2>0, <3>2 DEF Progressing
    <3>4. db' = db
      BY <1>4, <3>3 DEF StatementDone
    <3>5. ph \in {"commit", "stmt"}
      OBVIOUS
    <3> HIDE DEF ph
    <3>6. /\ exec'[t].ph = ph /\ exec'[t].op = exec[t].op
          /\ \A u \in Thread : u # t => exec'[u] = exec[u]
      BY <1>0, <3>1 DEF Executions
    <3> QED
      BY <1>1, <3>4, <3>5, <3>6, RefineWrite
  <2> QED
    BY <2>1, <2>2
<1>5. CASE StatementFailed(t)
  <2>1. exec' = [exec EXCEPT ![t] = Idle] /\ db' = db /\ exec[t].op.kind # "query"
    BY <1>5 DEF StatementFailed
  <2>2. exec'[t].ph = "idle" /\ \A u \in Thread : u # t => exec'[u] = exec[u]
    BY <1>0, <2>1, IdleType
  <2> QED
    BY <1>1, <2>1, <2>2, RefineWrite
<1>6. CASE Commit(t)
  <2>1. exec' = [exec EXCEPT ![t] = Idle] /\ db' = db \o txBuf /\ exec[t].ph = "commit"
    BY <1>6 DEF Commit
  <2>2. exec'[t].ph = "idle" /\ \A u \in Thread : u # t => exec'[u] = exec[u]
    BY <1>0, <2>1, IdleType
  <2>3. exec[t].op.kind = "tx" /\ SoFar(exec[t], txBuf) /\ exec[t].i = Len(exec[t].op.stmts) + 1
    BY <1>2, <2>1 DEF Progressing
  <2>4. txBuf = exec[t].op.stmts
    BY <1>0, <2>3 DEF SoFar
  <2>5. db' = db \o exec[t].op.stmts /\ exec[t].op.kind # "query"
    BY <2>1, <2>3, <2>4
  <2> QED
    BY <1>1, <2>2, <2>5, RefineWrite
<1> QED
  BY <1>3, <1>4, <1>5, <1>6

\* Only the delay thread executes queries.
LEMMA RefineQuery ==
    ASSUME TypeOK, Refining, NEW t \in Thread, RunQuery(t) \/ AddResult(t)
    PROVE  Store!AbsNext \/ UNCHANGED Store!absVars
<1>0. exec \in [Thread -> Executions] /\ called \in Seq(Answers) /\ results \in Seq(Answers)
  BY DEF TypeOK
<1>1. exec[t].op.kind = "query" /\ exec[t].ph \in {"stmt", "answer"}
  BY DEF RunQuery, AddResult, Refining, Progress, Progressing
<1>2. t = Delayer
  BY <1>1 DEF Refining, Creators, Thread
<1>3. exec' = [exec EXCEPT ![Delayer] = exec'[Delayer]] /\ UNCHANGED <<local, queue, called, db>>
  BY <1>0, <1>2 DEF RunQuery, AddResult, requestVars, serverVars
<1>4. AbsDirect' = AbsDirect
  BY <1>0, <1>3, ClientAssumption, DelayerAlone DEF Thread
<1>5. CASE RunQuery(t)
  <2> DEFINE op == exec[Delayer].op
             answer == [id |-> op.stmts[1], saw |-> Range(db)]
  <2>1. /\ exec' = [exec EXCEPT ![Delayer].ph = "answer", ![Delayer].saw = Range(db)]
        /\ exec[Delayer].ph = "stmt" /\ results' = results
    BY <1>2, <1>5 DEF RunQuery
  <2>2. exec'[Delayer].ph = "answer" /\ exec'[Delayer].op = op /\ exec'[Delayer].saw = Range(db)
    BY <1>0, <2>1, ClientAssumption DEF Executions, Thread
  <2>3. AbsPending # <<>> /\ Head(AbsPending) = op /\ AbsPending' = Tail(AbsPending)
    BY <1>3, <2>1, <2>2, DelayerPending
  <2>4. AnswerOf(Delayer)' = answer
    BY <2>2 DEF AnswerOf
  <2>5. AbsAnswers = called \o results \o <<>> /\ AbsAnswers' = called \o results \o <<answer>>
    BY <1>3, <2>1, <2>2, <2>4 DEF AbsAnswers
  <2> HIDE DEF answer
  <2>6. AbsAnswers' = Append(AbsAnswers, answer)
    BY <1>0, <2>5
  <2> QED
    BY <1>1, <1>2, <1>3, <1>4, <2>3, <2>6, SeenServeQuery DEF answer
<1>6. CASE AddResult(t)
  <2>1. /\ exec[Delayer].ph = "answer" /\ results' = Append(results, AnswerOf(Delayer))
        /\ exec' = [exec EXCEPT ![Delayer] = Idle]
    BY <1>2, <1>6 DEF AddResult, Pushed
  <2>2. exec'[Delayer].ph = "idle"
    BY <1>0, <2>1, IdleType DEF Thread
  <2>3. AbsPending' = AbsPending
    BY <1>3, <2>1, <2>2 DEF AbsPending, Effective
  <2>4. /\ AbsAnswers = called \o results \o <<AnswerOf(Delayer)>>
        /\ AbsAnswers' = called \o Append(results, AnswerOf(Delayer)) \o <<>>
    BY <1>3, <2>1, <2>2 DEF AbsAnswers
  <2>5. AbsAnswers' = AbsAnswers
    BY <1>0, <2>4
  <2> QED
    BY <1>3, <1>4, <2>3, <2>5, Unseen
<1> QED
  BY <1>5, <1>6

LEMMA RefineNextRequest ==
    ASSUME TypeOK, Refining, NextRequest
    PROVE  Store!AbsNext \/ UNCHANGED Store!absVars
<1> DEFINE op == Head(local)
           e == [ph |-> "lock", op |-> op, i |-> 1, saw |-> {}]
<1>0. /\ local \in Seq(Ops) /\ local # <<>> /\ queue \in Seq(Ops) /\ op \in Ops /\ Proper(op)
      /\ local' = Tail(local) /\ exec[Delayer].ph = "idle" /\ exec \in [Thread -> Executions]
      /\ StartExecute(Delayer, op) /\ UNCHANGED <<queue, db, called, results>>
  <2>1. local \in Seq(Ops) /\ local # <<>> /\ queue \in Seq(Ops) /\ exec \in [Thread -> Executions]
    BY Zenon DEF NextRequest, TypeOK
  <2>2. op \in Ops /\ Proper(op)
    BY <2>1 DEF Refining, ProperQueues
  <2>3. /\ local' = Tail(local) /\ exec[Delayer].ph = "idle"
        /\ StartExecute(Delayer, op) /\ UNCHANGED <<queue, db, called, results>>
    BY DEF NextRequest, PopRequest, delayUnchanged, serverVars
  <2> QED
    BY <2>1, <2>2, <2>3
<1>1. AbsPending = local \o queue
  <2>1. AbsPending = <<>> \o local \o queue
    BY <1>0 DEF AbsPending, Effective
  <2> QED
    BY <1>0, <2>1
<1>2. /\ AbsPending # <<>> /\ Head(AbsPending) = op
      /\ Tail(AbsPending) = Tail(local) \o queue /\ <<op>> \o Tail(local) \o queue = AbsPending
  BY <1>0, <1>1, TakeHead
<1>3. CASE op.stmts = <<>>
  <2>1. exec' = exec
    BY <1>0, <1>3 DEF StartExecute
  <2>2. AbsPending' = <<>> \o Tail(local) \o queue
    <3>1. local' = Tail(local) /\ queue' = queue /\ Effective(Delayer)'
      BY <1>0, <2>1 DEF Effective
    <3> QED
      BY <3>1 DEF AbsPending
  <2>3. AbsPending' = Tail(AbsPending)
    <3>1. Tail(local) \in Seq(Ops)
      BY <1>0
    <3>2. <<>> \o Tail(local) = Tail(local)
      BY <3>1
    <3> QED
      BY <1>2, <2>2, <3>2
  <2>4. op.kind = "tx"
    <3>1. Len(op.stmts) # 1
      BY <1>3
    <3> QED
      BY <1>0, <3>1, Zenon DEF Proper
  <2>5. AbsDirect' = AbsDirect
    BY <2>1 DEF AbsDirect
  <2>6. AbsAnswers' = AbsAnswers
    BY <1>0, <2>1 DEF AbsAnswers, AnswerOf
  <2> QED
    BY <1>0, <1>2, <2>3, <2>4, <2>5, <2>6, SeenServeWrite
<1>4. CASE op.stmts # <<>>
  <2>1. exec' = [exec EXCEPT ![Delayer] = e]
    BY <1>0, <1>4 DEF StartExecute
  <2>2. exec'[Delayer] = e /\ \A c \in Client : exec'[c] = exec[c]
    BY <1>0, <2>1, ClientAssumption DEF Thread
  <2>3. AbsPending' = <<op>> \o Tail(local) \o queue
    BY <1>0, <2>2 DEF AbsPending, Effective
  <2>4. AbsAnswers' = AbsAnswers
    BY <1>0, <2>2 DEF AbsAnswers
  <2> QED
    BY <1>0, <1>2, <2>2, <2>3, <2>4, DelayerAlone, Unseen
<1> QED
  BY <1>3, <1>4

LEMMA RefineTake ==
    ASSUME TypeOK, Handover, TakeRequests
    PROVE  UNCHANGED Store!absVars
<1>1. /\ queue \in Seq(Ops) /\ local = <<>> /\ exec[Delayer].ph = "idle"
      /\ local' = queue /\ queue' = <<>> /\ UNCHANGED <<exec, db, called, results>>
  <2>1. queue \in Seq(Ops)
    BY Zenon DEF TypeOK
  <2>2. local = <<>> /\ exec[Delayer].ph = "idle"
    BY DEF TakeRequests, Handover, DelayThreadEmptyHanded
  <2>3. local' = queue /\ queue' = <<>> /\ UNCHANGED <<exec, db, called, results>>
    BY DEF TakeRequests, MoveQueue, delayUnchanged, serverVars
  <2> QED
    BY <2>1, <2>2, <2>3
<1>2. AbsPending = <<>> \o <<>> \o queue /\ AbsPending' = <<>> \o queue \o <<>>
  BY <1>1 DEF AbsPending, Effective
<1>3. AbsPending' = AbsPending
  BY <1>1, <1>2
<1>4. AbsDirect' = AbsDirect
  BY <1>1 DEF AbsDirect
<1>5. AbsAnswers' = AbsAnswers
  BY <1>1 DEF AbsAnswers, AnswerOf
<1> QED
  BY <1>1, <1>3, <1>4, <1>5, Unseen

LEMMA RefineCallback ==
    ASSUME TypeOK, RunCallback
    PROVE  UNCHANGED Store!absVars
<1>1. /\ called \in Seq(Answers) /\ results \in Seq(Answers) /\ results # <<>>
      /\ called' = Append(called, Head(results)) /\ results' = Tail(results)
      /\ UNCHANGED <<exec, local, queue, db>>
  BY DEF RunCallback, Waiting, TypeOK, requestVars, serverVars
<1>2. called' \o results' = called \o results
  BY <1>1
<1>3. AbsPending' = AbsPending
  BY <1>1 DEF AbsPending, Effective
<1>4. AbsDirect' = AbsDirect
  BY <1>1 DEF AbsDirect
<1>5. AbsAnswers' = AbsAnswers
  BY <1>1, <1>2 DEF AbsAnswers, AnswerOf
<1> QED
  BY <1>1, <1>3, <1>4, <1>5, Unseen

LEMMA RefineNext ==
    ASSUME TypeOK, Locking, Handover, Refining, [Next]_vars
    PROVE  Store!AbsNext \/ UNCHANGED Store!absVars
<1>x. \A c \in Client : Transaction(tx[c].stmts) \in Ops
  BY TransactionFields, RequestTypes DEF TypeOK
<1>1. ASSUME NEW c \in Client, Execute(c) \/ DirectExecute(c)
      PROVE  Store!AbsNext \/ UNCHANGED Store!absVars
  <2>1. Plain(Fresh) \in Ops
    BY <1>1, FreshType, RequestTypes DEF Execute, DirectExecute
  <2>2. /\ exec[c].ph = "idle" /\ UNCHANGED <<local, db, called, results>>
        /\ \/ UNCHANGED <<exec, queue>>
           \/ UNCHANGED exec /\ Delay(c, Plain(Fresh))
           \/ UNCHANGED queue /\ StartExecute(c, Plain(Fresh))
    BY <1>1 DEF Execute, DirectExecute, Ready, serverVars
  <2> QED
    BY <2>1, <2>2, RefineQuiet, RefineDelay, RefineStart
<1>2. ASSUME NEW c \in Client, CommitTransaction(c) \/ CommitTransactionDirect(c)
      PROVE  Store!AbsNext \/ UNCHANGED Store!absVars
  <2>1. /\ exec[c].ph = "idle" /\ UNCHANGED <<local, db, called, results>>
        /\ \/ UNCHANGED exec /\ Delay(c, Transaction(tx[c].stmts))
           \/ UNCHANGED queue /\ StartExecute(c, Transaction(tx[c].stmts))
    BY <1>2 DEF CommitTransaction, CommitTransactionDirect, Ready, serverVars
  <2> QED
    BY <1>x, <2>1, RefineDelay, RefineStart
<1>3. ASSUME NEW c \in Client, AsyncQuery(c)
      PROVE  Store!AbsNext \/ UNCHANGED Store!absVars
  <2>1. Query(Fresh) \in Ops
    BY <1>3, FreshType, RequestTypes DEF AsyncQuery
  <2>2. UNCHANGED <<exec, local, db, called, results>> /\ Delay(c, Query(Fresh))
    BY <1>3 DEF AsyncQuery, serverVars
  <2> QED
    BY <2>1, <2>2, RefineDelay
<1>4. ASSUME NEW c \in Client, BeginTransaction(c) \/ RollbackTransaction(c) \/ ClientEnds(c)
      PROVE  UNCHANGED Store!absVars
  BY <1>4, RefineQuiet DEF BeginTransaction, RollbackTransaction, ClientEnds, serverVars,
        requestVars
<1>5. ASSUME NEW t \in Thread, ExecuteStep(t)
      PROVE  Store!AbsNext \/ UNCHANGED Store!absVars
  BY <1>5, RefineExecute, RefineQuery DEF ExecuteStep
<1>6. CASE \/ CheckRunning \/ RequestsDone \/ Ping \/ LockResults \/ UnlockResults
           \/ AllowAsyncTransactions \/ HaltDelayThread \/ UNCHANGED vars
  BY <1>6, RefineQuiet DEF CheckRunning, RequestsDone, Ping, delayUnchanged, LockResults,
        UnlockResults, AllowAsyncTransactions, HaltDelayThread, requestVars, serverVars, vars
<1> QED
  BY <1>1, <1>2, <1>3, <1>4, <1>5, <1>6, RefineNextRequest, RefineTake, RefineCallback
     DEF Next, ClientStep, DelayStep, UpdateStep, Terminated

\* Whatever the threads do, the database behaves as one store that serves the
\* delayed requests one by one in the order of Delay, each as a whole or not at
\* all, as long as the server does not refuse START TRANSACTION.
THEOREM StoreIsImplemented ==
    ASSUME ~BeginMayFail
    PROVE  Spec => ImplementsRequestStore
<1>1. Init => Store!AbsInit
  <2> SUFFICES ASSUME Init PROVE Store!AbsInit
    OBVIOUS
  <2>1. \A t \in Thread : exec[t].ph = "idle"
    BY IdleType DEF Init
  <2>2. AbsPending = <<>>
    BY <2>1 DEF Init, AbsPending, Effective, Thread
  <2>3. AbsDirect = {}
    BY <2>1 DEF AbsDirect, Thread
  <2>4. AbsAnswers = <<>> /\ db = <<>>
    BY <2>1 DEF Init, AbsAnswers, Thread
  <2> QED
    BY <2>2, <2>3, <2>4, Zenon DEF Store!AbsInit, AbsPending, AbsDirect
<1>2. TypeOK /\ Locking /\ Handover /\ Refining /\ [Next]_vars
          => [Store!AbsNext]_(Store!absVars)
  BY RefineNext
<1> QED
  BY <1>1, <1>2, RefiningInductive, PTL DEF Spec, ImplementsRequestStore, Store!AbsSpec

=============================================================================
