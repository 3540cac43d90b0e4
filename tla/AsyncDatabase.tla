--------------------------- MODULE AsyncDatabase ----------------------------
(***************************************************************************)
(* A Database object (src/shared/Database): the threads that write to it,  *)
(* its delay thread (SqlDelayThread) and the result queue (SqlResultQueue) *)
(* the world thread drains.                                                *)
(*                                                                         *)
(* A client thread either appends a request to m_sqlQueue, which the delay *)
(* thread executes later on the async connection, or executes it directly  *)
(* on that same connection.  The connection has a recursive lock, held     *)
(* during one SqlOperation::Execute; the result queue has a lock of its    *)
(* own, held during a whole SqlResultQueue::Update, callbacks included.    *)
(* m_queueMutex is only ever held for one push or one swap, so those are   *)
(* single steps.                                                           *)
(*                                                                         *)
(* A statement is a number, its rank in the order of creation, and the     *)
(* database server is the sequence of the statements it has committed.     *)
(***************************************************************************)
EXTENDS Naturals, Sequences, FiniteSets, SequencesExt

CONSTANTS
    Client,         \* the threads that use the Database object
    World,          \* the one that calls ProcessResultQueue
    Delayer,        \* the delay thread (in its destructor: the main thread)
    Joined,         \* the clients that have ended before HaltDelayThread
    MaxStmts,       \* bound: statements and queries created in a behaviour
    MaxTx,          \* bound: transactions that are committed
    MaxLoading,     \* bound: statements created while the server loads
    StmtMayFail,    \* may the server refuse a statement?
    BeginMayFail    \* may the server refuse START TRANSACTION?

Nobody == "nobody"
ASSUME ClientAssumption ==
    /\ World \in Client
    /\ Delayer \notin Client
    /\ Nobody \notin Client \cup {Delayer}
    /\ Joined \subseteq Client
ASSUME BoundAssumption ==
    /\ MaxStmts \in Nat
    /\ MaxTx \in Nat
    /\ MaxLoading \in Nat
    /\ StmtMayFail \in BOOLEAN
    /\ BeginMayFail \in BOOLEAN

VARIABLES
    allowAsync,     \* m_allowAsyncTransactions
    tx,             \* m_currentTransaction of every client thread
    queue,          \* SqlDelayThread::m_sqlQueue
    running,        \* SqlDelayThread::m_running
    dpc,            \* where the delay thread is in run(), or its destructor
    local,          \* sqlQueue of ProcessRequests
    exec,           \* the SqlOperation::Execute every thread is in
    connOwner,      \* who holds the lock of m_pAsyncConn
    resOwner,       \* who holds SqlResultQueue::m_mutex
    results,        \* SqlResultQueue::m_queue
    inTrans,        \* the async connection has an open transaction
    txBuf,          \* statements executed in that transaction
    db,             \* statements committed by the server
    owner,          \* the creator of every statement
    stopped,        \* client threads that have ended
    sent,           \* history: requests given to Delay, in order
    failed,         \* history: statements refused or rolled back
    called,         \* history: answers whose callback has run
    txs,            \* history: the transactions committed by their threads
    nullBody        \* history: the threads that called Delay after its deletion

requestVars == <<tx, queue, owner, sent, txs, nullBody>>
serverVars  == <<inTrans, txBuf, db, failed>>
vars == <<allowAsync, tx, queue, running, dpc, local, exec, connOwner,
          resOwner, results, inTrans, txBuf, db, owner, stopped, sent, failed,
          called, txs, nullBody>>

Thread == Client \cup {Delayer}

Stmts == 1..MaxStmts
StmtSeq == Seq(Stmts)
Kinds == {"plain", "tx", "query"}
Ops == [kind : Kinds, stmts : StmtSeq]
Answers == [id : Stmts, saw : SUBSET Stmts]
Phases == {"idle", "lock", "stmt", "commit", "answer"}
Executions == [ph : Phases, op : Ops, i : Nat, saw : SUBSET Stmts]

Plain(n) == [kind |-> "plain", stmts |-> <<n>>]
Query(n) == [kind |-> "query", stmts |-> <<n>>]
Transaction(s) == [kind |-> "tx", stmts |-> s]
NoTx == [open |-> FALSE, stmts |-> <<>>]
Transactions == {NoTx} \cup [open : {TRUE}, stmts : StmtSeq]
Idle == [ph |-> "idle", op |-> Transaction(<<>>), i |-> 1, saw |-> {}]

TypeOK ==
    /\ allowAsync \in BOOLEAN
    /\ tx \in [Client -> Transactions]
    /\ queue \in Seq(Ops)
    /\ running \in BOOLEAN
    /\ dpc \in {"check", "sleep", "run", "ping", "ended", "flush", "deleted"}
    /\ local \in Seq(Ops)
    /\ exec \in [Thread -> Executions]
    /\ connOwner \in Thread \cup {Nobody}
    /\ resOwner \in {World, Nobody}
    /\ results \in Seq(Answers)
    /\ inTrans \in BOOLEAN
    /\ txBuf \in StmtSeq
    /\ db \in StmtSeq
    /\ owner \in Seq(Client)
    /\ Len(owner) <= MaxStmts
    /\ stopped \in [Client -> BOOLEAN]
    /\ sent \in Seq(Ops)
    /\ failed \in SUBSET Stmts
    /\ called \in Seq(Answers)
    /\ txs \in Seq(StmtSeq)
    /\ nullBody \in SUBSET Client

Init ==
    /\ allowAsync = FALSE
    /\ tx = [c \in Client |-> NoTx]
    /\ queue = <<>>
    /\ running = TRUE
    /\ dpc = "check"
    /\ local = <<>>
    /\ exec = [t \in Thread |-> Idle]
    /\ connOwner = Nobody
    /\ resOwner = Nobody
    /\ results = <<>>
    /\ inTrans = FALSE
    /\ txBuf = <<>>
    /\ db = <<>>
    /\ owner = <<>>
    /\ stopped = [c \in Client |-> FALSE]
    /\ sent = <<>>
    /\ failed = {}
    /\ called = <<>>
    /\ txs = <<>>
    /\ nullBody = {}

-----------------------------------------------------------------------------
(* Requests of a client thread.  A definition whose name ends in a remark   *)
(* after "__" is a defect the properties are tried against; no action uses *)
(* it.                                                                     *)

\* Until AllowAsyncTransactions only the thread that loads the server runs.
Ready(c) ==
    /\ exec[c].ph = "idle"
    /\ ~stopped[c]
    /\ allowAsync \/ c = World

\* The next statement object, if the bound leaves one.
Fresh == Len(owner) + 1
MayCreate ==
    /\ Len(owner) < MaxStmts
    /\ allowAsync \/ Len(owner) < MaxLoading

\* SqlDelayThread::Delay.  HaltDelayThread sets m_threadBody to nullptr.
Delay(c, op) ==
    IF dpc = "deleted"
    THEN nullBody' = nullBody \cup {c} /\ UNCHANGED <<queue, sent>>
    ELSE /\ queue' = Append(queue, op)
         /\ sent' = Append(sent, op)
         /\ UNCHANGED nullBody

\* No callback of this server uses the direct calls: they are made while the
\* server loads, from the world tick outside Update, and by other threads.
MayGoDirect(c) == resOwner # c

\* op->Execute(m_pAsyncConn) is entered; an empty transaction returns at once.
StartExecute(t, op) ==
    exec' = IF op.stmts = <<>>
            THEN exec
            ELSE [exec EXCEPT ![t] = [ph |-> "lock", op |-> op, i |-> 1,
                                      saw |-> {}]]

\* m_currentTransaction.release() and reset().
Release__KeepStatements(c) == tx' = [tx EXCEPT ![c].open = FALSE]
Release(c) == tx' = [tx EXCEPT ![c] = NoTx]

\* Bounded by MaxTx (and pointless when no statement is left).
BeginTransaction(c) ==
    /\ Ready(c)
    /\ ~tx[c].open
    /\ MayCreate
    /\ Cardinality({d \in Client : tx[d].open}) + Len(txs) < MaxTx
    /\ tx' = [tx EXCEPT ![c] = [open |-> TRUE, stmts |-> <<>>]]
    /\ UNCHANGED <<allowAsync, queue, running, dpc, local, exec, connOwner,
                   resOwner, results, serverVars, owner, stopped, sent,
                   called, txs, nullBody>>

\* Execute and ExecuteStmt: into the open transaction, or to the delay thread,
\* or, while the server loads, directly.
Execute(c) ==
    /\ Ready(c)
    /\ MayCreate
    /\ owner' = Append(owner, c)
    /\ \/ /\ tx[c].open
          /\ tx' = [tx EXCEPT ![c].stmts = Append(@, Fresh)]
          /\ UNCHANGED <<queue, sent, nullBody, exec>>
       \/ /\ ~tx[c].open
          /\ allowAsync
          /\ Delay(c, Plain(Fresh))
          /\ UNCHANGED <<tx, exec>>
       \/ /\ ~tx[c].open
          /\ ~allowAsync
          /\ MayGoDirect(c)
          /\ StartExecute(c, Plain(Fresh))
          /\ UNCHANGED <<tx, queue, sent, nullBody>>
    /\ UNCHANGED <<allowAsync, running, dpc, local, connOwner, resOwner,
                   results, serverVars, stopped, called, txs>>

\* DirectExecute and DirectExecuteStmt.
DirectExecute(c) ==
    /\ Ready(c)
    /\ MayCreate
    /\ MayGoDirect(c)
    /\ owner' = Append(owner, c)
    /\ StartExecute(c, Plain(Fresh))
    /\ UNCHANGED <<allowAsync, tx, queue, running, dpc, local, connOwner,
                   resOwner, results, serverVars, stopped, sent, called,
                   txs, nullBody>>

CommitTransaction(c) ==
    /\ Ready(c)
    /\ tx[c].open
    /\ Release(c)
    /\ txs' = Append(txs, tx[c].stmts)
    /\ \/ /\ allowAsync
          /\ Delay(c, Transaction(tx[c].stmts))
          /\ UNCHANGED exec
       \/ /\ ~allowAsync
          /\ MayGoDirect(c)
          /\ StartExecute(c, Transaction(tx[c].stmts))
          /\ UNCHANGED <<queue, sent, nullBody>>
    /\ UNCHANGED <<allowAsync, running, dpc, local, connOwner, resOwner,
                   results, serverVars, owner, stopped, called>>

CommitTransactionDirect(c) ==
    /\ Ready(c)
    /\ tx[c].open
    /\ MayGoDirect(c)
    /\ Release(c)
    /\ txs' = Append(txs, tx[c].stmts)
    /\ StartExecute(c, Transaction(tx[c].stmts))
    /\ UNCHANGED <<allowAsync, queue, running, dpc, local, connOwner,
                   resOwner, results, serverVars, owner, stopped, sent,
                   called, nullBody>>

RollbackTransaction(c) ==
    /\ Ready(c)
    /\ tx[c].open
    /\ Release(c)
    /\ failed' = failed \cup Range(tx[c].stmts)
    /\ UNCHANGED <<allowAsync, queue, running, dpc, local, exec, connOwner,
                   resOwner, results, inTrans, txBuf, db, owner, stopped,
                   sent, called, txs, nullBody>>

\* AsyncQuery and DelayQueryHolder: always to the delay thread.
AsyncQuery(c) ==
    /\ Ready(c)
    /\ MayCreate
    /\ owner' = Append(owner, c)
    /\ Delay(c, Query(Fresh))
    /\ UNCHANGED <<allowAsync, tx, running, dpc, local, exec, connOwner,
                   resOwner, results, serverVars, stopped, called, txs>>

-----------------------------------------------------------------------------
(* SqlOperation::Execute on the async connection, by any thread.           *)

\* SqlConnection::Lock.
ConnectionFree__NoLock == connOwner \in Thread \cup {Nobody}
ConnectionFree == connOwner = Nobody

BeginOutcomes == {TRUE} \cup {b \in BOOLEAN : BeginMayFail}

\* LOCK_DB_CONN, and START TRANSACTION, whose failure the code ignores.
LockConnection(t) ==
    /\ exec[t].ph = "lock"
    /\ ConnectionFree
    /\ connOwner' = t
    /\ exec' = [exec EXCEPT ![t].ph = "stmt"]
    /\ IF exec[t].op.kind = "tx"
       THEN inTrans' \in BeginOutcomes /\ txBuf' = <<>>
       ELSE UNCHANGED <<inTrans, txBuf>>
    /\ UNCHANGED <<allowAsync, requestVars, running, dpc, local, resOwner,
                   results, db, failed, stopped, called>>

\* Statement number i succeeds: in the open transaction, or committed at once.
StatementDone(t) ==
    LET s == exec[t].op.stmts[exec[t].i] IN
    /\ exec[t].ph = "stmt"
    /\ exec[t].op.kind # "query"
    /\ IF inTrans
       THEN txBuf' = Append(txBuf, s) /\ UNCHANGED db
       ELSE db' = Append(db, s) /\ UNCHANGED txBuf
    /\ IF exec[t].op.kind = "plain"
       THEN exec' = [exec EXCEPT ![t] = Idle] /\ connOwner' = Nobody
       ELSE /\ exec' = [exec EXCEPT ![t].i = @ + 1,
                                    ![t].ph = IF exec[t].i = Len(exec[t].op.stmts)
                                              THEN "commit" ELSE "stmt"]
            /\ UNCHANGED connOwner
    /\ UNCHANGED <<allowAsync, requestVars, running, dpc, local, resOwner,
                   results, inTrans, failed, stopped, called>>

\* Statement number i fails: a transaction stops there and rolls back.
StatementFailed(t) ==
    /\ StmtMayFail
    /\ exec[t].ph = "stmt"
    /\ exec[t].op.kind # "query"
    /\ failed' = failed \cup Range(exec[t].op.stmts)
    /\ IF exec[t].op.kind = "tx"
       THEN inTrans' = FALSE /\ txBuf' = <<>>
       ELSE UNCHANGED <<inTrans, txBuf>>
    /\ exec' = [exec EXCEPT ![t] = Idle]
    /\ connOwner' = Nobody
    /\ UNCHANGED <<allowAsync, requestVars, running, dpc, local, resOwner,
                   results, db, stopped, called>>

Commit(t) ==
    /\ exec[t].ph = "commit"
    /\ db' = db \o txBuf
    /\ inTrans' = FALSE
    /\ txBuf' = <<>>
    /\ exec' = [exec EXCEPT ![t] = Idle]
    /\ connOwner' = Nobody
    /\ UNCHANGED <<allowAsync, requestVars, running, dpc, local, resOwner,
                   results, failed, stopped, called>>

\* SqlQuery and SqlQueryHolderEx: the result is taken, the lock is kept.
RunQuery(t) ==
    /\ exec[t].ph = "stmt"
    /\ exec[t].op.kind = "query"
    /\ exec' = [exec EXCEPT ![t].ph = "answer", ![t].saw = Range(db)]
    /\ UNCHANGED <<allowAsync, requestVars, running, dpc, local, connOwner,
                   resOwner, results, serverVars, stopped, called>>

AnswerOf(t) == [id |-> exec[t].op.stmts[1], saw |-> exec[t].saw]

\* m_queue.push(callback).
Pushed(q, x) == Append(q, x)

\* SqlResultQueue::Add, with the lock of the connection still held.
AddResult(t) ==
    /\ exec[t].ph = "answer"
    /\ resOwner = Nobody
    /\ results' = Pushed(results, AnswerOf(t))
    /\ exec' = [exec EXCEPT ![t] = Idle]
    /\ connOwner' = Nobody
    /\ UNCHANGED <<allowAsync, requestVars, running, dpc, local, resOwner,
                   serverVars, stopped, called>>

ExecuteStep(t) ==
    \/ LockConnection(t) \/ StatementDone(t) \/ StatementFailed(t)
    \/ Commit(t) \/ RunQuery(t) \/ AddResult(t)

-----------------------------------------------------------------------------
(* SqlDelayThread::run, HaltDelayThread and the destructor.                *)

delayUnchanged == <<allowAsync, tx, owner, sent, txs, nullBody, connOwner,
                    resOwner, results, serverVars, stopped, called>>

\* while (m_running): one sleep, or the end of the thread.
AfterCheck__NoFlush == IF running THEN "sleep" ELSE "deleted"
AfterCheck__Endless == "sleep"
AfterCheck == IF running THEN "sleep" ELSE "ended"

CheckRunning ==
    /\ dpc = "check"
    /\ dpc' = AfterCheck
    /\ UNCHANGED <<queue, running, local, exec, delayUnchanged>>

\* ProcessRequests takes the whole queue: sqlQueue = std::move(m_sqlQueue).
MoveQueue__Copy == local' = queue /\ queue' = queue
MoveQueue__LeaveLast ==
    /\ local' = IF queue = <<>> THEN <<>> ELSE Front(queue)
    /\ queue' = IF queue = <<>> THEN <<>> ELSE <<Last(queue)>>
MoveQueue == local' = queue /\ queue' = <<>>

TakeRequests ==
    /\ dpc \in {"sleep", "ended"}
    /\ MoveQueue
    /\ dpc' = IF dpc = "sleep" THEN "run" ELSE "flush"
    /\ UNCHANGED <<running, exec, delayUnchanged>>

PopRequest__Newest ==
    /\ local' = Front(local)
    /\ StartExecute(Delayer, Last(local))
PopRequest ==
    /\ local' = Tail(local)
    /\ StartExecute(Delayer, Head(local))

NextRequest ==
    /\ dpc \in {"run", "flush"}
    /\ exec[Delayer].ph = "idle"
    /\ local # <<>>
    /\ PopRequest
    /\ UNCHANGED <<queue, running, dpc, delayUnchanged>>

\* The local queue is empty: perhaps a Ping, or the end of the destructor.
RequestsDone ==
    /\ dpc \in {"run", "flush"}
    /\ exec[Delayer].ph = "idle"
    /\ local = <<>>
    /\ dpc' \in IF dpc = "run" THEN {"check", "ping"} ELSE {"deleted"}
    /\ UNCHANGED <<queue, running, local, exec, delayUnchanged>>

\* Database::Ping locks and unlocks the async connection.
Ping ==
    /\ dpc = "ping"
    /\ ConnectionFree
    /\ dpc' = "check"
    /\ UNCHANGED <<queue, running, local, exec, delayUnchanged>>

DelayStep ==
    CheckRunning \/ TakeRequests \/ NextRequest \/ RequestsDone \/ Ping

AllowAsyncTransactions ==
    /\ ~allowAsync
    /\ exec[World].ph = "idle"
    /\ ~tx[World].open
    /\ allowAsync' = TRUE
    /\ UNCHANGED <<requestVars, running, dpc, local, exec, connOwner,
                   resOwner, results, serverVars, stopped, called>>

\* A client thread ends, outside any transaction or callback.
ClientEnds(c) ==
    /\ Ready(c)
    /\ allowAsync
    /\ ~tx[c].open
    /\ resOwner # c
    /\ stopped' = [stopped EXCEPT ![c] = TRUE]
    /\ UNCHANGED <<allowAsync, requestVars, running, dpc, local, exec,
                   connOwner, resOwner, results, serverVars, called>>

\* HaltDelayThread, called by Master::Run after it has joined the others.
HaltDelayThread ==
    /\ running
    /\ \A c \in Joined : stopped[c]
    /\ running' = FALSE
    /\ UNCHANGED <<allowAsync, requestVars, dpc, local, exec, connOwner,
                   resOwner, results, serverVars, stopped, called>>

-----------------------------------------------------------------------------
(* SqlResultQueue::Update on the world thread.                             *)

\* The test of the loop in Update.
Waiting == results # <<>>

\* An Update that finds the queue empty changes nothing and is left out.
LockResults ==
    /\ Ready(World)
    /\ allowAsync
    /\ ~tx[World].open
    /\ resOwner = Nobody
    /\ Waiting
    /\ resOwner' = World
    /\ UNCHANGED <<allowAsync, requestVars, running, dpc, local, exec,
                   connOwner, results, serverVars, stopped, called>>

\* The next callback runs; what it requests are later steps of World.
RunCallback ==
    /\ Ready(World)
    /\ resOwner = World
    /\ ~tx[World].open
    /\ Waiting
    /\ called' = Append(called, Head(results))
    /\ results' = Tail(results)
    /\ UNCHANGED <<allowAsync, requestVars, running, dpc, local, exec,
                   connOwner, resOwner, serverVars, stopped>>

UnlockResults ==
    /\ Ready(World)
    /\ resOwner = World
    /\ ~tx[World].open
    /\ ~Waiting
    /\ resOwner' = Nobody
    /\ UNCHANGED <<allowAsync, requestVars, running, dpc, local, exec,
                   connOwner, results, serverVars, stopped, called>>

UpdateStep == LockResults \/ RunCallback \/ UnlockResults

-----------------------------------------------------------------------------
ClientStep(c) ==
    \/ BeginTransaction(c) \/ Execute(c) \/ DirectExecute(c)
    \/ CommitTransaction(c) \/ CommitTransactionDirect(c)
    \/ RollbackTransaction(c) \/ AsyncQuery(c) \/ ClientEnds(c)

\* Everything has ended.
Terminated ==
    /\ dpc = "deleted"
    /\ \A c \in Client : stopped[c]
    /\ UNCHANGED vars

Next ==
    \/ \E c \in Client : ClientStep(c)
    \/ \E t \in Thread : ExecuteStep(t)
    \/ DelayStep
    \/ UpdateStep
    \/ AllowAsyncTransactions
    \/ HaltDelayThread
    \/ Terminated

Spec == Init /\ [][Next]_vars

\* Threads keep running: the delay thread, a thread inside Execute, a thread
\* inside a transaction, Master::Run; and the world thread comes back to
\* Update on every tick.
Fairness ==
    /\ WF_vars(DelayStep)
    /\ \A t \in Thread : WF_vars(ExecuteStep(t))
    /\ \A c \in Client : WF_vars(CommitTransaction(c))
    /\ SF_vars(UpdateStep)
    /\ WF_vars(HaltDelayThread)

FairSpec == Spec /\ Fairness

-----------------------------------------------------------------------------
(* Properties.                                                             *)

\* Given to Delay and not yet finished by the delay thread, oldest first.
Current == IF exec[Delayer].ph = "idle" THEN <<>> ELSE <<exec[Delayer].op>>
Unserved == Current \o local \o queue

\* The swap of the queues, the destructor's flush and Delay racing with both
\* neither lose, repeat nor reorder a request: what is unserved is exactly the
\* newest part of what was given to Delay.
EndsWith(s, u) ==
    /\ Len(u) <= Len(s)
    /\ \A k \in 1..Len(u) : u[k] = s[Len(s) - Len(u) + k]
FifoHandover == EndsWith(sent, Unserved)

\* Outside ProcessRequests the delay thread holds no request.
DelayThreadEmptyHanded ==
    dpc \notin {"run", "flush"} => local = <<>> /\ exec[Delayer].ph = "idle"

\* A thread inside Execute is at a statement of its request: an empty
\* transaction is never entered and none is run past its end.
AtStatement ==
    \A t \in Thread :
        exec[t].ph \in {"lock", "stmt", "answer"}
            => exec[t].i \in 1..Len(exec[t].op.stmts)

\* Holders of the lock of the connection are the threads past LOCK_DB_CONN, so
\* no two operations interleave on the connection.
ConnectionExclusive ==
    \A t \in Thread :
        exec[t].ph \in {"stmt", "commit", "answer"} <=> connOwner = t


\* A statement that failed, alone or with its transaction, is not in the store.
FailedNotApplied == failed \cap Range(db) = {}

\* When the destructor of the delay thread is over, every request of a thread
\* that Master::Run had joined before HaltDelayThread has been executed, and
\* none of those threads delays one afterwards: what the last ProcessRequests of
\* the loop left is executed by the destructor, whatever the other threads do.
OfJoined(op) == \E k \in 1..Len(op.stmts) : owner[op.stmts[k]] \in Joined
FlushedBeforeEnd ==
    dpc = "deleted" =>
        /\ \A k \in 1..Len(Unserved) : ~OfJoined(Unserved[k])
        /\ nullBody \cap Joined = {}

\* The same of every thread.  The code does not keep it: the thread of the
\* battleground queue is not joined (BattleGroundQueue.cpp:1440, 1495).
NobodyTooLate == dpc = "deleted" => Unserved = <<>> /\ nullBody = {}

\* Every request given to Delay is executed, and every answer reaches its callback
\* while the world thread runs.
RequestsServed ==
    /\ \A k \in 1..MaxStmts :
          Len(sent) >= k ~> Len(sent) - Len(Unserved) >= k
    /\ \A n \in Stmts :
          (\E r \in Range(results) : r.id = n)
              ~> stopped[World] \/ \E r \in Range(called) : r.id = n

\* Once the clients have ended, HaltDelayThread ends too.
ShutdownEnds == (\A c \in Client : stopped[c]) ~> dpc = "deleted"

\* Refinement: a request of the delay thread has its effect at its last
\* statement or at its COMMIT, a query when it has read.
Effective(t) == exec[t].ph \in {"idle", "answer"}
AbsAnswers ==
    called \o results
        \o (IF exec[Delayer].ph = "answer" THEN <<AnswerOf(Delayer)>> ELSE <<>>)

Store == INSTANCE RequestStore WITH
    pending <- (IF Effective(Delayer) THEN <<>> ELSE <<exec[Delayer].op>>)
                   \o local \o queue,
    direct  <- {exec[c].op : c \in {x \in Client : exec[x].ph # "idle"}},
    store   <- db,
    answers <- AbsAnswers

ImplementsRequestStore == Store!AbsSpec

=============================================================================
