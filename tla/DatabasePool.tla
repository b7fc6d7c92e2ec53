----------------------------- MODULE DatabasePool -----------------------------
(***************************************************************************)
(* The asynchronous half of a DatabaseWorkerPool: transactions are pushed  *)
(* into a ProducerConsumerQueue, each DatabaseWorker pops them and runs    *)
(* them on its own MySQLConnection, and Close() stops the workers one by   *)
(* one.  Producers enqueue the transactions 1, 2, ... in this order.       *)
(*                                                                         *)
(* The MySQL server is external.  It runs statements inside a transaction  *)
(* (atomic, isolated) or, on a connection that has none open, in           *)
(* autocommit mode.  It may answer with a deadlock (which rolls the        *)
(* transaction back), with another error, or lose the connection; START    *)
(* TRANSACTION, ROLLBACK and COMMIT can fail as well, and START            *)
(* TRANSACTION commits whatever an earlier failure has left open.          *)
(***************************************************************************)
EXTENDS Integers, Sequences, SequencesExt, FiniteSets

CONSTANTS
    NumWorkers,   \* bound: <Database>.WorkerThreads, chosen when the pool is opened
    NumTasks,     \* bound: transactions enqueued
    Statements,   \* length of each transaction
    Empty,        \* transactions without any statement
    Faults,       \* what the server may do: "deadlock", "error", "lost", "unreachable"
    MaxFaults,    \* bound: how often it does so
    LoopBreaker   \* uint8 loopBreaker = 5 in TransactionTask::Execute

Workers == 1 .. NumWorkers
Tasks == 1 .. NumTasks
None == 0
Nothing == [t \in Tasks |-> <<>>]

ASSUME DatabasePoolAssumption ==
    /\ NumWorkers \in Nat \ {0} /\ NumTasks \in Nat
    /\ Statements \in Nat \ {0} /\ Empty \subseteq Tasks
    /\ Faults \subseteq {"deadlock", "error", "lost", "unreachable"}
    /\ MaxFaults \in Nat /\ LoopBreaker \in Nat \ {0}

VARIABLES
    queue, shutdown,   \* ProducerConsumerQueue::_queue, _shutdown
    cancelationToken,  \* of each worker
    pc, task,          \* of each worker: where it is, the operation it has popped
    next,              \* of each worker: the statement it executes next
    retries,           \* of each worker: 0, or which iteration of the retry loop
    deadlockLock,      \* TransactionTask::_deadlockLock: its holder, or None
    open, pending,     \* per connection: is a transaction open, and what it
                       \* did for each of our transactions
    committed,         \* per transaction: its statements that are durable, in order
    outcome,           \* per transaction: what its promise says
    workers,           \* the asynchronous connections that Open() has opened
    pool, victim,      \* where Close() is, and with which connection
    faults,            \* answers of the server that were not "ok"
    torn               \* transactions under which the connection was lost, or whose
                       \* own START TRANSACTION, ROLLBACK or COMMIT failed

queueVars == <<queue, shutdown, cancelationToken>>
execVars == <<task, next, retries, deadlockLock>>
serverVars == <<open, pending, committed>>
closeVars == <<workers, pool, victim>>
faultVars == <<faults, torn>>
vars == <<queueVars, execVars, serverVars, closeVars, faultVars, pc, outcome>>

WorkerPC == {"pop", "wait", "popped", "begin", "execute", "commit", "lock", "stopped"}
Outcome == {"unsent", "queued", "running", "true", "false", "dropped"}
PoolPC == {"open", "token", "cancel", "join", "closed", "aborted"}

TypeOK ==
    /\ queue \in Seq(Tasks) /\ shutdown \in BOOLEAN
    /\ cancelationToken \in [Workers -> BOOLEAN]
    /\ pc \in [Workers -> WorkerPC]
    /\ task \in [Workers -> Tasks \cup {None}]
    /\ next \in [Workers -> 1 .. Statements]
    /\ retries \in [Workers -> 0 .. LoopBreaker]
    /\ deadlockLock \in Workers \cup {None}
    /\ open \in [Workers -> BOOLEAN]
    /\ pending \in [Workers -> [Tasks -> Seq(1 .. Statements)]]
    /\ committed \in [Tasks -> Seq(1 .. Statements)]
    /\ outcome \in [Tasks -> Outcome]
    /\ workers \in Workers
    /\ pool \in PoolPC /\ victim \in 1 .. workers + 1
    /\ faults \in 0 .. MaxFaults /\ torn \subseteq Tasks

Init ==
    /\ queue = <<>> /\ shutdown = FALSE
    /\ cancelationToken = [w \in Workers |-> FALSE]
    /\ workers \in Workers
    /\ pc = [w \in Workers |-> IF w <= workers THEN "pop" ELSE "stopped"]
    /\ task = [w \in Workers |-> None]
    /\ next = [w \in Workers |-> 1]
    /\ retries = [w \in Workers |-> 0]
    /\ deadlockLock = None
    /\ open = [w \in Workers |-> FALSE]
    /\ pending = [w \in Workers |-> Nothing]
    /\ committed = [t \in Tasks |-> <<>>]
    /\ outcome = [t \in Tasks |-> "unsent"]
    /\ pool = "open" /\ victim = 1
    /\ faults = 0 /\ torn = {}

Goto(w, from, to) == pc[w] = from /\ pc' = [pc EXCEPT ![w] = to]

-----------------------------------------------------------------------------
(* ProducerConsumerQueue. *)

\* Fault: no worker is notified.
PushQuietly(t) ==
    /\ pool = "open"
    /\ outcome[t] = "unsent"
    /\ \A s \in 1 .. t - 1 : outcome[s] # "unsent"
    /\ queue' = Append(queue, t)
    /\ outcome' = [outcome EXCEPT ![t] = "queued"]
    /\ UNCHANGED <<shutdown, cancelationToken, pc, execVars, serverVars, closeVars, faultVars>>

\* Push, called by CommitTransaction: notify_one wakes one sleeping worker.
Push(t) ==
    /\ pool = "open"
    /\ outcome[t] = "unsent"
    /\ \A s \in 1 .. t - 1 : outcome[s] # "unsent"
    /\ queue' = Append(queue, t)
    /\ outcome' = [outcome EXCEPT ![t] = "queued"]
    /\ \/ \E w \in Workers : Goto(w, "wait", "pop")
       \/ /\ \A w \in Workers : pc[w] # "wait"
          /\ UNCHANGED pc
    /\ UNCHANGED <<shutdown, cancelationToken, execVars, serverVars, closeVars, faultVars>>

\* Fault: the newest operation is popped.
WaitAndPopBack(w) ==
    /\ \/ /\ queue = <<>> /\ ~shutdown
          /\ Goto(w, "pop", "wait")
          /\ UNCHANGED <<queue, task>>
       \/ /\ shutdown
          /\ Goto(w, "pop", "popped")
          /\ UNCHANGED <<queue, task>>
       \/ /\ queue # <<>> /\ ~shutdown
          /\ Goto(w, "pop", "popped")
          /\ task' = [task EXCEPT ![w] = Last(queue)]
          /\ queue' = Front(queue)
    /\ UNCHANGED <<shutdown, cancelationToken, next, retries, deadlockLock,
                   serverVars, closeVars, outcome, faultVars>>

\* WaitAndPop: one pass of its loop, under _queueLock.
WaitAndPop(w) ==
    /\ \/ /\ queue = <<>> /\ ~shutdown
          /\ Goto(w, "pop", "wait")
          /\ UNCHANGED <<queue, task>>
       \/ /\ shutdown
          /\ Goto(w, "pop", "popped")
          /\ UNCHANGED <<queue, task>>
       \/ /\ queue # <<>> /\ ~shutdown
          /\ Goto(w, "pop", "popped")
          /\ task' = [task EXCEPT ![w] = Head(queue)]
          /\ queue' = Tail(queue)
    /\ UNCHANGED <<shutdown, cancelationToken, next, retries, deadlockLock,
                   serverVars, closeVars, outcome, faultVars>>

\* Fault: the token is tested the wrong way round.
CheckNotCanceled(w) ==
    /\ \/ /\ ~cancelationToken[w] \/ task[w] = None
          /\ Goto(w, "popped", "stopped")
          /\ outcome' = [t \in Tasks |-> IF t = task[w] THEN "dropped" ELSE outcome[t]]
       \/ /\ cancelationToken[w] /\ task[w] # None
          /\ Goto(w, "popped", "begin")
          /\ outcome' = [outcome EXCEPT ![task[w]] = "running"]
    /\ UNCHANGED <<queueVars, execVars, serverVars, closeVars, faultVars>>

\* The test after WaitAndPop; it may throw away what was popped.
CheckCanceled(w) ==
    /\ \/ /\ cancelationToken[w] \/ task[w] = None
          /\ Goto(w, "popped", "stopped")
          /\ outcome' = [t \in Tasks |-> IF t = task[w] THEN "dropped" ELSE outcome[t]]
       \/ /\ ~cancelationToken[w] /\ task[w] # None
          /\ Goto(w, "popped", "begin")
          /\ outcome' = [outcome EXCEPT ![task[w]] = "running"]
    /\ UNCHANGED <<queueVars, execVars, serverVars, closeVars, faultVars>>

-----------------------------------------------------------------------------
(* TransactionTask::Execute around MySQLConnection::ExecuteTransaction. *)

\* The operation is over: the promise is set, the lock released, the
\* operation deleted, and the worker returns to the head of its loop.
Finish(w, value) ==
    /\ outcome' = [outcome EXCEPT ![task[w]] = value]
    /\ task' = [task EXCEPT ![w] = None]
    /\ retries' = [retries EXCEPT ![w] = 0]
    /\ deadlockLock' = IF deadlockLock = w THEN None ELSE deadlockLock
    /\ pc' = [pc EXCEPT ![w] = "pop"]

\* ExecuteTransaction returned an error.  Only a deadlock at the first
\* attempt enters the retry loop; inside the loop every error is retried.
Failed(w, error) ==
    \/ /\ retries[w] = 0 /\ error = "deadlock"
       /\ pc' = [pc EXCEPT ![w] = "lock"]
       /\ UNCHANGED <<outcome, task, retries, deadlockLock>>
    \/ /\ retries[w] \in 1 .. LoopBreaker - 1
       /\ retries' = [retries EXCEPT ![w] = @ + 1]
       /\ pc' = [pc EXCEPT ![w] = "begin"]
       /\ UNCHANGED <<outcome, task, deadlockLock>>
    \/ /\ \/ retries[w] = 0 /\ error # "deadlock"
          \/ retries[w] = LoopBreaker
       /\ Finish(w, "false")

AcquireDeadlockLock(w) ==
    /\ deadlockLock = None
    /\ Goto(w, "lock", "begin")
    /\ deadlockLock' = w
    /\ retries' = [retries EXCEPT ![w] = 1]
    /\ UNCHANGED <<queueVars, task, next, serverVars, closeVars, outcome, faultVars>>

\* What the server does with a statement it accepts.
Apply(w) ==
    IF open[w]
    THEN /\ pending' = [pending EXCEPT ![w][task[w]] = Append(@, next[w])]
         /\ UNCHANGED committed
    ELSE /\ committed' = [committed EXCEPT ![task[w]] = Append(@, next[w])]
         /\ UNCHANGED pending

\* The server makes durable what the open transaction of a connection did.
Flush(w) == committed' = [t \in Tasks |-> committed[t] \o pending[w][t]]

\* What is left of the transaction of a connection when it is over.
Forget(w) ==
    /\ open' = [open EXCEPT ![w] = FALSE]
    /\ pending' = [pending EXCEPT ![w] = Nothing]

\* The server answers worker w with something else than "ok".
Fault(w, kind) ==
    /\ kind \in Faults
    /\ faults < MaxFaults
    /\ faults' = faults + 1

Tear(w) == torn' = torn \cup {task[w]}

\* An empty transaction is refused; otherwise START TRANSACTION.
BeginTransaction(w) ==
    /\ pc[w] = "begin"
    /\ next' = [next EXCEPT ![w] = 1]
    /\ \/ /\ task[w] \in Empty
          /\ Failed(w, "empty")
          /\ UNCHANGED serverVars
       \/ /\ task[w] \notin Empty
          /\ Flush(w)
          /\ open' = [open EXCEPT ![w] = TRUE]
          /\ pending' = [pending EXCEPT ![w] = Nothing]
          /\ Goto(w, "begin", "execute")
          /\ UNCHANGED <<task, retries, deadlockLock, outcome>>
    /\ UNCHANGED <<queueVars, closeVars, faultVars>>

\* START TRANSACTION fails, before or after the server has ended what was
\* open.  Nobody looks at the result: the statements run all the same.
BeginFails(w) ==
    /\ task[w] \notin Empty
    /\ Goto(w, "begin", "execute")
    /\ Fault(w, "error")
    /\ Tear(w)
    /\ next' = [next EXCEPT ![w] = 1]
    /\ \/ Flush(w) /\ Forget(w)
       \/ UNCHANGED serverVars
    /\ UNCHANGED <<queueVars, task, retries, deadlockLock, closeVars, outcome>>

\* The connection is lost in START TRANSACTION, which is sent again on a new
\* connection.
BeginLost(w) ==
    /\ pc[w] = "begin"
    /\ task[w] \notin Empty
    /\ Fault(w, "lost")
    /\ Flush(w) \/ UNCHANGED committed
    /\ Forget(w)
    /\ UNCHANGED <<queueVars, execVars, closeVars, pc, outcome, torn>>

Execute(w) ==
    /\ pc[w] = "execute"
    /\ Apply(w)
    /\ \/ /\ next[w] < Statements
          /\ next' = [next EXCEPT ![w] = @ + 1]
          /\ UNCHANGED pc
       \/ /\ next[w] = Statements
          /\ Goto(w, "execute", "commit")
          /\ UNCHANGED next
    /\ UNCHANGED <<queueVars, task, retries, deadlockLock, open, closeVars, outcome, faultVars>>

\* Fault: the transaction is not rolled back.
ExecuteFailsWithoutRollback(w, error) ==
    /\ pc[w] = "execute"
    /\ Fault(w, error)
    /\ Failed(w, error)
    /\ UNCHANGED <<queueVars, next, serverVars, closeVars, torn>>

\* The statement fails: the transaction is aborted with ROLLBACK, which
\* cannot undo what ran in autocommit mode.
ExecuteFails(w, error) ==
    /\ pc[w] = "execute"
    /\ Fault(w, error)
    /\ Forget(w)
    /\ Failed(w, error)
    /\ UNCHANGED <<queueVars, next, committed, closeVars, torn>>

\* The statement fails, and so does the ROLLBACK, whose result is not looked
\* at: the transaction stays open.  (A ROLLBACK in which the connection is
\* lost undoes the transaction as well; a deadlock has undone it already.)
RollbackFails(w) ==
    /\ pc[w] = "execute"
    /\ Fault(w, "error")
    /\ Tear(w)
    /\ Failed(w, "error")
    /\ UNCHANGED <<queueVars, next, serverVars, closeVars>>

\* _HandleMySQLErrno reconnects and the same statement is executed again, on
\* a new connection in autocommit mode.  The answer may have been lost after
\* the server executed the statement.
ConnectionLost(w) ==
    /\ pc[w] = "execute"
    /\ Fault(w, "lost")
    /\ Tear(w)
    /\ Forget(w)
    /\ \/ /\ ~open[w]
          /\ committed' = [committed EXCEPT ![task[w]] = Append(@, next[w])]
       \/ UNCHANGED committed
    /\ UNCHANGED <<queueVars, execVars, closeVars, pc, outcome>>

\* COMMIT; its result is not looked at.
CommitTransaction(w) ==
    /\ pc[w] = "commit"
    /\ Flush(w)
    /\ Forget(w)
    /\ Finish(w, "true")
    /\ UNCHANGED <<queueVars, next, closeVars, faultVars>>

\* COMMIT fails, with the transaction rolled back or still open, and 0 is
\* returned all the same.
CommitFails(w) ==
    /\ pc[w] = "commit"
    /\ Fault(w, "error")
    /\ Tear(w)
    /\ \/ Forget(w) /\ UNCHANGED committed
       \/ UNCHANGED serverVars
    /\ Finish(w, "true")
    /\ UNCHANGED <<queueVars, next, closeVars>>

\* The connection is lost in COMMIT: the server may have executed it or not,
\* and the COMMIT that is sent again on the new connection commits nothing.
CommitLost(w) ==
    /\ pc[w] = "commit"
    /\ Fault(w, "lost")
    /\ Tear(w)
    /\ Flush(w) \/ UNCHANGED committed
    /\ Forget(w)
    /\ Finish(w, "true")
    /\ UNCHANGED <<queueVars, next, closeVars>>

\* The server cannot be reached any more: std::abort() ends all threads.
Abort(w) ==
    /\ pc[w] \in {"begin", "execute", "commit"} /\ task[w] \notin Empty
    /\ Fault(w, "unreachable")
    /\ pool' = "aborted"
    /\ pc' = [v \in Workers |-> "stopped"]
    /\ UNCHANGED <<queueVars, execVars, serverVars, workers, victim, outcome, torn>>

Worker(w) ==
    \/ WaitAndPop(w)
    \/ CheckCanceled(w)
    \/ AcquireDeadlockLock(w)
    \/ BeginTransaction(w)
    \/ Execute(w)
    \/ CommitTransaction(w)

Server(w) ==
    \/ BeginFails(w)
    \/ BeginLost(w)
    \/ \E error \in {"deadlock", "error"} : ExecuteFails(w, error)
    \/ RollbackFails(w)
    \/ ConnectionLost(w)
    \/ CommitFails(w)
    \/ CommitLost(w)
    \/ Abort(w)

-----------------------------------------------------------------------------
(* DatabaseWorkerPool::Close destroys the connections in turn, and each     *)
(* connection first destroys its worker.                                    *)

Close ==
    /\ pool = "open"
    /\ pool' = "token"
    /\ UNCHANGED <<queueVars, execVars, serverVars, workers, victim, pc, outcome, faultVars>>

\* ~DatabaseWorker: _cancelationToken = true ...
SetToken ==
    /\ pool = "token"
    /\ pool' = "cancel"
    /\ cancelationToken' = [cancelationToken EXCEPT ![victim] = TRUE]
    /\ UNCHANGED <<queue, shutdown, execVars, serverVars, workers, victim, pc, outcome, faultVars>>

\* Fault: sleeping workers are not woken.
CancelQuietly ==
    /\ pool = "cancel"
    /\ pool' = "join"
    /\ queue' = <<>>
    /\ shutdown' = TRUE
    /\ outcome' = [t \in Tasks |-> IF Contains(queue, t) THEN "dropped" ELSE outcome[t]]
    /\ UNCHANGED <<cancelationToken, pc, execVars, serverVars, workers, victim, faultVars>>

\* ... _queue->Cancel(): whatever is queued is deleted, everyone is woken ...
Cancel ==
    /\ pool = "cancel"
    /\ pool' = "join"
    /\ queue' = <<>>
    /\ shutdown' = TRUE
    /\ outcome' = [t \in Tasks |-> IF Contains(queue, t) THEN "dropped" ELSE outcome[t]]
    /\ pc' = [w \in Workers |-> IF pc[w] = "wait" THEN "pop" ELSE pc[w]]
    /\ UNCHANGED <<cancelationToken, execVars, serverVars, workers, victim, faultVars>>

\* Fault: the thread is detached.
JoinNot ==
    /\ pool = "join"
    /\ victim' = victim + 1
    /\ pool' = IF victim = workers THEN "closed" ELSE "token"
    /\ UNCHANGED <<queueVars, execVars, serverVars, workers, pc, outcome, faultVars>>

\* ... and join(); then statements and MySQL handle of the connection go.
Join ==
    /\ pool = "join"
    /\ pc[victim] = "stopped"
    /\ victim' = victim + 1
    /\ pool' = IF victim = workers THEN "closed" ELSE "token"
    /\ UNCHANGED <<queueVars, execVars, serverVars, workers, pc, outcome, faultVars>>

Closing == SetToken \/ Cancel \/ Join

Next ==
    \/ \E t \in Tasks : Push(t)
    \/ \E w \in Workers : Worker(w) \/ Server(w)
    \/ Close
    \/ Closing

\* A thread that can run is run by the scheduler.  Nothing forces a
\* transaction, Close() or a fault to happen.
Fairness == WF_vars(Closing) /\ \A w \in Workers : WF_vars(Worker(w))

Spec == Init /\ [][Next]_vars
FairSpec == Spec /\ Fairness

-----------------------------------------------------------------------------
(* Correctness. *)

AllStatements == [i \in 1 .. Statements |-> i]
Whole(t) == IF t \in Empty THEN <<>> ELSE AllStatements

\* "Begins an automanaged transaction pointer that will automatically
\* rollback if not commited": what a transaction did is durable in the order
\* its statements were appended and only as a whole; nothing of it is once
\* it has failed or was dropped.
AutoRollback(t) ==
    /\ committed[t] \in {<<>>, Whole(t)}
    /\ outcome[t] \in {"false", "dropped"} => committed[t] = <<>>

\* The comment holds of every transaction ...
AllOrNothing == \A t \in Tasks : AutoRollback(t)

\* ... but one under which the connection was lost, or whose own START
\* TRANSACTION, ROLLBACK or COMMIT failed, since their results are ignored.
\* Such a failure never harms the transactions before and after it on the
\* same connection, nor those of other workers: their futures tell the
\* truth.  No variable leaves its type.
OnlyFaultedAreTorn ==
    TypeOK /\ \A t \in Tasks \ torn : /\ AutoRollback(t)
                                      /\ outcome[t] = "true" <=> committed[t] # <<>>

\* With one worker, the default, transactions take effect in the order in
\* which they were enqueued: one that starts finds all earlier ones settled.
SettledInOrder ==
    workers = 1 =>
        \A s, t \in Tasks :
            s < t /\ outcome[t] \in {"running", "true", "false"} =>
                outcome[s] \in {"true", "false"}

\* "Stop the worker thread before the statements are cleared": once Close()
\* has gone past a connection its worker is gone and holds no lock, and what
\* the server rolls back with the connection was left open by a transaction
\* whose own ROLLBACK or COMMIT failed.
StoppedBeforeCleared ==
    \A w \in Workers :
        w < victim => /\ pc[w] = "stopped"
                      /\ \A t \in Tasks \ torn : pending[w][t] = <<>>
                      /\ deadlockLock # w

\* Operations are dropped by Close() only: while the pool is open a popped
\* or queued transaction is executed.
DroppedByCloseOnly ==
    pool = "open" => \A t \in Tasks : outcome[t] # "dropped"

\* A transaction that was enqueued is executed or dropped in the end: no
\* wake-up is lost, and retries end.
EventuallySettled ==
    \A t \in Tasks :
        outcome[t] = "queued" ~> (outcome[t] \in {"true", "false", "dropped"}
                                    \/ pool = "aborted")

\* Close() returns: every worker can be joined.
CloseReturns == (pool = "token") ~> (pool \in {"closed", "aborted"})
=============================================================================
