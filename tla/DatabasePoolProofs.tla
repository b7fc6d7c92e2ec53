-------------------------- MODULE DatabasePoolProofs --------------------------
(***************************************************************************)
(* The database pool keeps its promises for any number of workers,         *)
(* transactions, statements, faults of the server and retries.             *)
(*                                                                         *)
(* The inductive invariant PoolInv says of each worker what it holds and   *)
(* what its connection has done so far, of each operation who holds it,    *)
(* and of the queue that it is in the order of Push.  Once the process is  *)
(* aborted only what the database and the promises say still matters.      *)
(***************************************************************************)
EXTENDS DatabasePool, SequenceTheorems, TLAPS

\* What ProducerConsumerQueue::WaitAndPop takes from the front of the queue,
\* and what it leaves there.
LEMMA TailIs ==
    ASSUME NEW S, NEW q \in Seq(S), q # <<>>
    PROVE  /\ Head(q) \in S /\ Head(q) = q[1] /\ 1 \in 1 .. Len(q)
           /\ Tail(q) \in Seq(S) /\ Len(q) \in Nat
           /\ Len(Tail(q)) = Len(q) - 1
           /\ \A i \in 1 .. Len(Tail(q)) : Tail(q)[i] = q[i + 1] /\ i + 1 \in 1 .. Len(q)
           /\ \A i \in 2 .. Len(q) : i - 1 \in 1 .. Len(Tail(q)) /\ Tail(q)[i - 1] = q[i]
OBVIOUS

\* What ProducerConsumerQueue::Push leaves in the queue.
LEMMA AppendIs ==
    ASSUME NEW S, NEW q \in Seq(S), NEW e \in S
    PROVE  /\ Append(q, e) \in Seq(S) /\ Len(q) \in Nat
           /\ Len(Append(q, e)) = Len(q) + 1
           /\ \A i \in 1 .. Len(q) : Append(q, e)[i] = q[i]
           /\ Append(q, e)[Len(q) + 1] = e
OBVIOUS

\* The statements of a transaction after those that are durable already.
LEMMA ConcatIs ==
    ASSUME NEW S, NEW q \in Seq(S), NEW r \in Seq(S)
    PROVE  q \o r \in Seq(S) /\ <<>> \o r = r /\ q \o <<>> = q
<1>1. <<>> \in Seq(S)
  OBVIOUS
<1> QED BY <1>1

\* Where a worker is inside of TransactionTask::Execute.
Running == {"begin", "execute", "commit", "lock"}
\* The first n statements of a transaction, in order.
Prefix(n) == [i \in 1 .. n |-> i]

\* The worker has an operation that it popped and has not deleted yet.
Holds(w) == pc[w] \in Running \cup {"popped"} /\ task[w] # None

\* What a connection has not committed yet belongs to the transaction that the
\* worker executes, or was left open by one that is torn.
Clean(w) ==
    \A t \in Tasks \ torn :
        t # task[w] \/ pc[w] \notin {"execute", "commit"} => pending[w][t] = <<>>

\* A worker and its connection. Inside of ExecuteTransaction the connection has
\* done exactly the statements so far, in one open transaction, unless the
\* transaction is torn. The deadlock lock is only held by a worker that
\* retries.
WorkerOK(w) ==
    /\ workers < w => pc[w] = "stopped"
    /\ pc[w] \in {"pop", "wait"} => task[w] = None
    /\ pc[w] \in Running => task[w] # None
    /\ pc[w] \in {"pop", "wait", "popped", "lock"} => retries[w] = 0
    /\ deadlockLock = w => pc[w] \in {"begin", "execute", "commit"} /\ retries[w] # 0
    /\ Clean(w)
    /\ pc[w] \in {"execute", "commit"} =>
         /\ task[w] \notin Empty
         /\ task[w] \notin torn =>
              /\ open[w]
              /\ pending[w][task[w]] = Prefix(IF pc[w] = "execute" THEN next[w] - 1
                                                                   ELSE Statements)

\* Each operation that is neither new nor settled is held by one worker or is
\* in the queue, and its promise is open.
HoldersOK ==
    /\ \A w \in Workers : Holds(w) =>
         outcome[task[w]] = IF pc[w] = "popped" THEN "queued" ELSE "running"
    /\ \A w, v \in Workers : Holds(w) /\ Holds(v) /\ task[w] = task[v] => w = v
    /\ \A t \in Tasks : outcome[t] = "running" =>
         \E w \in Workers : Holds(w) /\ task[w] = t
    /\ \A t \in Tasks : outcome[t] = "queued" =>
         \/ \E w \in Workers : Holds(w) /\ task[w] = t
         \/ \E i \in 1 .. Len(queue) : queue[i] = t

\* The queue holds the operations that nobody has popped, in the order of Push.
QueueOK ==
    /\ \A i \in 1 .. Len(queue) :
         /\ outcome[queue[i]] = "queued"
         /\ \A w \in Workers : Holds(w) => task[w] # queue[i]
    /\ \A i, j \in 1 .. Len(queue) : i < j => queue[i] < queue[j]
    /\ \A s, t \in Tasks : s < t /\ outcome[s] = "unsent" => outcome[t] = "unsent"

\* What is durable of a transaction that is not torn.
CommittedOK ==
    \A t \in Tasks \ torn :
        committed[t] = IF outcome[t] = "true" THEN AllStatements ELSE <<>>
\* ExecuteTransaction refuses an empty transaction before it talks to the
\* server.
EmptyFail == \A t \in Empty : outcome[t] # "true" /\ t \notin torn

\* How far Close() has come, and what it has left behind.
PoolOK ==
    /\ pool \in {"token", "cancel", "join"} => victim <= workers
    /\ pool = "open" => victim = 1 /\ \A w \in Workers : ~cancelationToken[w]
    /\ pool = "aborted" => \A w \in Workers : pc[w] = "stopped"
    /\ DroppedByCloseOnly
    /\ StoppedBeforeCleared

\* With one worker: all that was pushed before the operation the worker holds
\* is settled, and nothing before what is queued was dropped while the worker
\* still runs.
OrderOK ==
    workers = 1 /\ pc[1] # "stopped" =>
        /\ Holds(1) => \A s \in 1 .. task[1] - 1 : outcome[s] \in {"true", "false"}
        /\ \A i \in 1 .. Len(queue) : \A s \in 1 .. queue[i] - 1 :
             outcome[s] \in {"true", "false", "queued", "running"}

\* What holds as long as std::abort() was not called.
Live ==
    /\ \A w \in Workers : WorkerOK(w)
    /\ HoldersOK
    /\ QueueOK
    /\ OrderOK

\* The inductive invariant.
PoolInv ==
    /\ TypeOK
    /\ CommittedOK
    /\ EmptyFail
    /\ PoolOK
    /\ SettledInOrder
    /\ pool # "aborted" => Live

\* The steps of the pool one by one; after std::abort() there are none.
LEMMA Steps ==
    ASSUME PoolInv, Next
    PROVE  /\ pool # "aborted" /\ Live
           /\ \/ \E t \in Tasks : Push(t)
              \/ \E w \in Workers : WaitAndPop(w)
              \/ \E w \in Workers : CheckCanceled(w)
              \/ \E w \in Workers : AcquireDeadlockLock(w)
              \/ \E w \in Workers : BeginTransaction(w)
              \/ \E w \in Workers : BeginFails(w)
              \/ \E w \in Workers : BeginLost(w)
              \/ \E w \in Workers : Execute(w)
              \/ \E w \in Workers, error \in {"deadlock", "error"} : ExecuteFails(w, error)
              \/ \E w \in Workers : RollbackFails(w)
              \/ \E w \in Workers : ConnectionLost(w)
              \/ \E w \in Workers : CommitTransaction(w)
              \/ \E w \in Workers : CommitFails(w)
              \/ \E w \in Workers : CommitLost(w)
              \/ \E w \in Workers : Abort(w)
              \/ Close
              \/ SetToken
              \/ Cancel
              \/ Join
<1>1. pool # "aborted"
  <2>1. pool = "aborted" => \A w \in Workers : pc[w] = "stopped"
    BY DEF PoolInv, PoolOK
  <2> QED BY <2>1 DEF Next, Push, Worker, WaitAndPop, Goto, CheckCanceled,
        AcquireDeadlockLock, BeginTransaction, Execute, CommitTransaction,
             Server,
        ExecuteFails, BeginFails, BeginLost, RollbackFails, CommitFails, ConnectionLost, CommitLost, Abort, Close, Closing,
             SetToken, Cancel, Join
<1>2. Live
  BY <1>1 DEF PoolInv
<1>3. CASE \E t \in Tasks : Push(t)
  BY <1>1, <1>2, <1>3
<1>4. CASE \E w \in Workers : Worker(w)
  BY <1>1, <1>2, <1>4 DEF Worker
<1>5. CASE \E w \in Workers : Server(w)
  BY <1>1, <1>2, <1>5 DEF Server
<1>6. CASE Close \/ Closing
  BY <1>1, <1>2, <1>6 DEF Closing
<1> QED BY <1>3, <1>4, <1>5, <1>6 DEF Next

\* The type invariant in five parts.
QueueType ==
    queue \in Seq(Tasks) /\ shutdown \in BOOLEAN /\ cancelationToken \in [Workers -> BOOLEAN]
ControlType ==
    pc \in [Workers -> WorkerPC] /\ task \in [Workers -> Tasks \cup {None}] /\ outcome \in [Tasks -> Outcome]
ExecType ==
    /\ next \in [Workers -> 1 .. Statements] /\ retries \in [Workers -> 0 .. LoopBreaker]
    /\ deadlockLock \in Workers \cup {None}
ServerType ==
    /\ open \in [Workers -> BOOLEAN] /\ pending \in [Workers -> [Tasks -> Seq(1 .. Statements)]]
    /\ committed \in [Tasks -> Seq(1 .. Statements)]
CloseType ==
    /\ workers \in Workers /\ pool \in PoolPC /\ victim \in 1 .. workers + 1
    /\ faults \in 0 .. MaxFaults /\ torn \subseteq Tasks

\* The type invariant is these five parts.
LEMMA TypeIs ==
    TypeOK <=> QueueType /\ ControlType /\ ExecType /\ ServerType /\ CloseType
BY DEF TypeOK, QueueType, ControlType, ExecType, ServerType, CloseType

\* The same after a step.
LEMMA TypeIsPrime ==
    TypeOK' <=> QueueType' /\ ControlType' /\ ExecType' /\ ServerType' /\ CloseType'
BY DEF TypeOK, QueueType, ControlType, ExecType, ServerType, CloseType

\* Push, WaitAndPop and Cancel keep a queue of operations.
LEMMA QueueTypeStep ==
    ASSUME PoolInv, Next
    PROVE  QueueType'
<1>0. QueueType /\ CloseType /\ PoolOK
  BY TypeIs DEF PoolInv
<1>1. ASSUME NEW t \in Tasks, Push(t) PROVE QueueType'
  BY <1>0, <1>1, AppendIs DEF QueueType, Push
<1>2. ASSUME NEW w \in Workers, WaitAndPop(w) PROVE QueueType'
  BY <1>0, <1>2, TailIs DEF QueueType, WaitAndPop
<1>3. CASE SetToken \/ Cancel
  <2>1. <<>> \in Seq(Tasks)
    OBVIOUS
  <2> QED BY <1>0, <1>3, <2>1 DEF QueueType, SetToken, Cancel
<1>4. CASE UNCHANGED queueVars
  BY <1>0, <1>4 DEF QueueType, queueVars
<1>5. \/ UNCHANGED queueVars \/ SetToken \/ Cancel
      \/ \E t \in Tasks : Push(t)
      \/ \E w \in Workers : WaitAndPop(w)
  BY Steps DEF CheckCanceled, AcquireDeadlockLock, BeginTransaction, Execute,
       CommitTransaction,
        ExecuteFails, BeginFails, BeginLost, RollbackFails, CommitFails, ConnectionLost, CommitLost, Abort, Close, Join
<1> QED BY <1>1, <1>2, <1>3, <1>4, <1>5

\* Inside of TransactionTask::Execute a worker has an operation.
LEMMA TaskIs ==
    ASSUME PoolInv, Live, NEW w \in Workers, pc[w] \in Running
    PROVE  task[w] \in Tasks
BY DEF PoolInv, Live, WorkerOK, TypeOK

\* No step leaves the places, the operations and the promises there are.
LEMMA ControlTypeStep ==
    ASSUME PoolInv, Next
    PROVE  ControlType'
<1>0. ControlType /\ QueueType /\ Live
  BY TypeIs, Steps DEF PoolInv
<1>1. ASSUME NEW t \in Tasks, Push(t) PROVE ControlType'
  BY <1>0, <1>1 DEF ControlType, Push, Goto, WorkerPC, Outcome, execVars
<1>2. ASSUME NEW w \in Workers, WaitAndPop(w) PROVE ControlType'
  <2>1. queue # <<>> => Head(queue) \in Tasks
    BY <1>0, TailIs DEF QueueType
  <2> QED BY <1>0, <1>2, <2>1 DEF ControlType, WaitAndPop, Goto, WorkerPC
<1>3. ASSUME NEW w \in Workers, CheckCanceled(w) PROVE ControlType'
  BY <1>0, <1>3 DEF ControlType, CheckCanceled, Goto, WorkerPC, Outcome,
       execVars
<1>4. ASSUME NEW w \in Workers, AcquireDeadlockLock(w) \/ Execute(w) \/ Abort(w) PROVE ControlType'
  BY <1>0, <1>4 DEF ControlType, AcquireDeadlockLock, Execute, Abort, Goto,
       WorkerPC, execVars
<1>5. ASSUME NEW w \in Workers, NEW error, Failed(w, error) PROVE ControlType'
  BY <1>0, <1>5 DEF ControlType, Failed, Finish, WorkerPC, Outcome
<1>6. ASSUME NEW w \in Workers, NEW value \in {"true", "false"}, Finish(w, value) PROVE ControlType'
  BY <1>0, <1>6 DEF ControlType, Finish, WorkerPC, Outcome
<1>7. ASSUME NEW w \in Workers, BeginTransaction(w) PROVE ControlType'
  <2>1. CASE Failed(w, "empty")
    BY <1>5, <2>1
  <2>2. CASE Goto(w, "begin", "execute") /\ UNCHANGED <<task, outcome>>
    BY <1>0, <2>2 DEF ControlType, Goto, WorkerPC
  <2> QED BY <1>7, <2>1, <2>2 DEF BeginTransaction
<1>a. ASSUME NEW w \in Workers, BeginFails(w) PROVE ControlType'
  BY <1>0, <1>a DEF ControlType, BeginFails, Goto, WorkerPC
<1>8. ASSUME NEW w \in Workers, NEW error \in {"deadlock", "error"},
             ExecuteFails(w, error) \/ RollbackFails(w)
      PROVE  ControlType'
  BY <1>5, <1>8 DEF ExecuteFails, RollbackFails
<1>9. ASSUME NEW w \in Workers, CommitTransaction(w) \/ CommitFails(w) \/ CommitLost(w)
      PROVE  ControlType'
  BY <1>6, <1>9 DEF CommitTransaction, CommitFails, CommitLost
<1>10. CASE Cancel
  BY <1>0, <1>10 DEF ControlType, Cancel, WorkerPC, Outcome, execVars
<1>11. CASE UNCHANGED <<pc, task, outcome>>
  BY <1>0, <1>11 DEF ControlType
<1>12. ASSUME NEW w \in Workers, ConnectionLost(w) \/ BeginLost(w) PROVE ControlType'
  BY <1>0, <1>12 DEF ControlType, ConnectionLost, BeginLost, execVars
<1>13. Close \/ SetToken \/ Join => UNCHANGED <<pc, task, outcome>>
  BY DEF Close, SetToken, Join, execVars
<1> QED BY Steps, <1>1, <1>2, <1>3, <1>4, <1>7, <1>8, <1>9, <1>10, <1>11, <1>12,
     <1>13, <1>a

\* The retry loop of TransactionTask::Execute stays within loopBreaker, and the
\* index of the statement within the transaction.
LEMMA ExecTypeStep ==
    ASSUME PoolInv, Next
    PROVE  ExecType'
<1>0. ExecType /\ Live
  BY TypeIs, Steps DEF PoolInv
<1> USE DatabasePoolAssumption
<1>1. CASE UNCHANGED <<next, retries, deadlockLock>>
  BY <1>0, <1>1 DEF ExecType
<1>2. ASSUME NEW w \in Workers, AcquireDeadlockLock(w) PROVE ExecType'
  BY <1>0, <1>2 DEF ExecType, AcquireDeadlockLock
<1>3. ASSUME NEW w \in Workers, Execute(w) PROVE ExecType'
  BY <1>0, <1>3 DEF ExecType, Execute
<1>4. ASSUME NEW w \in Workers, NEW error, Failed(w, error)
      PROVE  retries' \in [Workers -> 0 .. LoopBreaker] /\ deadlockLock' \in Workers \cup {None}
  BY <1>0, <1>4 DEF ExecType, Failed, Finish
<1>5. ASSUME NEW w \in Workers, NEW value, Finish(w, value)
      PROVE  retries' \in [Workers -> 0 .. LoopBreaker] /\ deadlockLock' \in Workers \cup {None}
  BY <1>0, <1>5 DEF ExecType, Finish
<1>6. ASSUME NEW w \in Workers, BeginTransaction(w) PROVE ExecType'
  BY <1>0, <1>4, <1>6 DEF ExecType, BeginTransaction
<1>7. ASSUME NEW w \in Workers, NEW error \in {"deadlock", "error"},
             ExecuteFails(w, error) \/ RollbackFails(w)
      PROVE  ExecType'
  BY <1>0, <1>4, <1>7 DEF ExecType, ExecuteFails, RollbackFails
<1>8. ASSUME NEW w \in Workers, CommitTransaction(w) \/ CommitFails(w) \/ CommitLost(w)
      PROVE  ExecType'
  BY <1>0, <1>5, <1>8 DEF ExecType, CommitTransaction, CommitFails, CommitLost
<1>a. ASSUME NEW w \in Workers, BeginFails(w) PROVE ExecType'
  BY <1>0, <1>a DEF ExecType, BeginFails
<1>9. \/ UNCHANGED <<next, retries, deadlockLock>>
      \/ \E w \in Workers : \/ AcquireDeadlockLock(w) \/ Execute(w) \/ BeginTransaction(w)
                            \/ BeginFails(w) \/ RollbackFails(w) \/ CommitFails(w)
                            \/ \E error \in {"deadlock", "error"} : ExecuteFails(w, error)
                            \/ CommitTransaction(w) \/ CommitLost(w)
  BY Steps DEF Push, WaitAndPop, CheckCanceled, ConnectionLost, BeginLost, Abort, Close,
       SetToken, Cancel, Join, execVars
<1> QED BY <1>1, <1>2, <1>3, <1>6, <1>7, <1>8, <1>9, <1>a

\* The connections only do statements of the transactions.
LEMMA ServerTypeStep ==
    ASSUME PoolInv, Next
    PROVE  ServerType'
<1> DEFINE SQ == Seq(1 .. Statements)
<1>0. ServerType /\ ExecType /\ ControlType /\ Live
  BY TypeIs, Steps DEF PoolInv
<1>1. CASE UNCHANGED serverVars
  BY <1>0, <1>1 DEF ServerType, serverVars
<1>2. Nothing \in [Tasks -> SQ]
  <2>1. <<>> \in SQ
    OBVIOUS
  <2> HIDE DEF SQ
  <2> QED BY <2>1 DEF Nothing
<1>3. /\ open \in [Workers -> BOOLEAN] /\ pending \in [Workers -> [Tasks -> SQ]]
      /\ committed \in [Tasks -> SQ]
  BY <1>0 DEF ServerType
<1>4. ASSUME NEW w \in Workers, NEW q \in SQ
      PROVE  Append(q, next[w]) \in SQ /\ \A t \in Tasks : q \o pending[w][t] \in SQ
  <2>1. next[w] \in 1 .. Statements /\ \A t \in Tasks : pending[w][t] \in SQ
    BY <1>0, <1>3 DEF ExecType
  <2> QED BY <2>1, AppendIs, ConcatIs
<1>5. /\ open' \in [Workers -> BOOLEAN] /\ pending' \in [Workers -> [Tasks -> SQ]]
      /\ committed' \in [Tasks -> SQ]
      => ServerType'
  BY DEF ServerType
<1> HIDE DEF SQ
<1>6. ASSUME NEW w \in Workers, Forget(w)
      PROVE  open' \in [Workers -> BOOLEAN] /\ pending' \in [Workers -> [Tasks -> SQ]]
  BY <1>2, <1>3, <1>6 DEF Forget
<1>7. ASSUME NEW w \in Workers, Flush(w) PROVE committed' \in [Tasks -> SQ]
  BY <1>3, <1>4, <1>7 DEF Flush
<1>8. ASSUME NEW w \in Workers, BeginTransaction(w) PROVE ServerType'
  <2>1. CASE UNCHANGED serverVars
    BY <1>1, <2>1
  <2>2. CASE /\ Flush(w) /\ open' = [open EXCEPT ![w] = TRUE]
             /\ pending' = [pending EXCEPT ![w] = Nothing]
    BY <1>2, <1>3, <1>5, <1>7, <2>2
  <2> QED BY <1>8, <2>1, <2>2 DEF BeginTransaction
<1>9. ASSUME NEW w \in Workers, Execute(w) PROVE ServerType'
  <2>1. task[w] \in Tasks /\ open' = open /\ Apply(w)
    BY <1>0, <1>9, TaskIs DEF Execute, Running
  <2>2. Append(pending[w][task[w]], next[w]) \in SQ /\ Append(committed[task[w]], next[w]) \in SQ
    <3>1. pending[w][task[w]] \in SQ /\ committed[task[w]] \in SQ
      BY <1>3, <2>1
    <3> QED BY <1>4, <3>1
  <2>3. CASE open[w]
    <3>1. [pending[w] EXCEPT ![task[w]] = Append(pending[w][task[w]], next[w])] \in [Tasks -> SQ]
      BY <1>3, <2>2
    <3>2. pending' = [pending EXCEPT ![w] = [pending[w] EXCEPT ![task[w]] = Append(pending[w][task[w]], next[w])]]
      BY <1>3, <2>1, <2>3 DEF Apply
    <3> QED BY <1>3, <1>5, <2>1, <2>3, <3>1, <3>2 DEF Apply
  <2>4. CASE ~open[w]
    <3>1. committed' = [committed EXCEPT ![task[w]] = Append(committed[task[w]], next[w])]
      BY <1>3, <2>1, <2>4 DEF Apply
    <3> QED BY <1>3, <1>5, <2>1, <2>2, <2>4, <3>1 DEF Apply
  <2> QED BY <2>3, <2>4
<1>10. ASSUME NEW w \in Workers, Forget(w), Flush(w) \/ UNCHANGED committed PROVE ServerType'
  BY <1>3, <1>5, <1>6, <1>7, <1>10
<1>11. ASSUME NEW w \in Workers, ConnectionLost(w) PROVE ServerType'
  <2>1. committed' \in [Tasks -> SQ]
    <3>1. task[w] \in Tasks
      BY <1>0, <1>11, TaskIs DEF ConnectionLost, Running
    <3>2. Append(committed[task[w]], next[w]) \in SQ
      <4>1. committed[task[w]] \in SQ
        BY <1>3, <3>1
      <4> QED BY <1>4, <4>1
    <3>3. \/ committed' = [committed EXCEPT ![task[w]] = Append(committed[task[w]], next[w])]
          \/ committed' = committed
      BY <1>3, <1>11 DEF ConnectionLost
    <3> QED BY <1>3, <3>1, <3>2, <3>3
  <2> QED BY <1>5, <1>6, <1>11, <2>1 DEF ConnectionLost
<1>12. \/ UNCHANGED serverVars
       \/ \E w \in Workers : \/ Execute(w) \/ BeginTransaction(w) \/ ConnectionLost(w)
                             \/ Forget(w) /\ (Flush(w) \/ UNCHANGED committed)
  BY Steps DEF Push, WaitAndPop, CheckCanceled, AcquireDeadlockLock, BeginFails,
       BeginLost, ExecuteFails, RollbackFails, CommitTransaction, CommitFails,
       CommitLost, Abort, Close, SetToken, Cancel, Join
<1> QED BY <1>1, <1>8, <1>9, <1>10, <1>11, <1>12

\* Close() goes through the connections and not beyond the last.
LEMMA CloseTypeStep ==
    ASSUME PoolInv, Next
    PROVE  CloseType'
<1>0. CloseType /\ PoolOK /\ Live /\ MaxFaults \in Nat /\ NumWorkers \in Nat
  BY TypeIs, Steps, DatabasePoolAssumption DEF PoolInv
<1>1. CASE UNCHANGED <<closeVars, faultVars>>
  BY <1>0, <1>1 DEF CloseType, closeVars, faultVars
<1>2. ASSUME NEW w \in Workers, Server(w) PROVE CloseType'
  <2>1. pc[w] \in Running
    BY <1>2 DEF Server, BeginFails, BeginLost, ExecuteFails, RollbackFails,
         ConnectionLost, CommitFails, CommitLost, Abort, Goto, Running
  <2>2. (\E kind : Fault(w, kind)) /\ (Tear(w) \/ UNCHANGED torn)
    BY <1>2 DEF Server, BeginFails, BeginLost, ExecuteFails, RollbackFails,
         ConnectionLost, CommitFails, CommitLost, Abort
  <2>3. UNCHANGED <<workers, victim>> /\ pool' \in {pool, "aborted"}
    BY <1>2 DEF Server, BeginFails, BeginLost, ExecuteFails, RollbackFails,
         ConnectionLost, CommitFails, CommitLost, Abort, closeVars
  <2> QED BY <1>0, <2>1, <2>2, <2>3, TaskIs DEF CloseType, Fault, Tear, PoolPC
<1>4. CASE Close \/ SetToken \/ Cancel \/ Join
  <2>1. workers \in Nat
    BY <1>0 DEF CloseType, Workers
  <2> QED BY <1>0, <1>4, <2>1 DEF CloseType, PoolOK, Close, SetToken, Cancel,
       Join, faultVars, PoolPC
<1>5. ASSUME NEW w \in Workers, Worker(w) PROVE UNCHANGED <<closeVars, faultVars>>
  BY <1>5 DEF Worker, WaitAndPop, CheckCanceled, AcquireDeadlockLock,
       BeginTransaction, Execute, CommitTransaction
<1>6. ASSUME NEW t \in Tasks, Push(t) PROVE UNCHANGED <<closeVars, faultVars>>
  BY <1>6 DEF Push
<1> QED BY <1>1, <1>2, <1>4, <1>5, <1>6 DEF Next, Closing

\* Every step keeps the types.
LEMMA TypeStep ==
    ASSUME PoolInv, Next
    PROVE  TypeOK'
BY QueueTypeStep, ControlTypeStep, ExecTypeStep, ServerTypeStep, CloseTypeStep,
     TypeIsPrime

-----------------------------------------------------------------------------
\* A connection that has begun a transaction has done nothing of it.
LEMMA PrefixNone == Prefix(0) = <<>>
BY DEF Prefix

\* The step of another thread leaves a worker as it is, unless it takes the
\* deadlock lock away from it.
LEMMA SameWorker ==
    ASSUME NEW v \in Workers, WorkerOK(v), torn \subseteq torn', workers' = workers,
           deadlockLock' = v => deadlockLock = v,
           pc'[v] = pc[v], task'[v] = task[v], retries'[v] = retries[v],
           open'[v] = open[v], pending'[v] = pending[v], next'[v] = next[v]
    PROVE  WorkerOK(v)'
BY DEF WorkerOK, Clean

\* The results of START TRANSACTION, ROLLBACK and COMMIT are ignored, so each
\* of them may leave the worker anywhere in ExecuteTransaction with anything
\* open; but then the transaction is torn.
LEMMA TornWorker ==
    ASSUME NEW w \in Workers, WorkerOK(w), task[w] \in torn', torn \subseteq torn',
           workers' = workers, pc[w] # "stopped", task[w] \notin Empty,
           pc'[w] \in {"lock", "begin", "execute", "pop"},
           pc'[w] = "pop" => task'[w] = None /\ retries'[w] = 0,
           pc'[w] # "pop" => task'[w] = task[w] /\ task[w] # None,
           pc'[w] = "lock" => retries'[w] = 0,
           deadlockLock' = w => pc'[w] \in {"begin", "execute"} /\ retries'[w] # 0,
           pending'[w] = pending[w] \/ pending'[w] = Nothing
    PROVE  WorkerOK(w)'
<1>1. Clean(w)'
  BY DEF WorkerOK, Clean, Nothing
<1> QED BY <1>1 DEF WorkerOK, Running

\* Every step keeps what is said of each worker and its connection: a failed or
\* lost statement leaves nothing open, a retry starts from nothing.
LEMMA WorkersStep ==
    ASSUME PoolInv, Next, pool' # "aborted"
    PROVE  \A w \in Workers : WorkerOK(w)'
<1>0. /\ ControlType /\ ExecType /\ ServerType /\ CloseType
      /\ (\A w \in Workers : WorkerOK(w)) /\ QueueType
  BY TypeIs, Steps DEF PoolInv, Live
<1>a. \A w \in Workers : w \in Int /\ w # None
  BY DatabasePoolAssumption DEF Workers, None
<1>1. ASSUME NEW t \in Tasks, Push(t), NEW v \in Workers PROVE WorkerOK(v)'
  <2>1. UNCHANGED <<execVars, serverVars, closeVars, faultVars>>
    BY <1>1 DEF Push
  <2>2. pc'[v] = pc[v] \/ (pc[v] = "wait" /\ pc'[v] = "pop")
    BY <1>0, <1>1 DEF Push, Goto, ControlType
  <2> QED BY <1>0, <2>1, <2>2 DEF WorkerOK, Clean, Running, execVars, serverVars,
       closeVars, faultVars
<1>2. ASSUME NEW w \in Workers, WaitAndPop(w), NEW v \in Workers PROVE WorkerOK(v)'
  <2>1. UNCHANGED <<next, retries, deadlockLock, serverVars, closeVars, faultVars>>
    BY <1>2 DEF WaitAndPop
  <2>2. CASE v # w
    BY <1>0, <1>2, <2>1, <2>2, SameWorker DEF WaitAndPop, Goto, ControlType,
         serverVars, closeVars, faultVars
  <2>3. CASE v = w
    <3>1. pc[w] = "pop" /\ pc'[w] \in {"wait", "popped"} /\ (pc'[w] = "wait" => task'[w] = task[w])
      BY <1>0, <1>2 DEF WaitAndPop, Goto, ControlType
    <3> QED BY <1>0, <2>1, <2>3, <3>1 DEF WorkerOK, Clean, Running, serverVars,
         closeVars, faultVars
  <2> QED BY <2>2, <2>3
<1>3. ASSUME NEW w \in Workers, CheckCanceled(w), NEW v \in Workers PROVE WorkerOK(v)'
  <2>1. UNCHANGED <<execVars, serverVars, closeVars, faultVars>>
    BY <1>3 DEF CheckCanceled
  <2>2. CASE v # w
    BY <1>0, <1>3, <2>1, <2>2, SameWorker DEF CheckCanceled, Goto, ControlType,
         execVars, serverVars, closeVars, faultVars
  <2>3. CASE v = w
    <3>1. pc[w] = "popped" /\ pc'[w] \in {"stopped", "begin"} /\ (pc'[w] = "begin" => task[w] # None)
      BY <1>0, <1>3 DEF CheckCanceled, Goto, ControlType
    <3>2. workers < w => pc'[w] = "stopped"
      BY <1>0, <3>1 DEF WorkerOK
    <3> QED BY <1>0, <2>1, <2>3, <3>1, <3>2 DEF WorkerOK, Clean, Running, execVars,
         serverVars, closeVars, faultVars
  <2> QED BY <2>2, <2>3
<1>4. ASSUME NEW w \in Workers, AcquireDeadlockLock(w), NEW v \in Workers PROVE WorkerOK(v)'
  <2>1. UNCHANGED <<task, next, serverVars, closeVars, faultVars>> /\ deadlockLock' = w
    BY <1>4 DEF AcquireDeadlockLock
  <2>2. CASE v # w
    BY <1>0, <1>4, <2>1, <2>2, SameWorker DEF AcquireDeadlockLock, Goto,
         ControlType, ExecType, serverVars, closeVars, faultVars
  <2>3. CASE v = w
    <3>1. pc[w] = "lock" /\ pc'[w] = "begin" /\ retries'[w] = 1
      BY <1>0, <1>4 DEF AcquireDeadlockLock, Goto, ControlType, ExecType
    <3> QED BY <1>0, <2>1, <2>3, <3>1 DEF WorkerOK, Clean, Running, serverVars,
         closeVars, faultVars
  <2> QED BY <2>2, <2>3
<1>5. ASSUME NEW w \in Workers, NEW error, Failed(w, error), pc[w] \in {"begin", "execute"},
             UNCHANGED workers
      PROVE  /\ pc'[w] \in {"lock", "begin", "pop"} /\ pc[w] # "stopped"
             /\ pc'[w] = "pop" => task'[w] = None /\ retries'[w] = 0
             /\ pc'[w] # "pop" => task'[w] = task[w]
             /\ pc'[w] = "lock" => retries'[w] = 0
             /\ deadlockLock' = w => pc'[w] = "begin" /\ retries'[w] # 0
             /\ \A v \in Workers \ {w} : /\ pc'[v] = pc[v] /\ task'[v] = task[v] /\ retries'[v] = retries[v]
                                         /\ deadlockLock' = v => deadlockLock = v
  <2>1. CASE Finish(w, "false")
    BY <1>0, <1>a, <1>5, <2>1 DEF Finish, ControlType, ExecType
  <2>2. CASE ~Finish(w, "false")
    <3>1. retries[w] \in 0 .. LoopBreaker /\ WorkerOK(w)
      BY <1>0 DEF ExecType
    <3> QED BY <1>0, <1>5, <2>2, <3>1, DatabasePoolAssumption DEF Failed,
         WorkerOK, ControlType, ExecType
  <2> QED BY <2>1, <2>2
<1>6. ASSUME NEW w \in Workers, BeginTransaction(w), NEW v \in Workers PROVE WorkerOK(v)'
  <2>0. UNCHANGED <<closeVars, faultVars>> /\ pc[w] = "begin" /\ next' = [next EXCEPT ![w] = 1]
    BY <1>6 DEF BeginTransaction
  <2>1. CASE Failed(w, "empty") /\ UNCHANGED serverVars
    <3>1. CASE v # w
      BY <1>0, <1>5, <2>0, <2>1, <3>1, SameWorker DEF ExecType, closeVars,
           faultVars, serverVars
    <3>2. CASE v = w
      <4>1. Clean(w)'
        BY <1>0, <1>5, <2>0, <2>1 DEF WorkerOK, Clean, closeVars, faultVars, serverVars
      <4> QED BY <1>0, <1>5, <2>0, <2>1, <3>2, <4>1 DEF WorkerOK, Running, closeVars,
           faultVars
    <3> QED BY <3>1, <3>2
  <2>2. CASE /\ task[w] \notin Empty /\ open' = [open EXCEPT ![w] = TRUE]
             /\ pending' = [pending EXCEPT ![w] = Nothing]
             /\ Goto(w, "begin", "execute") /\ UNCHANGED <<task, retries, deadlockLock>>
    <3>1. CASE v # w
      BY <1>0, <2>0, <2>2, <3>1, SameWorker DEF Goto, ControlType, ExecType,
           ServerType, closeVars, faultVars
    <3>2. CASE v = w
      <4>1. pc'[w] = "execute" /\ next'[w] = 1 /\ open'[w] /\ pending'[w] = Nothing
        BY <1>0, <2>0, <2>2 DEF Goto, ControlType, ExecType, ServerType
      <4>2. task[w] \in Tasks
        BY <1>0, <2>0, TaskIs, Steps DEF Running
      <4>3. pending'[w][task[w]] = <<>> /\ next'[w] - 1 = 0 /\ Prefix(0) = <<>>
        BY <4>1, <4>2, PrefixNone DEF Nothing
      <4>4. Clean(w)'
        BY <4>1 DEF Clean, Nothing
      <4> QED BY <1>0, <2>0, <2>2, <3>2, <4>1, <4>3, <4>4 DEF WorkerOK, Running,
           closeVars, faultVars
    <3> QED BY <3>1, <3>2
  <2> QED BY <1>6, <2>1, <2>2 DEF BeginTransaction
<1>7. ASSUME NEW w \in Workers, Execute(w), NEW v \in Workers PROVE WorkerOK(v)'
  <2>0. UNCHANGED <<task, retries, deadlockLock, open, closeVars, faultVars>> /\ pc[w] = "execute"
    BY <1>7 DEF Execute
  <2>1. CASE v # w
    BY <1>0, <1>7, <2>0, <2>1, SameWorker DEF Execute, Apply, Goto, ControlType,
         ExecType, ServerType, closeVars, faultVars
  <2>2. CASE v = w
    <3>1. \/ pc'[w] = "execute" /\ next'[w] = next[w] + 1
          \/ pc'[w] = "commit" /\ next[w] = Statements
      BY <1>0, <1>7 DEF Execute, Goto, ControlType, ExecType
    <3>0. task[w] \in Tasks
      BY <2>0, TaskIs, Steps DEF Running
    <3>2. /\ open[w] => pending'[w][task[w]] = Append(pending[w][task[w]], next[w])
          /\ \A t \in Tasks \ {task[w]} : pending'[w][t] = pending[w][t]
      <4>1. Apply(w) /\ pending \in [Workers -> [Tasks -> Seq(1 .. Statements)]]
        BY <1>0, <1>7 DEF Execute, ServerType
      <4> QED BY <3>0, <4>1 DEF Apply
    <3>3. next[w] \in 1 .. Statements
      BY <1>0 DEF ExecType
    <3>4. Append(Prefix(next[w] - 1), next[w]) = Prefix(next[w])
      BY <3>3, DatabasePoolAssumption DEF Prefix
    <3>5. task[w] \notin torn =>
            /\ open'[w]
            /\ pending'[w][task[w]] = Prefix(IF pc'[w] = "execute" THEN next'[w] - 1 ELSE Statements)
      <4>1. task[w] \notin torn => open[w] /\ pending[w][task[w]] = Prefix(next[w] - 1)
        BY <1>0, <2>0 DEF WorkerOK
      <4>2. CASE pc'[w] = "execute" /\ next'[w] = next[w] + 1
        <5>1. next'[w] - 1 = next[w]
          BY <3>3, <4>2
        <5> QED BY <2>0, <3>2, <3>4, <4>1, <4>2, <5>1
      <4>3. CASE pc'[w] = "commit" /\ next[w] = Statements
        BY <2>0, <3>2, <3>4, <4>1, <4>3
      <4> QED BY <3>1, <4>2, <4>3
    <3>6. Clean(w)'
      BY <1>0, <2>0, <3>1, <3>2 DEF WorkerOK, Clean, faultVars
    <3> QED BY <1>0, <2>0, <2>2, <3>1, <3>5, <3>6 DEF WorkerOK, Running, closeVars,
         faultVars
  <2> QED BY <2>1, <2>2
<1>8. ASSUME NEW w \in Workers, Forget(w)
      PROVE  /\ ~open'[w] /\ pending'[w] = Nothing
             /\ \A v \in Workers \ {w} : open'[v] = open[v] /\ pending'[v] = pending[v]
  BY <1>0, <1>8 DEF Forget, ServerType
<1>b. ASSUME NEW w \in Workers, Forget(w) PROVE Clean(w)'
  BY <1>8, <1>b DEF Clean, Nothing
<1>c. ASSUME NEW w \in Workers, Finish(w, "true")
      PROVE  /\ pc'[w] = "pop" /\ task'[w] = None /\ retries'[w] = 0 /\ deadlockLock' # w
             /\ \A v \in Workers \ {w} : /\ pc'[v] = pc[v] /\ task'[v] = task[v] /\ retries'[v] = retries[v]
                                         /\ deadlockLock' = v => deadlockLock = v
  BY <1>0, <1>a, <1>c DEF Finish, ControlType, ExecType
<1>9. ASSUME NEW w \in Workers, NEW error \in {"deadlock", "error"}, ExecuteFails(w, error),
             NEW v \in Workers
      PROVE  WorkerOK(v)'
  <2>0. UNCHANGED <<next, closeVars>> /\ pc[w] = "execute" /\ torn' = torn /\ Forget(w) /\ Failed(w, error)
    BY <1>9 DEF ExecuteFails
  <2>1. CASE v # w
    BY <1>0, <1>5, <1>8, <2>0, <2>1, SameWorker DEF closeVars
  <2>2. CASE v = w
    BY <1>0, <1>5, <1>b, <2>0, <2>2 DEF WorkerOK, Running, closeVars
  <2> QED BY <2>1, <2>2
<1>10. ASSUME NEW w \in Workers, ConnectionLost(w) \/ BeginLost(w), NEW v \in Workers
       PROVE  WorkerOK(v)'
  <2>0. /\ UNCHANGED <<execVars, closeVars, pc>> /\ Forget(w)
        /\ \/ pc[w] = "execute" /\ torn' = torn \cup {task[w]}
           \/ pc[w] = "begin" /\ torn' = torn
    BY <1>10 DEF ConnectionLost, BeginLost, Tear
  <2>1. CASE v # w
    BY <1>0, <1>8, <2>0, <2>1, SameWorker DEF execVars, closeVars
  <2>2. CASE v = w
    BY <1>0, <1>b, <2>0, <2>2 DEF WorkerOK, Running, execVars, closeVars
  <2> QED BY <2>1, <2>2
<1>11. ASSUME NEW w \in Workers, CommitTransaction(w) \/ CommitLost(w), NEW v \in Workers
       PROVE  WorkerOK(v)'
  <2>0. /\ UNCHANGED <<next, closeVars>> /\ pc[w] = "commit" /\ Forget(w) /\ Finish(w, "true")
        /\ torn \subseteq torn'
    BY <1>11 DEF CommitTransaction, CommitLost, Tear, faultVars
  <2>1. CASE v # w
    BY <1>0, <1>c, <1>8, <2>0, <2>1, SameWorker DEF closeVars
  <2>2. CASE v = w
    BY <1>0, <1>b, <1>c, <2>0, <2>2 DEF WorkerOK, Running, closeVars
  <2> QED BY <2>1, <2>2
<1>d. ASSUME NEW w \in Workers, BeginFails(w) \/ RollbackFails(w) \/ CommitFails(w), NEW v \in Workers
      PROVE  WorkerOK(v)'
  <2>1. /\ UNCHANGED closeVars /\ torn' = torn \cup {task[w]}
        /\ Forget(w) \/ UNCHANGED <<open, pending>>
        /\ \A u \in Workers \ {w} : next'[u] = next[u]
    BY <1>0, <1>d DEF BeginFails, RollbackFails, CommitFails, Tear, serverVars, ExecType
  <2>2. /\ pc[w] \in {"begin", "execute", "commit"} /\ task[w] \notin Empty /\ task[w] # None
        /\ pc'[w] \in {"lock", "begin", "execute", "pop"}
        /\ pc'[w] = "pop" => task'[w] = None /\ retries'[w] = 0
        /\ pc'[w] # "pop" => task'[w] = task[w]
        /\ pc'[w] = "lock" => retries'[w] = 0
        /\ deadlockLock' = w => pc'[w] \in {"begin", "execute"} /\ retries'[w] # 0
        /\ \A u \in Workers \ {w} : /\ pc'[u] = pc[u] /\ task'[u] = task[u] /\ retries'[u] = retries[u]
                                    /\ deadlockLock' = u => deadlockLock = u
    <3>1. CASE BeginFails(w)
      <4>1. /\ pc[w] = "begin" /\ pc' = [pc EXCEPT ![w] = "execute"] /\ task[w] \notin Empty
            /\ UNCHANGED <<task, retries, deadlockLock>>
        BY <3>1 DEF BeginFails, Goto
      <4> QED BY <1>0, <4>1 DEF ControlType, WorkerOK, Running
    <3>2. CASE RollbackFails(w)
      <4>1. pc[w] = "execute" /\ Failed(w, "error") /\ UNCHANGED workers
        BY <3>2 DEF RollbackFails, closeVars
      <4>2. task[w] \notin Empty /\ task[w] # None
        BY <1>0, <4>1 DEF WorkerOK, Running
      <4> QED BY <1>5, <4>1, <4>2
    <3>3. CASE CommitFails(w)
      <4>1. pc[w] = "commit" /\ Finish(w, "true")
        BY <3>3 DEF CommitFails
      <4>2. task[w] \notin Empty /\ task[w] # None
        BY <1>0, <4>1 DEF WorkerOK, Running
      <4> QED BY <1>c, <4>1, <4>2
    <3> QED BY <1>d, <3>1, <3>2, <3>3
  <2>3. CASE v # w
    BY <1>0, <1>8, <2>1, <2>2, <2>3, SameWorker DEF closeVars
  <2>4. CASE v = w
    <3>1. WorkerOK(w) /\ task[w] \in torn' /\ torn \subseteq torn' /\ workers' = workers
      BY <1>0, <2>1 DEF closeVars
    <3>2. pending'[w] = pending[w] \/ pending'[w] = Nothing
      BY <1>8, <2>1
    <3> QED BY <2>2, <2>4, <3>1, <3>2, TornWorker
  <2> QED BY <2>3, <2>4
<1>12. ASSUME Cancel, NEW v \in Workers PROVE WorkerOK(v)'
  <2>1. UNCHANGED <<execVars, serverVars, workers, faultVars>>
    BY <1>12 DEF Cancel
  <2>2. pc'[v] = IF pc[v] = "wait" THEN "pop" ELSE pc[v]
    BY <1>12 DEF Cancel
  <2> QED BY <1>0, <2>1, <2>2 DEF WorkerOK, Clean, Running, execVars, serverVars,
       faultVars
<1>13. ASSUME Close \/ SetToken \/ Join, NEW v \in Workers PROVE WorkerOK(v)'
  <2>1. UNCHANGED <<execVars, serverVars, workers, faultVars, pc>>
    BY <1>13 DEF Close, SetToken, Join
  <2> QED BY <1>0, <2>1 DEF WorkerOK, Clean, execVars, serverVars, faultVars
<1>14. \A w \in Workers : ~Abort(w)
  BY DEF Abort
<1> QED BY Steps, <1>1, <1>2, <1>3, <1>4, <1>6, <1>7, <1>9, <1>10, <1>11, <1>12,
     <1>13, <1>14, <1>d

-----------------------------------------------------------------------------
\* The promise of an operation that a worker executes is open.
LEMMA HolderIs ==
    ASSUME PoolInv, Live, NEW w \in Workers, pc[w] \in Running
    PROVE  task[w] \in Tasks /\ Holds(w) /\ outcome[task[w]] = "running"
<1>1. task[w] \in Tasks /\ task[w] # None
  BY TaskIs DEF Tasks, None
<1>2. pc[w] # "popped"
  BY DEF Running
<1> QED BY <1>1, <1>2 DEF Live, HoldersOK, Holds

\* Only COMMIT of the whole transaction makes it durable, and only then its
\* promise is set to true, whatever fails in between and however often it is
\* retried.
LEMMA CommittedStep ==
    ASSUME PoolInv, Next
    PROVE  CommittedOK' /\ EmptyFail'
<1>0. /\ ControlType /\ ServerType /\ CommittedOK /\ EmptyFail /\ Live /\ (\A w \in Workers : WorkerOK(w))
      /\ Empty \subseteq Tasks
  BY TypeIs, Steps, DatabasePoolAssumption DEF PoolInv, Live
<1>1. ASSUME committed' = committed, torn' = torn,
             \A t \in Tasks : outcome'[t] = "true" <=> outcome[t] = "true"
      PROVE  CommittedOK' /\ EmptyFail'
  BY <1>0, <1>1 DEF CommittedOK, EmptyFail
<1>2. ASSUME NEW t \in Tasks, Push(t) PROVE CommittedOK' /\ EmptyFail'
  BY <1>0, <1>1, <1>2 DEF Push, ControlType, serverVars, faultVars
<1>3. ASSUME NEW w \in Workers, WaitAndPop(w) \/ AcquireDeadlockLock(w) PROVE CommittedOK' /\ EmptyFail'
  BY <1>0, <1>1, <1>3 DEF WaitAndPop, AcquireDeadlockLock, serverVars, faultVars
<1>4. ASSUME NEW w \in Workers, CheckCanceled(w) PROVE CommittedOK' /\ EmptyFail'
  <2>1. committed' = committed /\ torn' = torn /\ pc[w] = "popped"
    BY <1>4 DEF CheckCanceled, serverVars, faultVars, Goto
  <2>2. task[w] \in Tasks => outcome[task[w]] = "queued"
    BY <1>0, <2>1 DEF Live, HoldersOK, Holds, Tasks, None
  <2>3. \A t \in Tasks : outcome'[t] = "true" <=> outcome[t] = "true"
    BY <1>0, <1>4, <2>2 DEF CheckCanceled, ControlType
  <2> QED BY <1>1, <2>1, <2>3
<1>5. ASSUME NEW w \in Workers, NEW error, Failed(w, error), pc[w] \in Running
      PROVE  \A t \in Tasks : outcome'[t] = "true" <=> outcome[t] = "true"
  <2>1. outcome[task[w]] = "running"
    BY <1>0, <1>5, HolderIs
  <2> QED BY <1>0, <1>5, <2>1 DEF Failed, Finish, ControlType
<1>a. ASSUME NEW w \in Workers, Flush(w), NEW t \in Tasks \ torn,
             t # task[w] \/ pc[w] \notin {"execute", "commit"}
      PROVE  committed'[t] = committed[t]
  <2>1. pending[w][t] = <<>> /\ committed'[t] = committed[t] \o pending[w][t]
    BY <1>0, <1>a DEF WorkerOK, Clean, Flush
  <2>2. committed[t] \in Seq(1 .. Statements) /\ <<>> \in Seq(1 .. Statements)
    BY <1>0, <1>a DEF ServerType
  <2> QED BY <2>1, <2>2, ConcatIs
<1>b. ASSUME torn \subseteq torn', \A t \in torn' \ torn : t \notin Empty,
             \A t \in Tasks \ torn' : committed'[t] = committed[t],
             \A t \in Tasks : outcome'[t] = "true" <=> outcome[t] = "true"
      PROVE  CommittedOK' /\ EmptyFail'
  BY <1>0, <1>b DEF CommittedOK, EmptyFail
<1>6. ASSUME NEW w \in Workers, BeginTransaction(w) PROVE CommittedOK' /\ EmptyFail'
  <2>1. torn' = torn /\ pc[w] = "begin" /\ (Flush(w) \/ committed' = committed)
    BY <1>6 DEF BeginTransaction, faultVars, serverVars
  <2>2. \A t \in Tasks \ torn : committed'[t] = committed[t]
    BY <1>a, <2>1
  <2>3. \A t \in Tasks : outcome'[t] = "true" <=> outcome[t] = "true"
    BY <1>5, <1>6 DEF BeginTransaction, Running
  <2> QED BY <1>b, <2>1, <2>2, <2>3
<1>c. ASSUME NEW w \in Workers, BeginFails(w) \/ BeginLost(w) PROVE CommittedOK' /\ EmptyFail'
  <2>1. /\ torn \subseteq torn' /\ torn' \subseteq torn \cup {task[w]} /\ task[w] \notin Empty
        /\ pc[w] = "begin" /\ (Flush(w) \/ committed' = committed) /\ outcome' = outcome
    BY <1>c DEF BeginFails, BeginLost, Goto, Tear, serverVars
  <2>2. \A t \in Tasks \ torn' : committed'[t] = committed[t]
    BY <1>a, <2>1
  <2> QED BY <1>b, <2>1, <2>2
<1>7. ASSUME NEW w \in Workers, NEW error \in {"deadlock", "error"},
             ExecuteFails(w, error) \/ RollbackFails(w)
      PROVE  CommittedOK' /\ EmptyFail'
  <2>1. /\ torn \subseteq torn' /\ torn' \subseteq torn \cup {task[w]}
        /\ pc[w] = "execute" /\ committed' = committed
        /\ Failed(w, error) \/ Failed(w, "error")
    BY <1>7 DEF ExecuteFails, RollbackFails, Tear, serverVars
  <2>2. task[w] \notin Empty
    BY <1>0, <2>1 DEF WorkerOK
  <2>3. \A t \in Tasks : outcome'[t] = "true" <=> outcome[t] = "true"
    BY <1>5, <2>1 DEF Running
  <2> QED BY <1>b, <2>1, <2>2, <2>3
<1>8. ASSUME NEW w \in Workers, Execute(w) PROVE CommittedOK' /\ EmptyFail'
  <2>1. outcome' = outcome /\ torn' = torn /\ pc[w] = "execute"
    BY <1>8 DEF Execute, faultVars
  <2>2. CASE open[w]
    BY <1>1, <1>8, <2>1, <2>2 DEF Execute, Apply
  <2>3. CASE ~open[w]
    <3>1. task[w] \in torn
      BY <1>0, <2>1, <2>3 DEF WorkerOK
    <3>2. \A t \in Tasks \ torn : committed'[t] = committed[t]
      BY <1>0, <1>8, <2>3, <3>1 DEF Execute, Apply, ServerType
    <3> QED BY <1>0, <2>1, <3>2 DEF CommittedOK, EmptyFail
  <2> QED BY <2>2, <2>3
<1>9. ASSUME NEW w \in Workers, ConnectionLost(w) PROVE CommittedOK' /\ EmptyFail'
  <2>1. outcome' = outcome /\ torn' = torn \cup {task[w]} /\ pc[w] = "execute"
    BY <1>9 DEF ConnectionLost, Tear
  <2>2. task[w] \notin Empty
    BY <1>0, <2>1 DEF WorkerOK
  <2>3. \A t \in Tasks \ torn' : committed'[t] = committed[t]
    BY <1>0, <1>9, <2>1 DEF ConnectionLost, ServerType
  <2> QED BY <1>0, <2>1, <2>2, <2>3 DEF CommittedOK, EmptyFail
<1>10. ASSUME NEW w \in Workers, CommitTransaction(w) \/ CommitFails(w) \/ CommitLost(w)
       PROVE  CommittedOK' /\ EmptyFail'
  <2> DEFINE t == task[w]
  <2>1. pc[w] = "commit" /\ outcome' = [outcome EXCEPT ![t] = "true"]
        /\ (torn' = torn \/ torn' = torn \cup {t}) /\ (Flush(w) \/ committed' = committed)
    BY <1>10 DEF CommitTransaction, CommitFails, CommitLost, Tear, Finish, faultVars,
         serverVars
  <2>2. t \in Tasks /\ outcome[t] = "running" /\ t \notin Empty
    BY <1>0, <2>1, HolderIs DEF WorkerOK, Running
  <2>3. /\ \A s \in Tasks \ {t} : outcome'[s] = outcome[s]
        /\ \A s \in Tasks \ (torn' \cup {t}) : committed'[s] = committed[s]
    BY <1>0, <1>a, <2>1, <2>2 DEF ControlType
  <2>4. outcome'[t] = "true"
    BY <1>0, <2>1, <2>2 DEF ControlType
  <2>5. CASE t \in torn'
    BY <1>0, <2>1, <2>2, <2>3, <2>5 DEF CommittedOK, EmptyFail
  <2>6. CASE t \notin torn'
    <3>1. CommitTransaction(w) /\ torn' = torn
      BY <1>10, <2>1, <2>6 DEF CommitLost, CommitFails, Tear
    <3>2. committed'[t] = committed[t] \o pending[w][t]
      BY <2>2, <3>1 DEF CommitTransaction, Flush
    <3>3. committed[t] = <<>> /\ pending[w][t] = AllStatements /\ pending[w][t] \in Seq(1 .. Statements)
      <4>1. committed[t] = <<>>
        BY <1>0, <2>2, <2>6, <3>1 DEF CommittedOK
      <4>2. pending[w][t] = Prefix(Statements)
        <5>1. WorkerOK(w) /\ pc[w] = "commit" /\ task[w] \notin torn
          BY <1>0, <2>1, <2>6, <3>1
        <5> QED BY <5>1 DEF WorkerOK
      <4>3. pending[w][t] \in Seq(1 .. Statements)
        BY <1>0, <2>2 DEF ServerType
      <4> QED BY <4>1, <4>2, <4>3 DEF Prefix, AllStatements
    <3>4. committed'[t] = AllStatements
      BY <3>2, <3>3, ConcatIs
    <3> QED BY <1>0, <2>2, <2>3, <2>4, <3>1, <3>4 DEF CommittedOK, EmptyFail
  <2> QED BY <2>5, <2>6
<1>11. ASSUME NEW w \in Workers, Abort(w) PROVE CommittedOK' /\ EmptyFail'
  BY <1>1, <1>11 DEF Abort, serverVars
<1>12. CASE Close \/ SetToken \/ Join
  BY <1>1, <1>12 DEF Close, SetToken, Join, serverVars, faultVars
<1>13. CASE Cancel
  <2>1. \A t \in Tasks : Contains(queue, t) => outcome[t] = "queued"
    BY <1>0 DEF Live, QueueOK, Contains
  <2> QED BY <1>1, <1>13, <2>1 DEF Cancel, serverVars, faultVars
<1> QED BY Steps, <1>2, <1>3, <1>4, <1>6, <1>7, <1>8, <1>9, <1>10, <1>11, <1>12,
     <1>13, <1>c

\* What the server rolls back when the connection is closed.
Left(w) == \A t \in Tasks \ torn : pending[w][t] = <<>>

\* Close() joins a worker before it goes on, and joined workers do nothing.
LEMMA PoolStep ==
    ASSUME PoolInv, Next
    PROVE  PoolOK'
<1>0. /\ ControlType /\ ServerType /\ CloseType /\ QueueType /\ PoolOK /\ pool # "aborted" /\ Live
      /\ (\A w \in Workers : WorkerOK(w)) /\ NumWorkers \in Nat
      /\ \A v \in Workers : v < victim => pc[v] = "stopped" /\ Left(v) /\ deadlockLock # v
  BY TypeIs, Steps, DatabasePoolAssumption DEF PoolInv, Live, PoolOK,
       StoppedBeforeCleared, Left
<1>1. ASSUME NEW w \in Workers, NEW v \in Workers, v < victim, pc[w] # "stopped",
             Worker(w) \/ Server(w)
      PROVE  pc'[v] = "stopped" /\ Left(v)' /\ deadlockLock' # v
  <2>1. v # w /\ pc[v] = "stopped" /\ Left(v) /\ deadlockLock # v /\ v # None
    BY <1>0, <1>1 DEF Workers, None
  <2> HIDE <1>1
  <2>2. pc'[v] = "stopped" /\ deadlockLock' # v
    <3>1. CASE Worker(w)
      BY <1>0, <2>1, <3>1 DEF Worker, WaitAndPop, CheckCanceled,
           AcquireDeadlockLock, BeginTransaction, Execute, CommitTransaction, Goto,
           Failed, Finish, ControlType, execVars
    <3>2. CASE Server(w)
      BY <1>0, <2>1, <3>2 DEF Server, BeginFails, BeginLost, ExecuteFails,
           RollbackFails, ConnectionLost, CommitFails, CommitLost, Abort, Goto,
           Failed, Finish, ControlType, execVars
    <3> QED BY <1>1, <3>1, <3>2
  <2>3. pending'[v] = pending[v] /\ torn \subseteq torn'
    <3>1. CASE Worker(w)
      BY <1>0, <2>1, <3>1 DEF Worker, WaitAndPop, CheckCanceled,
           AcquireDeadlockLock, BeginTransaction, Execute, Apply, CommitTransaction,
           Forget, ServerType, serverVars, faultVars
    <3>2. CASE Server(w)
      BY <1>0, <2>1, <3>2 DEF Server, BeginFails, BeginLost, ExecuteFails,
           RollbackFails, ConnectionLost, CommitFails, CommitLost, Abort,
           Forget, Tear, ServerType, serverVars
    <3> QED BY <1>1, <3>1, <3>2
  <2> QED BY <2>1, <2>2, <2>3 DEF Left
<1>2. ASSUME NEW w \in Workers, Worker(w) \/ Server(w)
      PROVE  /\ pc[w] # "stopped" /\ UNCHANGED <<cancelationToken, workers, victim>>
             /\ \/ pool' = pool
                \/ pool' = "aborted" /\ \A v \in Workers : pc'[v] = "stopped"
  BY <1>2 DEF Worker, WaitAndPop, CheckCanceled, AcquireDeadlockLock,
       BeginTransaction,
        Execute, CommitTransaction, Goto, Server, ExecuteFails, BeginFails, BeginLost, RollbackFails, CommitFails, ConnectionLost,
             CommitLost, Abort,
        queueVars, closeVars
<1>3. ASSUME NEW w \in Workers, Worker(w) \/ Server(w), pool = "open", NEW t \in Tasks
      PROVE  outcome'[t] # "dropped"
  <2>1. ~cancelationToken[w] /\ outcome[t] # "dropped"
    BY <1>0, <1>3 DEF PoolOK, DroppedByCloseOnly
  <2>2. task[w] = None => t # task[w]
    BY DEF Tasks, None
  <2>3. CASE CheckCanceled(w)
    BY <1>0, <2>1, <2>2, <2>3 DEF CheckCanceled, ControlType
  <2>4. CASE ~CheckCanceled(w)
    BY <1>0, <1>3, <2>1, <2>4 DEF Worker, WaitAndPop, AcquireDeadlockLock,
         BeginTransaction,
          Execute, CommitTransaction, Server, ExecuteFails, BeginFails, BeginLost, RollbackFails, CommitFails, ConnectionLost,
               CommitLost, Abort,
          Failed, Finish, ControlType
  <2> QED BY <2>3, <2>4
<1>4. ASSUME NEW w \in Workers, Worker(w) \/ Server(w) PROVE PoolOK'
  BY <1>0, <1>1, <1>2, <1>3, <1>4 DEF PoolOK, DroppedByCloseOnly,
       StoppedBeforeCleared, Left
<1>5. ASSUME NEW t \in Tasks, Push(t) PROVE PoolOK'
  <2>1. /\ UNCHANGED <<cancelationToken, workers, victim, pool, pending, torn, deadlockLock>>
        /\ \A v \in Workers : pc[v] = "stopped" => pc'[v] = "stopped"
        /\ \A s \in Tasks : outcome'[s] \in {outcome[s], "queued"}
    BY <1>0, <1>5 DEF Push, Goto, ControlType, execVars, serverVars, closeVars, faultVars
  <2> QED BY <1>0, <2>1 DEF PoolOK, DroppedByCloseOnly, StoppedBeforeCleared
<1>6. CASE Close
  <2>1. 1 <= workers
    BY <1>0 DEF CloseType, Workers
  <2> QED BY <1>0, <1>6, <2>1 DEF Close, PoolOK, DroppedByCloseOnly,
       StoppedBeforeCleared, execVars, serverVars, faultVars
<1>7. CASE SetToken
  BY <1>0, <1>7 DEF SetToken, PoolOK, DroppedByCloseOnly, StoppedBeforeCleared,
       execVars, serverVars, faultVars
<1>8. CASE Cancel
  BY <1>0, <1>8 DEF Cancel, PoolOK, DroppedByCloseOnly, StoppedBeforeCleared,
       execVars, serverVars, faultVars
<1>9. CASE Join
  <2>1. pc[victim] = "stopped" /\ victim \in Workers /\ victim <= workers /\ victim \in Nat /\ workers \in Nat
    BY <1>0, <1>9 DEF Join, PoolOK, CloseType, Workers
  <2>2. Left(victim) /\ deadlockLock # victim
    BY <1>0, <2>1 DEF WorkerOK, Clean, Left
  <2>3. \A v \in Workers : v < victim' => v < victim \/ v = victim
    BY <1>9, <2>1 DEF Join, Workers
  <2>4. StoppedBeforeCleared'
    BY <1>0, <1>9, <2>1, <2>2, <2>3 DEF Join, StoppedBeforeCleared, Left, execVars,
         serverVars, faultVars
  <2> QED BY <1>0, <1>9, <2>1, <2>4 DEF Join, PoolOK, DroppedByCloseOnly,
       queueVars
<1> QED BY <1>4, <1>5, <1>6, <1>7, <1>8, <1>9 DEF Next, Closing

-----------------------------------------------------------------------------
\* WaitAndPop returns an operation.
Takes(w) ==
    /\ queue # <<>> /\ pc[w] = "pop"
    /\ pc' = [pc EXCEPT ![w] = "popped"]
    /\ task' = [task EXCEPT ![w] = Head(queue)] /\ queue' = Tail(queue)
    /\ UNCHANGED <<outcome, workers>>

\* The operation is executed.
Starts(w) ==
    /\ pc[w] = "popped" /\ task[w] # None
    /\ pc' = [pc EXCEPT ![w] = "begin"]
    /\ outcome' = [outcome EXCEPT ![task[w]] = "running"]
    /\ UNCHANGED <<task, queue, workers>>

\* The worker was cancelled and throws the operation away.
Drops(w) ==
    /\ pc[w] = "popped"
    /\ pc' = [pc EXCEPT ![w] = "stopped"]
    /\ outcome' = [t \in Tasks |-> IF t = task[w] THEN "dropped" ELSE outcome[t]]
    /\ UNCHANGED <<task, queue, workers>>

\* The promise of the operation is set, and the operation is deleted.
Ends(w) ==
    /\ pc[w] \in Running
    /\ pc' = [pc EXCEPT ![w] = "pop"]
    /\ task' = [task EXCEPT ![w] = None]
    /\ \E value \in {"true", "false"} : outcome' = [outcome EXCEPT ![task[w]] = value]
    /\ UNCHANGED <<queue, workers>>

\* No operation changes hands.
Keeps ==
    /\ UNCHANGED <<task, queue, outcome, workers>>
    /\ \A v \in Workers : /\ Holds(v)' <=> Holds(v)
                          /\ Holds(v) => (pc'[v] = "popped" <=> pc[v] = "popped")
                          /\ pc'[v] = "stopped" <=> pc[v] = "stopped"

\* What a step does to the operations: of all the steps of a worker only four
\* pass an operation on.
LEMMA Effects ==
    ASSUME PoolInv, Next, pool' # "aborted"
    PROVE  \/ \E t \in Tasks : Push(t)
           \/ \E w \in Workers : Takes(w) \/ Starts(w) \/ Drops(w) \/ Ends(w)
           \/ Cancel
           \/ Keeps
<1>0. ControlType /\ Live /\ \A w \in Workers : WorkerOK(w)
  BY TypeIs, Steps DEF PoolInv, Live
<1>1. ASSUME NEW w \in Workers, WaitAndPop(w) PROVE Takes(w) \/ Keeps
  <2>1. pc[w] = "pop" /\ task[w] = None
    BY <1>0, <1>1 DEF WaitAndPop, Goto, WorkerOK
  <2>2. CASE queue # <<>> /\ ~shutdown
    BY <1>1, <2>2 DEF WaitAndPop, Goto, Takes, closeVars
  <2>3. CASE ~(queue # <<>> /\ ~shutdown)
    BY <1>0, <1>1, <2>1, <2>3 DEF WaitAndPop, Goto, Keeps, Holds, Running,
         ControlType, closeVars
  <2> QED BY <2>2, <2>3
<1>2. ASSUME NEW w \in Workers, CheckCanceled(w) PROVE Starts(w) \/ Drops(w)
  BY <1>2 DEF CheckCanceled, Goto, Starts, Drops, queueVars, execVars, closeVars
<1>3. ASSUME NEW w \in Workers, pc[w] \in Running, pc' = pc \/ (\E to \in Running : pc' = [pc EXCEPT ![w] = to]),
             UNCHANGED <<task, queue, outcome, workers>>
      PROVE  Keeps
  BY <1>0, <1>3 DEF Keeps, Holds, Running, ControlType
<1>4. ASSUME NEW w \in Workers, pc[w] \in Running, NEW value \in {"true", "false"}, Finish(w, value),
             UNCHANGED <<queue, workers>>
      PROVE  Ends(w)
  BY <1>4 DEF Finish, Ends
<1>5. ASSUME NEW w \in Workers, pc[w] \in Running, NEW error, Failed(w, error), UNCHANGED <<queue, workers>>
      PROVE  Ends(w) \/ Keeps
  BY <1>3, <1>4, <1>5 DEF Failed, Running
<1>6. ASSUME NEW w \in Workers, AcquireDeadlockLock(w) PROVE Keeps
  BY <1>3, <1>6 DEF AcquireDeadlockLock, Goto, Running, queueVars, closeVars
<1>7. ASSUME NEW w \in Workers, BeginTransaction(w) PROVE Ends(w) \/ Keeps
  BY <1>3, <1>5, <1>7 DEF BeginTransaction, Goto, Running, queueVars, closeVars
<1>8. ASSUME NEW w \in Workers, Execute(w) PROVE Keeps
  BY <1>3, <1>8 DEF Execute, Goto, Running, queueVars, closeVars
<1>9. ASSUME NEW w \in Workers, NEW error \in {"deadlock", "error"},
             ExecuteFails(w, error) \/ RollbackFails(w)
      PROVE  Ends(w) \/ Keeps
  BY <1>5, <1>9 DEF ExecuteFails, RollbackFails, Running, queueVars, closeVars
<1>10. ASSUME NEW w \in Workers, ConnectionLost(w) \/ BeginLost(w) \/ BeginFails(w) PROVE Keeps
  BY <1>3, <1>10 DEF ConnectionLost, BeginLost, BeginFails, Goto, Running, queueVars,
       execVars, closeVars
<1>11. ASSUME NEW w \in Workers, CommitTransaction(w) \/ CommitFails(w) \/ CommitLost(w)
       PROVE  Ends(w)
  BY <1>4, <1>11 DEF CommitTransaction, CommitFails, CommitLost, Running, queueVars,
       closeVars
<1>12. CASE Close \/ SetToken \/ Join
  BY <1>12 DEF Close, SetToken, Join, Keeps, Holds, queueVars, execVars
<1>13. \A w \in Workers : ~Abort(w)
  BY DEF Abort
<1> QED BY Steps, <1>1, <1>2, <1>6, <1>7, <1>8, <1>9, <1>10, <1>11, <1>12, <1>13

\* No step makes two workers hold one operation, or forgets an operation:
\* neither Cancel() nor a retry does.
LEMMA HoldersStep ==
    ASSUME PoolInv, Next, pool' # "aborted"
    PROVE  HoldersOK'
<1>0. ControlType /\ QueueType /\ HoldersOK /\ QueueOK
  BY TypeIs, Steps DEF PoolInv, Live
<1>a. \A t \in Tasks : t # None
  BY DEF Tasks, None
<1>b. \A w \in Workers : Holds(w) => task[w] \in Tasks
  BY <1>0 DEF ControlType, Holds
<1>1. ASSUME NEW t \in Tasks, Push(t) PROVE HoldersOK'
  <2>1. /\ outcome[t] = "unsent" /\ outcome' = [outcome EXCEPT ![t] = "queued"] /\ task' = task
        /\ queue' = Append(queue, t)
        /\ \A v \in Workers : Holds(v)' <=> Holds(v)
        /\ \A v \in Workers : Holds(v) => pc'[v] = pc[v]
    BY <1>0, <1>1 DEF Push, Goto, Holds, Running, ControlType, execVars
  <2>2. Len(queue') = Len(queue) + 1 /\ queue'[Len(queue) + 1] = t /\ Len(queue) \in Nat
        /\ \A i \in 1 .. Len(queue) : queue'[i] = queue[i]
    BY <1>0, <2>1, AppendIs DEF QueueType
  <2>3. \A s \in Tasks \ {t} : outcome'[s] = outcome[s]
    BY <1>0, <2>1 DEF ControlType
  <2>4. \A i \in 1 .. Len(queue) : i \in 1 .. Len(queue')
    BY <2>2
  <2>5. Len(queue) + 1 \in 1 .. Len(queue')
    BY <2>2
  <2>6. \A w \in Workers : Holds(w) => task[w] # t
    BY <1>0, <2>1 DEF HoldersOK
  <2> QED BY <1>0, <1>b, <2>1, <2>2, <2>3, <2>4, <2>5, <2>6 DEF HoldersOK
<1>2. ASSUME NEW w \in Workers, Takes(w) PROVE HoldersOK'
  <2> DEFINE h == Head(queue)
  <2>1. /\ outcome' = outcome /\ h \in Tasks /\ outcome[h] = "queued" /\ task'[w] = h
        /\ \A v \in Workers : Holds(v) => task[v] # h
    BY <1>0, <1>2, TailIs DEF Takes, QueueOK, QueueType, ControlType
  <2>2. pc[w] = "pop" /\ pc'[w] = "popped" /\ ~Holds(w) /\ Holds(w)'
    BY <1>0, <1>2, <1>a, <2>1 DEF Takes, Holds, Running, ControlType
  <2>3. \A v \in Workers \ {w} : (Holds(v)' <=> Holds(v)) /\ task'[v] = task[v] /\ pc'[v] = pc[v]
    BY <1>0, <1>2 DEF Takes, Holds, ControlType
  <2>4. \A i \in 1 .. Len(queue) : queue[i] = h \/ \E j \in 1 .. Len(queue') : queue'[j] = queue[i]
    <3>1. /\ h = queue[1] /\ queue' = Tail(queue)
          /\ \A i \in 2 .. Len(queue) : i - 1 \in 1 .. Len(Tail(queue)) /\ Tail(queue)[i - 1] = queue[i]
      BY <1>0, <1>2, TailIs DEF Takes, QueueType
    <3>2. \A i \in 1 .. Len(queue) : i = 1 \/ i \in 2 .. Len(queue)
      OBVIOUS
    <3> QED BY <3>1, <3>2
  <2> HIDE DEF h
  <2> QED BY <1>0, <2>1, <2>2, <2>3, <2>4 DEF HoldersOK
<1>3. ASSUME NEW w \in Workers, Starts(w) PROVE HoldersOK'
  <2>1. /\ Holds(w) /\ Holds(w)' /\ task' = task /\ queue' = queue /\ pc'[w] = "begin" /\ task[w] \in Tasks
        /\ outcome'[task[w]] = "running"
        /\ \A v \in Workers \ {w} : pc'[v] = pc[v] /\ (Holds(v)' <=> Holds(v))
        /\ \A s \in Tasks \ {task[w]} : outcome'[s] = outcome[s]
    BY <1>0, <1>3 DEF Starts, Holds, Running, ControlType
  <2> QED BY <1>0, <1>b, <2>1 DEF HoldersOK
<1>4. ASSUME NEW w \in Workers, Drops(w) PROVE HoldersOK'
  <2>1. /\ ~Holds(w)' /\ task' = task /\ queue' = queue
        /\ \A v \in Workers \ {w} : pc'[v] = pc[v] /\ (Holds(v)' <=> Holds(v))
        /\ \A s \in Tasks : outcome'[s] = IF s = task[w] THEN "dropped" ELSE outcome[s]
        /\ task[w] \in Tasks => Holds(w)
    BY <1>0, <1>a, <1>4 DEF Drops, Holds, Running, ControlType
  <2> QED BY <1>0, <1>b, <2>1 DEF HoldersOK
<1>5. ASSUME NEW w \in Workers, Ends(w) PROVE HoldersOK'
  <2>1. Holds(w) /\ task[w] \in Tasks
    BY <1>0, <1>5, HolderIs, Steps DEF Ends
  <2>2. /\ ~Holds(w)' /\ queue' = queue
        /\ outcome'[task[w]] \in {"true", "false"}
        /\ \A v \in Workers \ {w} : pc'[v] = pc[v] /\ task'[v] = task[v] /\ (Holds(v)' <=> Holds(v))
        /\ \A s \in Tasks \ {task[w]} : outcome'[s] = outcome[s]
    BY <1>0, <1>5, <2>1 DEF Ends, Holds, Running, ControlType
  <2> QED BY <1>0, <1>b, <2>1, <2>2 DEF HoldersOK
<1>6. CASE Cancel
  <2>1. /\ task' = task
        /\ \A s \in Tasks : outcome'[s] = IF \E i \in 1 .. Len(queue) : queue[i] = s THEN "dropped" ELSE outcome[s]
        /\ \A v \in Workers : (Holds(v)' <=> Holds(v)) /\ (Holds(v) => pc'[v] = pc[v])
    BY <1>6 DEF Cancel, Contains, Holds, Running, execVars
  <2>2. \A v \in Workers : Holds(v) => outcome'[task[v]] = outcome[task[v]]
    BY <1>0, <1>b, <2>1 DEF QueueOK
  <2> QED BY <1>0, <1>b, <2>1, <2>2 DEF HoldersOK
<1>7. CASE Keeps
  BY <1>0, <1>7 DEF Keeps, HoldersOK, Holds
<1> QED BY Effects, <1>1, <1>2, <1>3, <1>4, <1>5, <1>6, <1>7

\* Push and WaitAndPop keep the queue in the order of Push, and nothing that a
\* worker holds is in it.
LEMMA QueueStep ==
    ASSUME PoolInv, Next, pool' # "aborted"
    PROVE  QueueOK'
<1>0. ControlType /\ QueueType /\ HoldersOK /\ QueueOK
  BY TypeIs, Steps DEF PoolInv, Live
<1>a. (\A t \in Tasks : t # None /\ t \in Int) /\ \A i \in 1 .. Len(queue) : queue[i] \in Tasks
  BY <1>0, DatabasePoolAssumption DEF Tasks, None, QueueType
<1>b. \A w \in Workers : Holds(w) => task[w] \in Tasks
  BY <1>0 DEF ControlType, Holds
<1>1. ASSUME NEW t \in Tasks, Push(t) PROVE QueueOK'
  <2>1. /\ outcome[t] = "unsent" /\ outcome' = [outcome EXCEPT ![t] = "queued"] /\ task' = task
        /\ queue' = Append(queue, t)
        /\ \A s \in 1 .. t - 1 : outcome[s] # "unsent"
        /\ \A v \in Workers : Holds(v)' <=> Holds(v)
    BY <1>0, <1>1 DEF Push, Goto, Holds, Running, ControlType, execVars
  <2>2. Len(queue') = Len(queue) + 1 /\ queue'[Len(queue) + 1] = t /\ Len(queue) \in Nat
        /\ \A i \in 1 .. Len(queue) : queue'[i] = queue[i]
    BY <1>0, <2>1, AppendIs DEF QueueType
  <2>3. outcome'[t] = "queued" /\ \A s \in Tasks \ {t} : outcome'[s] = outcome[s]
    BY <1>0, <2>1 DEF ControlType
  <2>4. \A i \in 1 .. Len(queue) : queue[i] # t /\ queue[i] < t
    <3> SUFFICES ASSUME NEW i \in 1 .. Len(queue) PROVE queue[i] # t /\ queue[i] < t
      OBVIOUS
    <3>1. queue[i] \in Tasks /\ outcome[queue[i]] = "queued"
      BY <1>0, <1>a DEF QueueOK
    <3>2. ~(t < queue[i])
      BY <1>0, <2>1, <3>1 DEF QueueOK
    <3> QED BY <1>a, <2>1, <3>1, <3>2
  <2>5. \A w \in Workers : Holds(w) => task[w] # t
    BY <1>0, <2>1 DEF HoldersOK
  <2>6. \A i \in 1 .. Len(queue') : i \in 1 .. Len(queue) \/ i = Len(queue) + 1
    BY <2>2
  <2>7. ASSUME NEW i \in 1 .. Len(queue')
        PROVE outcome'[queue'[i]] = "queued" /\ \A w \in Workers : Holds(w)' => task'[w] # queue'[i]
    BY <1>0, <1>a, <2>1, <2>2, <2>3, <2>4, <2>5, <2>6 DEF QueueOK
  <2>8. ASSUME NEW i \in 1 .. Len(queue'), NEW j \in 1 .. Len(queue'), i < j
        PROVE queue'[i] < queue'[j]
    <3>1. i \in 1 .. Len(queue)
      BY <2>2, <2>8
    <3>2. CASE j \in 1 .. Len(queue)
      BY <1>0, <2>2, <2>8, <3>1, <3>2 DEF QueueOK
    <3>3. CASE j = Len(queue) + 1
      BY <2>2, <2>4, <3>1, <3>3
    <3> QED BY <2>6, <3>2, <3>3
  <2>9. ASSUME NEW r \in Tasks, NEW s \in Tasks, r < s, outcome'[r] = "unsent"
        PROVE  outcome'[s] = "unsent"
    <3>1. r # t /\ outcome[r] = "unsent"
      BY <2>3, <2>9
    <3>2. outcome[s] = "unsent"
      BY <1>0, <2>9, <3>1 DEF QueueOK
    <3>3. s # t
      <4>1. s = t => r \in 1 .. t - 1
        BY <2>9, DatabasePoolAssumption DEF Tasks
      <4> QED BY <2>1, <3>1, <4>1
    <3> QED BY <2>3, <3>2, <3>3
  <2> QED BY <2>7, <2>8, <2>9 DEF QueueOK
<1>2. ASSUME NEW w \in Workers, Takes(w) PROVE QueueOK'
  <2> DEFINE h == Head(queue)
  <2>1. /\ h = queue[1] /\ queue' = Tail(queue) /\ 1 \in 1 .. Len(queue)
        /\ \A i \in 1 .. Len(queue') : queue'[i] = queue[i + 1] /\ i + 1 \in 1 .. Len(queue)
    BY <1>0, <1>2, TailIs DEF Takes, QueueType
  <2>2. outcome' = outcome /\ task'[w] = h
        /\ \A v \in Workers \ {w} : (Holds(v)' <=> Holds(v)) /\ task'[v] = task[v]
    BY <1>0, <1>2 DEF Takes, Holds, ControlType
  <2> HIDE DEF h
  <2>3. \A i \in 1 .. Len(queue') : h < queue'[i] /\ h # queue'[i]
    <3>1. \A i \in 1 .. Len(queue') : 1 < i + 1
      OBVIOUS
    <3> QED BY <1>0, <1>a, <2>1, <3>1 DEF QueueOK
  <2>4. \A i, j \in 1 .. Len(queue') : i < j => i + 1 < j + 1
    OBVIOUS
  <2>5. \A i, j \in 1 .. Len(queue') : i < j => queue'[i] < queue'[j]
    BY <1>0, <2>1, <2>4 DEF QueueOK
  <2>6. ASSUME NEW i \in 1 .. Len(queue')
        PROVE  outcome'[queue'[i]] = "queued" /\ \A v \in Workers : Holds(v)' => task'[v] # queue'[i]
    BY <1>0, <2>1, <2>2, <2>3 DEF QueueOK
  <2> QED BY <1>0, <2>2, <2>5, <2>6 DEF QueueOK
<1>3. ASSUME NEW w \in Workers, Starts(w) PROVE QueueOK'
  <2>1. /\ Holds(w) /\ task' = task /\ queue' = queue /\ task[w] \in Tasks
        /\ outcome'[task[w]] = "running" /\ outcome[task[w]] = "queued"
        /\ \A v \in Workers : Holds(v)' <=> Holds(v)
        /\ \A s \in Tasks \ {task[w]} : outcome'[s] = outcome[s]
    BY <1>0, <1>3 DEF Starts, Holds, Running, ControlType, HoldersOK
  <2> QED BY <1>0, <1>a, <2>1 DEF QueueOK
<1>4. ASSUME NEW w \in Workers, Drops(w) PROVE QueueOK'
  <2>1. /\ task' = task /\ queue' = queue
        /\ \A v \in Workers : Holds(v)' => Holds(v)
        /\ \A s \in Tasks : outcome'[s] = IF s = task[w] THEN "dropped" ELSE outcome[s]
        /\ task[w] \in Tasks => Holds(w) /\ outcome[task[w]] = "queued"
    BY <1>0, <1>a, <1>4 DEF Drops, Holds, Running, ControlType, HoldersOK
  <2> QED BY <1>0, <1>a, <2>1 DEF QueueOK
<1>5. ASSUME NEW w \in Workers, Ends(w) PROVE QueueOK'
  <2>1. Holds(w) /\ task[w] \in Tasks /\ outcome[task[w]] = "running"
    BY <1>0, <1>5, HolderIs, Steps DEF Ends
  <2>2. /\ ~Holds(w)' /\ queue' = queue
        /\ outcome'[task[w]] \in {"true", "false"}
        /\ \A v \in Workers \ {w} : task'[v] = task[v] /\ (Holds(v)' <=> Holds(v))
        /\ \A s \in Tasks \ {task[w]} : outcome'[s] = outcome[s]
    BY <1>0, <1>5, <2>1 DEF Ends, Holds, Running, ControlType
  <2> QED BY <1>0, <1>a, <2>1, <2>2 DEF QueueOK
<1>6. CASE Cancel
  <2>1. /\ queue' = <<>>
        /\ \A s \in Tasks : outcome'[s] \in {outcome[s], "dropped"} /\ (outcome'[s] # outcome[s] => outcome[s] = "queued")
    BY <1>0, <1>a, <1>6 DEF Cancel, Contains, QueueOK
  <2>2. Len(queue') = 0
    BY <2>1
  <2> QED BY <1>0, <2>1, <2>2 DEF QueueOK
<1>7. CASE Keeps
  BY <1>0, <1>7 DEF Keeps, QueueOK, Holds
<1> QED BY Effects, <1>1, <1>2, <1>3, <1>4, <1>5, <1>6, <1>7

\* With one worker no operation overtakes another, Cancel() included.
LEMMA OrderStep ==
    ASSUME PoolInv, Next, pool' # "aborted"
    PROVE  OrderOK' /\ SettledInOrder'
<1>0. /\ ControlType /\ QueueType /\ HoldersOK /\ QueueOK /\ OrderOK /\ SettledInOrder /\ PoolOK
      /\ \A w \in Workers : WorkerOK(w)
  BY TypeIs, Steps DEF PoolInv, Live
<1>a. (\A t \in Tasks : t # None /\ t \in Int) /\ \A i \in 1 .. Len(queue) : queue[i] \in Tasks
  BY <1>0, DatabasePoolAssumption DEF Tasks, None, QueueType
<1>b. \A t \in Tasks : \A s \in 1 .. t - 1 : s \in Tasks /\ s < t
  BY DatabasePoolAssumption DEF Tasks
<1>c. \A t \in Tasks, s \in Tasks : s < t => s \in 1 .. t - 1
  BY DatabasePoolAssumption DEF Tasks
<1>d. 1 \in Workers /\ \A w \in Workers : w = 1 \/ 1 < w
  BY DatabasePoolAssumption DEF Workers
<1>e. workers' = workers
  BY Steps DEF Push, WaitAndPop, CheckCanceled, AcquireDeadlockLock,
       BeginTransaction, Execute, CommitTransaction,
        ExecuteFails, BeginFails, BeginLost, RollbackFails, CommitFails, ConnectionLost, CommitLost, Abort, Close, SetToken,
             Cancel, Join, closeVars
<1> SUFFICES ASSUME workers = 1
             PROVE  OrderOK' /\ SettledInOrder'
  BY <1>e DEF OrderOK, SettledInOrder
<1>f. \A w \in Workers : w # 1 => pc[w] = "stopped"
  BY <1>0, <1>d DEF WorkerOK
<1>g. \A w \in Workers : Holds(w) => w = 1 /\ task[w] \in Tasks
  BY <1>0, <1>f DEF Holds, Running, ControlType
<1>1. ASSUME NEW t \in Tasks, Push(t) PROVE OrderOK' /\ SettledInOrder'
  <2>1. /\ outcome[t] = "unsent" /\ outcome' = [outcome EXCEPT ![t] = "queued"] /\ task' = task
        /\ queue' = Append(queue, t) /\ pool = "open"
        /\ \A s \in 1 .. t - 1 : outcome[s] # "unsent"
        /\ (Holds(1)' <=> Holds(1)) /\ (pc'[1] # "stopped" => pc[1] # "stopped")
    BY <1>0, <1>1, <1>d DEF Push, Goto, Holds, Running, ControlType, execVars
  <2>2. Len(queue') = Len(queue) + 1 /\ queue'[Len(queue) + 1] = t /\ Len(queue) \in Nat
        /\ \A i \in 1 .. Len(queue) : queue'[i] = queue[i]
    BY <1>0, <2>1, AppendIs DEF QueueType
  <2>3. outcome'[t] = "queued" /\ \A s \in Tasks \ {t} : outcome'[s] = outcome[s]
    BY <1>0, <2>1 DEF ControlType
  <2>4. SettledInOrder'
    BY <1>0, <2>1, <2>3 DEF SettledInOrder
  <2>5. ASSUME pc[1] # "stopped", Holds(1), NEW s \in 1 .. task[1] - 1 PROVE outcome'[s] \in {"true", "false"}
    BY <1>0, <1>b, <1>d, <1>g, <2>1, <2>3, <2>5 DEF OrderOK
  <2>6. ASSUME pc[1] # "stopped", NEW i \in 1 .. Len(queue'), NEW s \in 1 .. queue'[i] - 1
        PROVE  outcome'[s] \in {"true", "false", "queued", "running"}
    <3>1. CASE i \in 1 .. Len(queue)
      BY <1>0, <1>a, <1>b, <2>2, <2>3, <2>6, <3>1 DEF OrderOK
    <3>2. CASE i = Len(queue) + 1
      <4>1. s \in Tasks /\ s < t /\ outcome[s] # "unsent" /\ outcome[s] # "dropped"
        BY <1>0, <1>b, <2>1, <2>2, <3>2 DEF PoolOK, DroppedByCloseOnly
      <4>2. outcome[s] \in Outcome
        BY <1>0, <4>1 DEF ControlType
      <4> QED BY <2>3, <4>1, <4>2 DEF Outcome
    <3> QED BY <2>2, <3>1, <3>2
  <2> QED BY <2>1, <2>4, <2>5, <2>6 DEF OrderOK
<1>2. ASSUME NEW w \in Workers, Takes(w) PROVE OrderOK' /\ SettledInOrder'
  <2> DEFINE h == Head(queue)
  <2>0. w = 1 /\ pc[1] = "pop"
    BY <1>2, <1>f DEF Takes
  <2>1. /\ h = queue[1] /\ queue' = Tail(queue) /\ 1 \in 1 .. Len(queue) /\ h \in Tasks
        /\ \A i \in 1 .. Len(queue') : queue'[i] = queue[i + 1] /\ i + 1 \in 1 .. Len(queue)
    BY <1>0, <1>2, TailIs DEF Takes, QueueType
  <2>2. outcome' = outcome /\ task'[1] = h /\ ~Holds(1)
    BY <1>0, <1>2, <2>0 DEF Takes, Holds, Running, ControlType
  <2> HIDE DEF h
  <2>3. ASSUME NEW s \in 1 .. h - 1 PROVE outcome[s] \in {"true", "false"}
    <3>1. s \in Tasks /\ s < h /\ outcome[s] \in {"true", "false", "queued", "running"}
      BY <1>0, <1>b, <2>0, <2>1 DEF OrderOK
    <3>2. outcome[s] # "running"
      BY <1>0, <1>g, <2>2, <3>1 DEF HoldersOK
    <3>3. ASSUME NEW i \in 1 .. Len(queue) PROVE queue[i] # s
      <4>1. i = 1 \/ 1 < i
        OBVIOUS
      <4>2. queue[i] = h \/ h < queue[i]
        BY <1>0, <2>1, <4>1 DEF QueueOK
      <4> QED BY <1>a, <2>1, <3>1, <4>2
    <3>4. outcome[s] # "queued"
      BY <1>0, <1>g, <2>2, <3>1, <3>3 DEF HoldersOK
    <3> QED BY <3>1, <3>2, <3>4
  <2>4. SettledInOrder'
    BY <1>0, <1>e, <2>2 DEF SettledInOrder
  <2>5. \A i \in 1 .. Len(queue') : \A s \in 1 .. queue'[i] - 1 :
           outcome'[s] \in {"true", "false", "queued", "running"}
    BY <1>0, <2>0, <2>1, <2>2 DEF OrderOK
  <2> QED BY <2>2, <2>3, <2>4, <2>5 DEF OrderOK
<1>3. ASSUME NEW w \in Workers, Starts(w) PROVE OrderOK' /\ SettledInOrder'
  <2> DEFINE t == task[1]
  <2>0. w = 1 /\ Holds(1) /\ t \in Tasks /\ pc[1] = "popped" /\ outcome[t] = "queued"
    BY <1>0, <1>3, <1>f, <1>g DEF Starts, Holds, HoldersOK
  <2>1. /\ task' = task /\ queue' = queue /\ outcome'[t] = "running"
        /\ \A s \in Tasks \ {t} : outcome'[s] = outcome[s]
    BY <1>0, <1>3, <2>0 DEF Starts, ControlType
  <2>2. \A s \in 1 .. t - 1 : s \in Tasks \ {t} /\ s < t /\ outcome[s] \in {"true", "false"}
    BY <1>0, <1>a, <1>b, <2>0 DEF OrderOK
  <2>3. SettledInOrder'
    <3> SUFFICES ASSUME NEW r \in Tasks, NEW u \in Tasks, r < u, outcome'[u] \in {"running", "true", "false"}
                 PROVE  outcome'[r] \in {"true", "false"}
      BY DEF SettledInOrder
    <3>1. CASE u = t
      BY <1>c, <2>1, <2>2, <3>1
    <3>2. CASE u # t
      <4>1. outcome[r] \in {"true", "false"}
        BY <1>0, <2>1, <3>2 DEF SettledInOrder
      <4> QED BY <2>0, <2>1, <4>1
    <3> QED BY <3>1, <3>2
  <2>4. \A i \in 1 .. Len(queue) : \A s \in 1 .. queue[i] - 1 :
           outcome'[s] \in {"true", "false", "queued", "running"}
    BY <1>0, <1>a, <1>b, <2>0, <2>1 DEF OrderOK
  <2>5. \A s \in 1 .. t - 1 : outcome'[s] \in {"true", "false"}
    BY <2>1, <2>2
  <2> QED BY <2>1, <2>3, <2>4, <2>5 DEF OrderOK
<1>4. ASSUME NEW w \in Workers, Drops(w) PROVE OrderOK' /\ SettledInOrder'
  <2>0. w = 1 /\ pc'[1] = "stopped"
    BY <1>0, <1>4, <1>f DEF Drops, ControlType
  <2>1. /\ \A s \in Tasks : outcome'[s] = IF s = task[1] THEN "dropped" ELSE outcome[s]
        /\ task[1] \in Tasks => outcome[task[1]] = "queued"
    BY <1>0, <1>a, <1>4, <2>0 DEF Drops, Holds, HoldersOK
  <2>2. SettledInOrder'
    BY <1>0, <2>1 DEF SettledInOrder
  <2> QED BY <2>0, <2>2 DEF OrderOK
<1>5. ASSUME NEW w \in Workers, Ends(w) PROVE OrderOK' /\ SettledInOrder'
  <2> DEFINE t == task[1]
  <2>0. w = 1 /\ t \in Tasks /\ outcome[t] = "running" /\ pc[1] # "stopped"
    BY <1>5, <1>f, HolderIs, Steps DEF Ends, Running
  <2>1. /\ ~Holds(1)' /\ queue' = queue /\ outcome'[t] \in {"true", "false"}
        /\ \A s \in Tasks \ {t} : outcome'[s] = outcome[s]
    BY <1>0, <1>5, <2>0 DEF Ends, Holds, Running, ControlType
  <2>2. SettledInOrder'
    BY <1>0, <2>0, <2>1 DEF SettledInOrder
  <2>3. \A i \in 1 .. Len(queue) : \A s \in 1 .. queue[i] - 1 :
           outcome'[s] \in {"true", "false", "queued", "running"}
    BY <1>0, <1>a, <1>b, <2>0, <2>1 DEF OrderOK
  <2> QED BY <2>1, <2>2, <2>3 DEF OrderOK
<1>6. CASE Cancel
  <2>1. /\ queue' = <<>> /\ task' = task /\ (pc'[1] # "stopped" => pc[1] # "stopped")
        /\ Holds(1)' <=> Holds(1)
        /\ \A s \in Tasks : outcome'[s] \in {outcome[s], "dropped"} /\ (outcome'[s] # outcome[s] => outcome[s] = "queued")
    BY <1>0, <1>a, <1>d, <1>6 DEF Cancel, Contains, QueueOK, Holds, Running,
         execVars
  <2>2. Len(queue') = 0
    BY <2>1
  <2>3. SettledInOrder'
    BY <1>0, <2>1 DEF SettledInOrder
  <2>4. ASSUME pc'[1] # "stopped", Holds(1)', NEW s \in 1 .. task'[1] - 1
        PROVE  outcome'[s] \in {"true", "false"}
    <3>1. outcome[s] \in {"true", "false"} /\ s \in Tasks
      BY <1>0, <1>b, <1>d, <1>g, <2>1, <2>4 DEF OrderOK
    <3> QED BY <2>1, <3>1
  <2> QED BY <2>2, <2>3, <2>4 DEF OrderOK
<1>7. CASE Keeps
  BY <1>0, <1>7, <1>d DEF Keeps, OrderOK, SettledInOrder, Holds
<1> QED BY Effects, <1>1, <1>2, <1>3, <1>4, <1>5, <1>6, <1>7

\* std::abort() settles nothing.
LEMMA AbortStep ==
    ASSUME PoolInv, Next, pool' = "aborted"
    PROVE  SettledInOrder'
<1>1. SettledInOrder /\ pool # "aborted"
  BY Steps DEF PoolInv
<1>2. UNCHANGED <<outcome, workers>>
  BY <1>1, Steps DEF Push, WaitAndPop, CheckCanceled, AcquireDeadlockLock,
       BeginTransaction, Execute, CommitTransaction,
        ExecuteFails, BeginFails, BeginLost, RollbackFails, CommitFails, ConnectionLost, CommitLost, Abort, Close, SetToken,
             Cancel, Join, closeVars
<1> QED BY <1>1, <1>2 DEF SettledInOrder

\* The invariant holds once Open() has started the workers.
LEMMA InitInv == Init => PoolInv
<1> SUFFICES ASSUME Init PROVE PoolInv
  OBVIOUS
<1>1. TypeOK
  <2>1. <<>> \in Seq(Tasks) /\ <<>> \in Seq(1 .. Statements)
    OBVIOUS
  <2>2. QueueType /\ ServerType
    BY <2>1 DEF Init, QueueType, ServerType, Nothing
  <2>3. ControlType
    BY DEF Init, ControlType, WorkerPC, Outcome
  <2>4. ExecType /\ CloseType
    BY DatabasePoolAssumption DEF Init, ExecType, CloseType, PoolPC, Workers
  <2> QED BY <2>2, <2>3, <2>4, TypeIs
<1>2. CommittedOK /\ EmptyFail /\ PoolOK /\ SettledInOrder
  BY DatabasePoolAssumption DEF Init, CommittedOK, EmptyFail, PoolOK,
       SettledInOrder, DroppedByCloseOnly,
       StoppedBeforeCleared, Workers
<1>3. ASSUME NEW w \in Workers PROVE WorkerOK(w) /\ ~Holds(w)
  BY DatabasePoolAssumption DEF Init, WorkerOK, Clean, Nothing, Holds, Running, Workers,
       None
<1>4. HoldersOK /\ QueueOK /\ OrderOK
  <2>1. Len(queue) = 0 /\ 1 \in Workers
    BY DatabasePoolAssumption DEF Init, Workers
  <2> QED BY <1>3, <2>1 DEF Init, HoldersOK, QueueOK, OrderOK
<1> QED BY <1>1, <1>2, <1>3, <1>4 DEF PoolInv, Live

\* The invariant of the pool, for every number of workers, transactions,
\* statements, faults and retries.
THEOREM InvariantHolds == Spec => []PoolInv
<1>1. ASSUME PoolInv, [Next]_vars PROVE PoolInv'
  <2>1. CASE Next
    <3>1. TypeOK' /\ CommittedOK' /\ EmptyFail' /\ PoolOK'
      BY <1>1, <2>1, TypeStep, CommittedStep, PoolStep
    <3>2. CASE pool' = "aborted"
      BY <1>1, <2>1, <3>1, <3>2, AbortStep DEF PoolInv
    <3>3. CASE pool' # "aborted"
      <4>1. Live'
        BY <1>1, <2>1, <3>3, WorkersStep, HoldersStep, QueueStep, OrderStep DEF
             Live
      <4> QED BY <1>1, <2>1, <3>1, <3>3, <4>1, OrderStep DEF PoolInv
    <3> QED BY <3>2, <3>3
  <2>2. CASE UNCHANGED vars
    <3> USE <1>1, <2>2 DEF PoolInv, vars, queueVars, execVars, serverVars, closeVars, faultVars
    <3>1. TypeOK'
      BY DEF TypeOK
    <3>2. CommittedOK' /\ EmptyFail' /\ PoolOK' /\ SettledInOrder'
      BY DEF CommittedOK, EmptyFail, PoolOK, SettledInOrder, DroppedByCloseOnly,
           StoppedBeforeCleared
    <3>3. pool' # "aborted" => Live'
      BY DEF Live, WorkerOK, Clean, HoldersOK, QueueOK, OrderOK, Holds
    <3> QED BY <3>1, <3>2, <3>3
  <2> QED BY <1>1, <2>1, <2>2
<1> QED BY <1>1, InitInv, PTL DEF Spec

\* MySQLConnection::ExecuteTransaction and the retries of TransactionTask make
\* a transaction durable as a whole or not at all, and its future tells which,
\* unless its own connection was lost while it ran or its own START
\* TRANSACTION, ROLLBACK or COMMIT failed: neither the reconnect in
\* _HandleMySQLErrno nor what an ignored failure leaves open on the connection
\* ever harms another transaction.
THEOREM OnlyTornTransactionsAreHarmed == Spec => []OnlyFaultedAreTorn
<1>1. ASSUME PoolInv PROVE OnlyFaultedAreTorn
  <2>1. AllStatements # <<>>
    <3>1. 1 \in DOMAIN AllStatements
      BY DatabasePoolAssumption DEF AllStatements
    <3>2. DOMAIN <<>> = {}
      OBVIOUS
    <3> QED BY <3>1, <3>2
  <2>2. ASSUME NEW t \in Tasks \ torn
        PROVE  AutoRollback(t) /\ (outcome[t] = "true" <=> committed[t] # <<>>)
    <3>1. committed[t] = IF outcome[t] = "true" THEN AllStatements ELSE <<>>
      BY <1>1 DEF PoolInv, CommittedOK
    <3>2. t \in Empty => outcome[t] # "true"
      BY <1>1 DEF PoolInv, EmptyFail
    <3> QED BY <2>1, <3>1, <3>2 DEF AutoRollback, Whole
  <2> QED BY <1>1, <2>2 DEF OnlyFaultedAreTorn, PoolInv
<1> QED BY <1>1, InvariantHolds, PTL

\* With one worker, the default, ProducerConsumerQueue and DatabaseWorker
\* settle the transactions in the order in which they were enqueued, retries
\* and Close() included.
THEOREM OneWorkerKeepsOrder == Spec => []SettledInOrder
<1>1. PoolInv => SettledInOrder
  BY DEF PoolInv
<1> QED BY <1>1, InvariantHolds, PTL

\* ~MySQLConnection joins its worker before it clears the statements: once
\* Close() has gone past a connection its worker is gone and has left no lock
\* taken, and only a torn transaction can have left anything uncommitted.
THEOREM WorkerIsGoneBeforeItsConnection == Spec => []StoppedBeforeCleared
<1>1. PoolInv => StoppedBeforeCleared
  BY DEF PoolInv, PoolOK
<1> QED BY <1>1, InvariantHolds, PTL

\* No transaction is dropped by DatabaseWorker or ProducerConsumerQueue while
\* the pool is open.
THEOREM OnlyCloseDrops == Spec => []DroppedByCloseOnly
<1>1. PoolInv => DroppedByCloseOnly
  BY DEF PoolInv, PoolOK
<1> QED BY <1>1, InvariantHolds, PTL
=============================================================================
