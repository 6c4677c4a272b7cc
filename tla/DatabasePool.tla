---------------------------- MODULE DatabasePool ----------------------------
(***************************************************************************)
(* DatabaseWorkerPool: transactions executed by a pool of connections to   *)
(* the MySQL server.  CommitTransaction registers a callback with the      *)
(* world, and enqueues the transaction for the worker threads, each with   *)
(* an asynchronous connection of its own; DirectCommitTransaction runs it  *)
(* in the caller on a free synchronous connection.  Both send the          *)
(* statements one by one between START TRANSACTION and COMMIT.             *)
(*                                                                         *)
(* The server is external.  It keeps, per connection, the open transaction *)
(* and the statements executed in it; without an open transaction a        *)
(* statement takes effect at once (autocommit).  It may answer a statement *)
(* with an error, with a deadlock (errno 1213, the open transaction is     *)
(* rolled back), with an error for which the process aborts, or the        *)
(* connection is lost (errno 2006 or 2013, the open transaction is gone):  *)
(* the client reconnects and sends the statement again, or its             *)
(* reconnection is refused and the connection stays without a handle.      *)
(***************************************************************************)
EXTENDS Integers, Sequences, FiniteSets

CONSTANTS
  Async,        \* connections of the worker threads
  Sync,         \* connections of direct, blocking operations
  Txns,         \* transactions
  Direct,       \* those given to DirectCommitTransaction
  Size,         \* how many statements each holds
  StatementFaults, CommitFaults, \* what may go wrong
  MaxFaults,    \* bound: how many things go wrong
  LoopBreaker,  \* loopBreaker: attempts after the first
  HighWater,    \* bound: the queue's high-water mark, in operations
  None          \* no transaction

\* An error of the statement, a deadlock, a lost connection, a lost connection
\* whose reconnection fails, an error that ends the process.
Fault == {"error", "deadlock", "lost", "refused", "fatal"}

ASSUME ConnectionsDisjoint == Async \cap Sync = {}
ASSUME DirectTxns == Direct \subseteq Txns /\ None \notin Txns
ASSUME SizeType == Size \in [Txns -> Nat]
ASSUME FaultTypes == StatementFaults \subseteq Fault /\ CommitFaults \subseteq Fault
ASSUME BoundTypes == MaxFaults \in Nat /\ LoopBreaker \in Nat \ {0} /\ HighWater \in Nat \ {0}

VARIABLES
  phase,     \* "open", "closing" after queue()->close(), "down" at the end of Close,
             \* "aborted" after std::abort
  queue,     \* the ACE_Activation_Queue
  status,    \* where a transaction is
  pc,        \* what a connection's thread does next
  job,       \* the transaction a connection executes
  next,      \* the statement it sends next
  tries,     \* attempts after the first
  result,    \* what ExecuteTransaction returned
  alive,     \* m_Mysql is not NULL
  errno,     \* mysql_errno of the connection: "none", "error" or "deadlock"
  open,      \* server: the connection has an open transaction
  pending,   \* server: the statements executed in the open transaction
  durable,   \* server: how often a statement of a transaction took effect
  faults,    \* how many things may still go wrong
  cbState,   \* Callback::m_State
  buffer,    \* m_TransactionCallbacksBuffer
  callbacks, \* m_TransactionCallbacks
  called,    \* history: the outcomes a callback was called with
  hit        \* history: the current attempt met a deadlock

client == <<status, cbState, buffer, callbacks, called>>
conn   == <<pc, job, next, tries, result, alive, errno, hit>>
server == <<open, pending, durable, faults>>
vars   == <<phase, queue, client, conn, server>>

Conns == Async \cup Sync
Statements(t) == 1..Size[t]
Idle(c) == IF c \in Async THEN "dequeue" ELSE "free"

Init ==
  /\ phase = "open" /\ queue = << >>
  /\ status = [t \in Txns |-> "new"]
  /\ pc = [c \in Conns |-> Idle(c)]
  /\ job = [c \in Conns |-> None]
  /\ next = [c \in Conns |-> 1] /\ tries = [c \in Conns |-> 0]
  /\ result = [c \in Conns |-> FALSE] /\ alive = [c \in Conns |-> TRUE]
  /\ errno = [c \in Conns |-> "none"]
  /\ open = [c \in Conns |-> FALSE] /\ pending = [c \in Conns |-> {}]
  /\ durable = [t \in Txns |-> [k \in Statements(t) |-> 0]]
  /\ faults = MaxFaults
  /\ cbState = [t \in Txns |-> "waiting"]
  /\ buffer = {} /\ callbacks = {} /\ called = [t \in Txns |-> << >>]
  /\ hit = [c \in Conns |-> FALSE]

-----------------------------------------------------------------------------
(* The callers.                                                            *)

\* CommitTransaction first hands the callback to the world ...
AddTransactionCallback(t) ==
  /\ phase = "open" /\ t \notin Direct /\ status[t] = "new"
  /\ status' = [status EXCEPT ![t] = "registered"]
  /\ buffer' = buffer \cup {t}
  /\ UNCHANGED <<phase, queue, cbState, callbacks, called, conn, server>>

\* ... and then enqueues the task; the caller blocks at the high-water mark.
Enqueue(t) ==
  /\ phase = "open" /\ status[t] = "registered" /\ Len(queue) < HighWater
  /\ status' = [status EXCEPT ![t] = "queued"]
  /\ queue' = Append(queue, t)
  /\ UNCHANGED <<phase, cbState, buffer, callbacks, called, conn, server>>

\* DirectCommitTransaction spins until LockIfReady finds connection c free.
DirectCommitTransaction(t, c) ==
  /\ phase = "open" /\ t \in Direct /\ status[t] = "new" /\ pc[c] = "free"
  /\ status' = [status EXCEPT ![t] = "running"]
  /\ pc' = [pc EXCEPT ![c] = "begin"]
  /\ job' = [job EXCEPT ![c] = t]
  /\ tries' = [tries EXCEPT ![c] = 0]
  /\ UNCHANGED <<phase, queue, cbState, buffer, callbacks, called, next, result,
                 alive, errno, hit, server>>

\* Mutant: a callback that was called stays in the list.
ProcessKeepingCalled ==
  /\ phase = "open"
  /\ LET ready == {t \in callbacks : cbState[t] # "waiting"}
     IN  /\ ready \cup buffer # {}
         /\ called' = [t \in Txns |-> IF t \in ready THEN Append(called[t], cbState[t])
                                                      ELSE called[t]]
         /\ callbacks' = callbacks \cup buffer
  /\ buffer' = {}
  /\ UNCHANGED <<phase, queue, status, cbState, conn, server>>

\* Mutant: the buffer is emptied without being taken over.
ProcessDroppingBuffer ==
  /\ phase = "open"
  /\ LET ready == {t \in callbacks : cbState[t] # "waiting"}
     IN  /\ ready \cup buffer # {}
         /\ called' = [t \in Txns |-> IF t \in ready THEN Append(called[t], cbState[t])
                                                      ELSE called[t]]
         /\ callbacks' = callbacks \ ready
  /\ buffer' = {}
  /\ UNCHANGED <<phase, queue, status, cbState, conn, server>>

\* World::ProcessQueryCallbacks: call what has an outcome, then take over the
\* callbacks registered since the last time.  One step, although the buffer is
\* emptied without the lock of AddTransactionCallback: transactions with a callback
\* are committed by the world thread or by a map worker it waits for.
ProcessQueryCallbacks ==
  /\ phase = "open"
  /\ LET ready == {t \in callbacks : cbState[t] # "waiting"}
     IN  /\ ready \cup buffer # {}
         /\ called' = [t \in Txns |-> IF t \in ready THEN Append(called[t], cbState[t])
                                                      ELSE called[t]]
         /\ callbacks' = (callbacks \ ready) \cup buffer
  /\ buffer' = {}
  /\ UNCHANGED <<phase, queue, status, cbState, conn, server>>

-----------------------------------------------------------------------------
(* DatabaseWorker::svc and ExecuteTransaction.                             *)

\* Mutant: the newest operation is taken first.
DequeueNewest(c) ==
  /\ pc[c] = "dequeue"
  /\ \/ /\ phase # "open"
        /\ pc' = [pc EXCEPT ![c] = "exited"]
        /\ UNCHANGED <<queue, status, job, tries>>
     \/ /\ queue # << >>
        /\ queue' = SubSeq(queue, 1, Len(queue) - 1)
        /\ status' = [status EXCEPT ![queue[Len(queue)]] = "running"]
        /\ job' = [job EXCEPT ![c] = queue[Len(queue)]]
        /\ tries' = [tries EXCEPT ![c] = 0]
        /\ pc' = [pc EXCEPT ![c] = "begin"]
  /\ UNCHANGED <<phase, cbState, buffer, callbacks, called, next, result, alive, errno, hit,
                 server>>

\* Mutant: a closed queue does not end the loop.
DequeueForever(c) ==
  /\ pc[c] = "dequeue" /\ queue # << >>
  /\ queue' = Tail(queue)
  /\ status' = [status EXCEPT ![Head(queue)] = "running"]
  /\ job' = [job EXCEPT ![c] = Head(queue)]
  /\ tries' = [tries EXCEPT ![c] = 0]
  /\ pc' = [pc EXCEPT ![c] = "begin"]
  /\ UNCHANGED <<phase, cbState, buffer, callbacks, called, next, result, alive, errno, hit,
                 server>>

\* The loop of a worker: a closed queue ends it, an empty one makes it wait.
Dequeue(c) ==
  /\ pc[c] = "dequeue"
  /\ \/ /\ phase # "open"
        /\ pc' = [pc EXCEPT ![c] = "exited"]
        /\ UNCHANGED <<queue, status, job, tries>>
     \/ /\ queue # << >>
        /\ queue' = Tail(queue)
        /\ status' = [status EXCEPT ![Head(queue)] = "running"]
        /\ job' = [job EXCEPT ![c] = Head(queue)]
        /\ tries' = [tries EXCEPT ![c] = 0]
        /\ pc' = [pc EXCEPT ![c] = "begin"]
  /\ UNCHANGED <<phase, cbState, buffer, callbacks, called, next, result, alive, errno, hit,
                 server>>

\* Mutant: START TRANSACTION is not sent.
BeginWithoutStart(c) ==
  /\ pc[c] = "begin"
  /\ pc' = [pc EXCEPT ![c] = IF Size[job[c]] = 0 THEN "decide" ELSE "statement"]
  /\ next' = [next EXCEPT ![c] = 1]
  /\ UNCHANGED <<phase, queue, client, job, tries, result, alive, errno, hit, server>>

\* The connection is lost and Open fails: m_Mysql is NULL from now on, and every
\* Execute returns false at once.
Refused(c, F) ==
  /\ alive[c] /\ "refused" \in F /\ faults > 0
  /\ faults' = faults - 1
  /\ alive' = [alive EXCEPT ![c] = FALSE]

\* ExecuteTransaction starts.  A transaction without statements returns false
\* and leaves the connection's errno as it is.  START TRANSACTION is sent again
\* after a reconnection, so losing the connection here has no effect unless the
\* reconnection is refused; its result is ignored.
BeginTransaction(c) ==
  /\ pc[c] = "begin"
  /\ IF Size[job[c]] = 0
     THEN /\ pc' = [pc EXCEPT ![c] = "decide"]
          /\ result' = [result EXCEPT ![c] = FALSE]
          /\ UNCHANGED <<next, alive, errno, hit, open, pending, faults>>
     ELSE /\ pc' = [pc EXCEPT ![c] = "statement"]
          /\ next' = [next EXCEPT ![c] = 1]
          /\ errno' = [errno EXCEPT ![c] = "none"]
          /\ hit' = [hit EXCEPT ![c] = FALSE]
          /\ UNCHANGED <<alive, faults>> \/ Refused(c, StatementFaults)
          /\ open' = [open EXCEPT ![c] = alive'[c]]
          /\ pending' = [pending EXCEPT ![c] = {}]
          /\ UNCHANGED result
  /\ UNCHANGED <<phase, queue, client, job, tries, durable>>

\* The server executes the statement.
StatementDone(c) ==
  /\ pc[c] = "statement" /\ alive[c]
  /\ IF open[c]
     THEN pending' = [pending EXCEPT ![c] = @ \cup {next[c]}] /\ UNCHANGED durable
     ELSE durable' = [durable EXCEPT ![job[c]][next[c]] = @ + 1] /\ UNCHANGED pending
  /\ errno' = [errno EXCEPT ![c] = "none"]
  /\ next' = [next EXCEPT ![c] = @ + 1]
  /\ pc' = [pc EXCEPT ![c] = IF next[c] = Size[job[c]] THEN "commit" ELSE @]
  /\ UNCHANGED <<phase, queue, client, job, tries, result, alive, hit, open, faults>>

\* The statement fails and _HandleMySQLErrno returns false.
StatementFails(c, f) ==
  /\ pc[c] = "statement" /\ alive[c] /\ faults > 0
  /\ f \in StatementFaults \cap {"error", "deadlock"}
  /\ faults' = faults - 1
  /\ errno' = [errno EXCEPT ![c] = f]
  /\ hit' = [hit EXCEPT ![c] = f = "deadlock"]
  /\ open' = [open EXCEPT ![c] = @ /\ f # "deadlock"]
  /\ pending' = [pending EXCEPT ![c] = IF f = "deadlock" THEN {} ELSE @]
  /\ pc' = [pc EXCEPT ![c] = "rollback"]
  /\ UNCHANGED <<phase, queue, client, job, next, tries, result, alive, durable>>

\* When the connection is lost the open transaction is gone; a statement outside
\* one may have been executed before.
ConnectionLost(c) ==
  /\ open' = [open EXCEPT ![c] = FALSE]
  /\ pending' = [pending EXCEPT ![c] = {}]
  /\ \/ UNCHANGED durable
     \/ ~open[c] /\ durable' = [durable EXCEPT ![job[c]][next[c]] = @ + 1]

\* _HandleMySQLErrno reconnects, with autocommit on, and Execute sends the
\* statement again.
StatementLost(c) ==
  /\ pc[c] = "statement" /\ alive[c] /\ "lost" \in StatementFaults /\ faults > 0
  /\ faults' = faults - 1
  /\ ConnectionLost(c)
  /\ UNCHANGED <<phase, queue, client, conn>>

\* The reconnection is refused now, or was before: Execute returns false.
StatementRefused(c) ==
  /\ pc[c] = "statement"
  /\ \/ ~alive[c] /\ UNCHANGED <<alive, server>>
     \/ Refused(c, StatementFaults) /\ ConnectionLost(c)
  /\ errno' = [errno EXCEPT ![c] = "none"]
  /\ pc' = [pc EXCEPT ![c] = "rollback"]
  /\ UNCHANGED <<phase, queue, client, job, next, tries, result, hit>>

\* An error of the table structure or the syntax: _HandleMySQLErrno calls
\* std::abort, and the server rolls back every open transaction.
Abort(c) ==
  /\ pc[c] = "statement" /\ alive[c] /\ "fatal" \in StatementFaults /\ faults > 0
  /\ faults' = faults - 1
  /\ phase' = "aborted"
  /\ open' = [k \in Conns |-> FALSE]
  /\ pending' = [k \in Conns |-> {}]
  /\ UNCHANGED <<queue, client, conn, durable>>

\* Mutant: the failure path commits what has been executed.
RollbackCommits(c) ==
  /\ pc[c] = "rollback"
  /\ durable' = [durable EXCEPT ![job[c]] =
                   [k \in Statements(job[c]) |-> IF k \in pending[c] THEN @[k] + 1 ELSE @[k]]]
  /\ open' = [open EXCEPT ![c] = FALSE]
  /\ pending' = [pending EXCEPT ![c] = {}]
  /\ errno' = [errno EXCEPT ![c] = "none"]
  /\ result' = [result EXCEPT ![c] = FALSE]
  /\ pc' = [pc EXCEPT ![c] = "decide"]
  /\ UNCHANGED <<phase, queue, client, job, next, tries, alive, hit, faults>>

\* Execute("ROLLBACK") succeeds, and with it mysql_errno is zero again.
RollbackTransaction(c) ==
  /\ pc[c] = "rollback"
  /\ open' = [open EXCEPT ![c] = FALSE]
  /\ pending' = [pending EXCEPT ![c] = {}]
  /\ errno' = [errno EXCEPT ![c] = "none"]
  /\ result' = [result EXCEPT ![c] = FALSE]
  /\ pc' = [pc EXCEPT ![c] = "decide"]
  /\ UNCHANGED <<phase, queue, client, job, next, tries, alive, hit, durable, faults>>

\* COMMIT makes the statements of the open transaction durable.
Committed(c) == [durable EXCEPT ![job[c]] =
                   [k \in Statements(job[c]) |-> IF k \in pending[c] THEN @[k] + 1 ELSE @[k]]]

\* Execute("COMMIT"), whose own result ExecuteTransaction ignores: the commit
\* is done; or fails, and the server rolls back; or the connection is lost
\* before or after it was done, and COMMIT is sent again without a transaction
\* (or, the reconnection refused, not sent again).
CommitTransaction(c) ==
  /\ pc[c] = "commit"
  /\ \/ /\ durable' = Committed(c)
        /\ errno' = [errno EXCEPT ![c] = "none"]
        /\ UNCHANGED <<faults, alive, hit>>
     \/ \E f \in CommitFaults \cap {"error", "deadlock"} :
          /\ faults > 0 /\ faults' = faults - 1
          /\ errno' = [errno EXCEPT ![c] = f]
          /\ hit' = [hit EXCEPT ![c] = f = "deadlock"]
          /\ UNCHANGED <<durable, alive>>
     \/ /\ \/ "lost" \in CommitFaults /\ faults > 0 /\ faults' = faults - 1 /\ UNCHANGED alive
           \/ Refused(c, CommitFaults)
        /\ durable' \in {durable, Committed(c)}
        /\ errno' = [errno EXCEPT ![c] = "none"]
        /\ UNCHANGED hit
  /\ open' = [open EXCEPT ![c] = FALSE]
  /\ pending' = [pending EXCEPT ![c] = {}]
  /\ result' = [result EXCEPT ![c] = TRUE]
  /\ pc' = [pc EXCEPT ![c] = "decide"]
  /\ UNCHANGED <<phase, queue, client, job, next, tries>>

\* Mutant: no break after an attempt that succeeded.
RetryWithoutBreak(c) ==
  IF tries[c] = 0 THEN errno[c] = "deadlock" ELSE tries[c] < LoopBreaker

\* TransactionTask::Execute and DirectCommitTransaction after an attempt.  The
\* first attempt is repeated when GetLastError() is 1213 (the direct path asks
\* only after a failure); the loop ends with the first attempt that returns true.
Retry(c) ==
  IF tries[c] = 0 THEN errno[c] = "deadlock" /\ (c \in Sync => ~result[c])
                  ELSE ~result[c] /\ tries[c] < LoopBreaker

Decide(c) ==
  /\ pc[c] = "decide"
  /\ IF Retry(c)
     THEN tries' = [tries EXCEPT ![c] = @ + 1] /\ pc' = [pc EXCEPT ![c] = "begin"]
     ELSE pc' = [pc EXCEPT ![c] = "finish"] /\ UNCHANGED tries
  /\ UNCHANGED <<phase, queue, client, job, next, result, alive, errno, hit, server>>

\* The callback's state is set (or the direct call returns), the transaction is
\* cleaned up and the connection is free for the next one.
Finish(c) ==
  /\ pc[c] = "finish"
  /\ cbState' = [cbState EXCEPT ![job[c]] = IF result[c] THEN "success" ELSE "fail"]
  /\ status' = [status EXCEPT ![job[c]] = "done"]
  /\ job' = [job EXCEPT ![c] = None]
  /\ pc' = [pc EXCEPT ![c] = Idle(c)]
  /\ UNCHANGED <<phase, queue, buffer, callbacks, called, next, tries, result,
                 alive, errno, hit, server>>

-----------------------------------------------------------------------------
(* Close, called when every other thread of the server has ended.          *)

\* queue()->close() deactivates the queue and flushes what is in it.
CloseQueue ==
  /\ phase = "open"
  /\ \A t \in Txns : status[t] # "registered"
  /\ \A c \in Sync : pc[c] = "free"
  /\ phase' = "closing"
  /\ queue' = << >>
  /\ status' = [t \in Txns |-> IF status[t] = "queued" THEN "flushed" ELSE status[t]]
  /\ UNCHANGED <<cbState, buffer, callbacks, called, conn, server>>

\* Every worker has ended; the connections are closed.
CloseConnections ==
  /\ phase = "closing" /\ \A c \in Async : pc[c] = "exited"
  /\ phase' = "down"
  /\ UNCHANGED <<queue, client, conn, server>>

Down == phase \in {"down", "aborted"} /\ UNCHANGED vars

-----------------------------------------------------------------------------

Execute(c) ==
  /\ phase # "aborted"
  /\ \/ Dequeue(c) \/ BeginTransaction(c) \/ StatementDone(c)
     \/ \E f \in Fault : StatementFails(c, f)
     \/ StatementLost(c) \/ StatementRefused(c) \/ Abort(c)
     \/ RollbackTransaction(c) \/ CommitTransaction(c)
     \/ Decide(c) \/ Finish(c)

Call(t) ==
  \/ AddTransactionCallback(t) \/ Enqueue(t)
  \/ \E c \in Sync : DirectCommitTransaction(t, c)

Next ==
  \/ \E t \in Txns : Call(t)
  \/ ProcessQueryCallbacks
  \/ \E c \in Conns : Execute(c)
  \/ CloseQueue \/ CloseConnections \/ Down

Spec == Init /\ [][Next]_vars

\* Worker threads and the world's update loop keep running, and a caller that
\* registered its callback goes on to enqueue.
Fairness == /\ \A c \in Conns : WF_vars(Execute(c))
            /\ WF_vars(ProcessQueryCallbacks)
            /\ \A t \in Txns : WF_vars(Enqueue(t))
            /\ WF_vars(CloseConnections)

FairSpec == Spec /\ Fairness

-----------------------------------------------------------------------------
(* Properties.                                                             *)

ClientType ==
  /\ queue \in Seq(Txns)
  /\ status \in [Txns -> {"new", "registered", "queued", "running", "done", "flushed"}]
  /\ cbState \in [Txns -> {"waiting", "success", "fail"}]
  /\ buffer \subseteq Txns /\ callbacks \subseteq Txns
  /\ called \in [Txns -> Seq({"waiting", "success", "fail"})]

ConnType ==
  /\ pc \in [Conns -> {"dequeue", "free", "begin", "statement", "rollback", "commit",
                       "decide", "finish", "exited"}]
  /\ job \in [Conns -> Txns \cup {None}]
  /\ next \in [Conns -> Nat] /\ tries \in [Conns -> 0..LoopBreaker]
  /\ result \in [Conns -> BOOLEAN] /\ alive \in [Conns -> BOOLEAN] /\ hit \in [Conns -> BOOLEAN]
  /\ errno \in [Conns -> {"none", "error", "deadlock"}]

ServerType ==
  /\ open \in [Conns -> BOOLEAN] /\ pending \in [Conns -> SUBSET Nat]
  /\ faults \in Nat

DurableType ==
  /\ durable = [t \in Txns |-> durable[t]]
  /\ \A t \in Txns : durable[t] \in [Statements(t) -> Nat]

\* The type of every variable; an attempt is repeated at most loopBreaker times.
TypeOK ==
  /\ phase \in {"open", "closing", "down", "aborted"}
  /\ ClientType /\ ConnType /\ ServerType /\ DurableType

\* At every moment either all statements of a transaction have taken effect or
\* none has: with retries after deadlocks, and for a transaction that fails in
\* the middle.
AllOrNothing ==
  \A t \in Txns : \A k, l \in Statements(t) : durable[t][k] = durable[t][l]

\* No retry makes a statement take effect twice.
AtMostOnce == \A t \in Txns : \A k \in Statements(t) : durable[t][k] <= 1

\* The outcome a callback, or the caller of DirectCommitTransaction, is given is
\* the one the database has: success means durable, failure means without effect.
OutcomeHonest ==
  \A t \in Txns : \A k \in Statements(t) :
    /\ cbState[t] = "success" => durable[t][k] = 1
    /\ cbState[t] = "fail" => durable[t][k] = 0

\* A failure that is reported is one: whoever is told so may safely do the work
\* again, though an earlier attempt met a deadlock at COMMIT or a commit was lost.
FailureHonest ==
  \A t \in Txns : cbState[t] = "fail" => \A k \in Statements(t) : durable[t][k] = 0

\* A callback is called at most once, with the outcome, and is never forgotten:
\* while its transaction is under way or its outcome not delivered, it is in
\* exactly one of the world's two lists.
CallbackOnce ==
  \A t \in Txns \ Direct :
    /\ called[t] \in {<< >>, <<"success">>, <<"fail">>}
    /\ called[t] # << >> => called[t] = <<cbState[t]>>
    /\ (status[t] # "new" /\ called[t] = << >>) <=> (t \in buffer \cup callbacks)
    /\ ~(t \in buffer /\ t \in callbacks)

\* With one worker thread transactions take effect in the order in which they
\* were enqueued: nothing is executed before what was enqueued earlier is done.
InOrder ==
  [][\A t \in Txns \ Direct : \A i \in 1..Len(queue) :
       queue[i] = t /\ status'[t] = "running"
         => i = 1 /\ \A u \in Txns \ Direct : status[u] # "running"]_vars

\* A transaction whose callback is registered gets its outcome delivered, unless
\* the pool is closed first.
Answered ==
  \A t \in Txns \ Direct :
    (status[t] = "registered") ~> (called[t] # << >> \/ phase # "open")

\* Close ends: every worker leaves its loop and the connections are closed,
\* whatever they were doing, unless the process aborts.
Closes == (phase = "closing") ~> (phase \in {"down", "aborted"})

\* A transaction that failed because of a deadlock has been tried again.
DeadlockRetried == \A c \in Conns : pc[c] = "finish" /\ hit[c] /\ ~result[c] => tries[c] > 0

\* What was enqueued before the server stopped is in the database, or has
\* failed there, when the pool is closed.
SavedAtClose == phase = "down" => \A t \in Txns : status[t] # "flushed"

\* Every connection still has its MySQL handle when Close deletes it.
HandleAtClose == phase = "down" => \A c \in Conns : alive[c]
=============================================================================
