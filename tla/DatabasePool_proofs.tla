------------------------ MODULE DatabasePool_proofs ------------------------
(***************************************************************************)
(* Proofs about DatabasePool, for any number of connections, transactions, *)
(* statements and faults.                                                  *)
(*                                                                         *)
(* PoolInv is inductive under every fault: a transaction is in the hands   *)
(* of one connection only, the queue holds it at most once, and its        *)
(* callback is in one of the world's lists until it has been called.       *)
(* AtomicInv needs it, and needs that no connection is re-established in   *)
(* the middle of a transaction ("lost" is no statement fault): it says     *)
(* what the database holds of a transaction at each step of its execution. *)
(* HandsInv says who executes what is running; with one worker it gives    *)
(* the order.                                                              *)
(***************************************************************************)
EXTENDS DatabasePool, TLAPS

Working == {"begin", "statement", "rollback", "commit", "decide", "finish"}

\* A connection has a transaction exactly while it executes one.
JobShape ==
  \A c \in Conns : /\ pc[c] \in Working <=> job[c] # None
                   /\ job[c] # None => status[job[c]] = "running"

\* No two connections execute the same transaction.
JobExclusive ==
  \A c, d \in Conns : job[c] # None /\ job[c] = job[d] => c = d

\* What is queued is queued once, and has not been executed.
QueueShape ==
  /\ \A i \in 1..Len(queue) : status[queue[i]] = "queued"
  /\ \A i, j \in 1..Len(queue) : queue[i] = queue[j] => i = j

\* A transaction has an outcome when it is done, and is called only then.
CallShape ==
  \A t \in Txns : /\ cbState[t] # "waiting" <=> status[t] = "done"
                  /\ called[t] # << >> => status[t] = "done"

\* The statement that is sent next is one of the transaction's.
NextShape ==
  \A c \in Conns : pc[c] = "statement" => next[c] \in Statements(job[c])

PoolInv == TypeOK /\ JobShape /\ NextShape /\ JobExclusive /\ QueueShape /\ CallShape /\ CallbackOnce

Zero(t) == \A k \in Statements(t) : durable[t][k] = 0
One(t)  == \A k \in Statements(t) : durable[t][k] = 1

\* What the database holds of a transaction that waits, has failed, or has
\* succeeded.
ClientAtomic ==
  \A t \in Txns :
    /\ Zero(t) \/ One(t)
    /\ status[t] \in {"new", "registered", "queued", "flushed"} => Zero(t)
    /\ cbState[t] = "fail" => Zero(t)
    /\ CommitFaults = {} /\ cbState[t] = "success" => One(t)

\* Nothing is durable before COMMIT; after it, an attempt that took effect is
\* one that will not be repeated.
ConnAtomic(c) ==
  /\ pc[c] \in {"begin", "statement", "rollback", "commit"} => Zero(job[c])
  /\ pc[c] = "decide" => Zero(job[c]) \/ (One(job[c]) /\ result[c] /\ errno[c] # "deadlock")
  /\ pc[c] = "finish" /\ ~result[c] => Zero(job[c])
  /\ pc[c] \in {"decide", "finish"} /\ result[c] /\ CommitFaults = {} => One(job[c])

\* Until it is aborted, an open transaction holds the statements sent so far.
ServerAtomic(c) ==
  phase # "aborted" =>
    /\ pc[c] = "statement" /\ alive[c] => open[c] /\ pending[c] = 1..(next[c] - 1)
    /\ pc[c] = "commit" => pending[c] = Statements(job[c])

AtomicInv == ClientAtomic /\ \A c \in Conns : ConnAtomic(c) /\ ServerAtomic(c)

-----------------------------------------------------------------------------
(* The queue.                                                              *)

\* What the proofs need of sequences: appending to and taking from the queue.
LEMMA QueueFacts ==
  ASSUME NEW S, NEW s \in Seq(S)
  PROVE  /\ Len(s) \in Nat
         /\ \A i \in 1..Len(s) : s[i] \in S
         /\ \A e \in S : /\ Append(s, e) \in Seq(S)
                         /\ Len(Append(s, e)) = Len(s) + 1
                         /\ \A i \in 1..Len(s) : Append(s, e)[i] = s[i]
                         /\ Append(s, e)[Len(s) + 1] = e
         /\ s # << >> => /\ Head(s) = s[1] /\ 1 \in 1..Len(s)
                         /\ Tail(s) \in Seq(S)
                         /\ Len(Tail(s)) = Len(s) - 1
                         /\ \A i \in 1..Len(Tail(s)) : Tail(s)[i] = s[i + 1] /\ i + 1 \in 1..Len(s)
OBVIOUS

\* The steps of a connection between taking a transaction and its outcome: they
\* concern that connection, the server and, in Abort, the phase.
Attempt(c) ==
  \/ BeginTransaction(c) \/ StatementDone(c)
  \/ \E f \in Fault : StatementFails(c, f)
  \/ StatementLost(c) \/ StatementRefused(c) \/ Abort(c)
  \/ RollbackTransaction(c) \/ CommitTransaction(c) \/ Decide(c)

Frame(c) ==
  /\ UNCHANGED <<queue, status, cbState, buffer, callbacks, called, job>>
  /\ pc[c] \in Working /\ pc' = [pc EXCEPT ![c] = pc'[c]] /\ pc'[c] \in Working

\* Every step of an attempt leaves the rest alone.
LEMMA AttemptFrame ==
  ASSUME ConnType, NEW c \in Conns, Attempt(c)
  PROVE  Frame(c) /\ phase' \in {phase, "aborted"}
<1> USE DEF Frame, Working, ConnType, client, conn, server
<1>1. CASE BeginTransaction(c) BY <1>1 DEF BeginTransaction
<1>2. CASE StatementDone(c) BY <1>2 DEF StatementDone
<1>3. ASSUME NEW f \in Fault, StatementFails(c, f) PROVE Frame(c) /\ phase' = phase
  BY <1>3 DEF StatementFails
<1>4. CASE StatementLost(c) BY <1>4 DEF StatementLost
<1>5. CASE StatementRefused(c) BY <1>5 DEF StatementRefused
<1>6. CASE Abort(c) BY <1>6 DEF Abort
<1>7. CASE RollbackTransaction(c) BY <1>7 DEF RollbackTransaction
<1>8. CASE CommitTransaction(c) BY <1>8 DEF CommitTransaction
<1>9. CASE Decide(c) BY <1>9 DEF Decide
<1> QED BY <1>1, <1>2, <1>3, <1>4, <1>5, <1>6, <1>7, <1>8, <1>9 DEF Attempt

\* Statements take effect on the transaction that is executed only.
LEMMA DurableStep ==
  ASSUME DurableType, NEW t \in Txns, NEW S \in SUBSET Statements(t), NEW d,
         d = [durable EXCEPT ![t] = [k \in Statements(t) |-> IF k \in S THEN @[k] + 1 ELSE @[k]]]
  PROVE  /\ d = [u \in Txns |-> d[u]]
         /\ \A u \in Txns : d[u] \in [Statements(u) -> Nat]
         /\ \A u \in Txns \ {t} : d[u] = durable[u]
         /\ \A k \in Statements(t) : d[t][k] = durable[t][k] + (IF k \in S THEN 1 ELSE 0)
<1> QED BY DEF DurableType

\* Types of what a refused reconnection touches.
LEMMA RefusedType ==
  ASSUME TypeOK, NEW c \in Conns, NEW F, UNCHANGED <<alive, faults>> \/ Refused(c, F)
  PROVE  alive' \in [Conns -> BOOLEAN] /\ faults' \in Nat
<1>1. CASE UNCHANGED <<alive, faults>> BY <1>1 DEF TypeOK, ConnType, ServerType
<1>2. CASE Refused(c, F) BY <1>2 DEF Refused, TypeOK, ConnType, ServerType
<1> QED BY <1>1, <1>2

\* Every step of an attempt keeps the types of the connections and the server.
LEMMA AttemptType ==
  ASSUME TypeOK, NEW c \in Conns, Attempt(c), job[c] # None
  PROVE  ConnType' /\ ServerType' 
<1> USE DEF TypeOK, ConnType, ServerType, client, conn, server
<1>1. CASE BeginTransaction(c)
  <2>1. CASE Size[job[c]] = 0 BY <1>1, <2>1 DEF BeginTransaction
  <2>2. CASE Size[job[c]] # 0
    <3>1. alive' \in [Conns -> BOOLEAN] /\ faults' \in Nat
      BY <1>1, <2>2, RefusedType DEF BeginTransaction
    <3>2. alive'[c] \in BOOLEAN BY <3>1
    <3>3. open' \in [Conns -> BOOLEAN] BY <1>1, <2>2, <3>2 DEF BeginTransaction
    <3>4. pending' \in [Conns -> SUBSET Nat] BY <1>1, <2>2 DEF BeginTransaction
    <3>5. /\ pc' = [pc EXCEPT ![c] = "statement"] /\ next' = [next EXCEPT ![c] = 1]
          /\ errno' = [errno EXCEPT ![c] = "none"] /\ hit' = [hit EXCEPT ![c] = FALSE]
          /\ UNCHANGED <<job, tries, result>>
      BY <1>1, <2>2 DEF BeginTransaction
    <3>6. ConnType' BY <3>1, <3>5
    <3> QED BY <3>1, <3>3, <3>4, <3>6
  <2> QED BY <2>1, <2>2
<1>2. CASE StatementDone(c) BY <1>2 DEF StatementDone
<1>3. ASSUME NEW f \in Fault, StatementFails(c, f) PROVE ConnType' /\ ServerType'
  BY <1>3 DEF StatementFails
<1>4. CASE StatementLost(c) BY <1>4 DEF StatementLost, ConnectionLost
<1>5. CASE StatementRefused(c)
  <2>1. alive' \in [Conns -> BOOLEAN] /\ faults' \in Nat
    BY <1>5, RefusedType DEF StatementRefused
  <2>2. open' \in [Conns -> BOOLEAN] /\ pending' \in [Conns -> SUBSET Nat]
    BY <1>5 DEF StatementRefused, ConnectionLost
  <2> QED BY <1>5, <2>1, <2>2 DEF StatementRefused
<1>6. CASE Abort(c) BY <1>6 DEF Abort
<1>7. CASE RollbackTransaction(c) BY <1>7 DEF RollbackTransaction
<1>8. CASE CommitTransaction(c)
  <2>1. alive' \in [Conns -> BOOLEAN] /\ faults' \in Nat
    BY <1>8, RefusedType DEF CommitTransaction
  <2>2. errno' \in [Conns -> {"none", "error", "deadlock"}]
    BY <1>8 DEF CommitTransaction
  <2>3. hit' \in [Conns -> BOOLEAN]
    BY <1>8 DEF CommitTransaction
  <2> QED BY <1>8, <2>1, <2>2, <2>3 DEF CommitTransaction
<1>9. CASE Decide(c) BY <1>9, BoundTypes DEF Decide, Retry
<1> QED BY <1>1, <1>2, <1>3, <1>4, <1>5, <1>6, <1>7, <1>8, <1>9 DEF Attempt

\* What the step of an attempt does to the database: nothing, or it executes a
\* set of statements of its transaction.
LEMMA AttemptDurable ==
  ASSUME TypeOK, NEW c \in Conns, Attempt(c), job[c] # None,
         pc[c] = "statement" => next[c] \in Statements(job[c])
  PROVE  /\ DurableType'
         /\ \A t \in Txns : t # job[c] => durable'[t] = durable[t]
<1> job[c] \in Txns BY DEF TypeOK, ConnType
<1> USE DEF TypeOK, client, conn, server
<1>1. CASE UNCHANGED durable BY <1>1 DEF DurableType
<1>2. CASE durable' = Committed(c)
  <2>1. durable' = [durable EXCEPT ![job[c]] =
          [k \in Statements(job[c]) |-> IF k \in pending[c] \cap Statements(job[c]) THEN @[k] + 1 ELSE @[k]]]
    BY <1>2 DEF Committed
  <2> QED BY <2>1, DurableStep DEF DurableType
<1>3. CASE durable' = [durable EXCEPT ![job[c]][next[c]] = @ + 1] /\ pc[c] = "statement"
  BY <1>3 DEF DurableType
<1>4. UNCHANGED durable \/ durable' = Committed(c)
        \/ (durable' = [durable EXCEPT ![job[c]][next[c]] = @ + 1] /\ pc[c] = "statement")
  <2>1. CASE BeginTransaction(c) BY <2>1 DEF BeginTransaction
  <2>2. CASE StatementDone(c) BY <2>2 DEF StatementDone
  <2>3. ASSUME NEW f \in Fault, StatementFails(c, f) PROVE UNCHANGED durable
    BY <2>3 DEF StatementFails
  <2>4. CASE StatementLost(c) BY <2>4 DEF StatementLost, ConnectionLost
  <2>5. CASE StatementRefused(c) BY <2>5 DEF StatementRefused, ConnectionLost
  <2>6. CASE Abort(c) BY <2>6 DEF Abort
  <2>7. CASE RollbackTransaction(c) BY <2>7 DEF RollbackTransaction
  <2>8. CASE CommitTransaction(c) BY <2>8 DEF CommitTransaction
  <2>9. CASE Decide(c) BY <2>9 DEF Decide
  <2> QED BY <2>1, <2>2, <2>3, <2>4, <2>5, <2>6, <2>7, <2>8, <2>9 DEF Attempt
<1> QED BY <1>1, <1>2, <1>3, <1>4

-----------------------------------------------------------------------------
(* The pool invariant, under every fault.                                  *)

\* An attempt keeps the pool invariant: it touches one connection only.
LEMMA AttemptPool ==
  ASSUME PoolInv, NEW c \in Conns, Attempt(c)
  PROVE  PoolInv'
<1>1. Frame(c) /\ phase' \in {phase, "aborted"}
  BY AttemptFrame DEF PoolInv, TypeOK
<1>2. job[c] # None /\ job[c] \in Txns
  BY <1>1 DEF PoolInv, JobShape, Frame, TypeOK, ConnType
<1>3. TypeOK'
  <2>1. ClientType' BY <1>1 DEF Frame, PoolInv, TypeOK, ClientType
  <2>2. ConnType' /\ ServerType' BY <1>2, AttemptType DEF PoolInv
  <2>3. DurableType' BY <1>2, AttemptDurable DEF PoolInv, NextShape
  <2> QED BY <1>1, <2>1, <2>2, <2>3 DEF PoolInv, TypeOK
<1>4. JobShape' /\ JobExclusive'
  BY <1>1, <1>2 DEF PoolInv, JobShape, JobExclusive, Frame, TypeOK, ConnType
<1>5. NextShape'
  <2> SUFFICES ASSUME NEW d \in Conns, pc'[d] = "statement"
               PROVE  next'[d] \in Statements(job[d])
    BY <1>1 DEF NextShape, Frame
  <2> USE DEF PoolInv, TypeOK, ConnType, NextShape
  <2>1. CASE d # c
    <3>1. pc[d] = "statement" BY <1>1, <2>1 DEF Frame
    <3>2. next'[d] = next[d]
      BY <2>1 DEF Attempt, BeginTransaction, StatementDone, StatementFails, StatementLost,
                  StatementRefused, Abort, RollbackTransaction, CommitTransaction, Decide, conn
    <3> QED BY <3>1, <3>2
  <2>2. CASE d = c
    <3>1. CASE BeginTransaction(c)
      BY <1>2, <2>2, <3>1, SizeType DEF BeginTransaction, Statements
    <3>2. CASE StatementDone(c)
      <4>1. pc[c] = "statement" /\ next[c] # Size[job[c]] /\ next'[c] = next[c] + 1
        BY <2>2, <3>2 DEF StatementDone
      <4> QED BY <1>2, <2>2, <4>1, SizeType DEF Statements
    <3>3. ~StatementFails(c, "error") /\ ~StatementFails(c, "deadlock")
      BY <2>2 DEF StatementFails
    <3>4. CASE StatementLost(c) BY <2>2, <3>4 DEF StatementLost, conn
    <3>5. CASE Abort(c) BY <2>2, <3>5 DEF Abort, conn
    <3>6. ~StatementRefused(c) /\ ~RollbackTransaction(c) /\ ~CommitTransaction(c)
      BY <2>2 DEF StatementRefused, RollbackTransaction, CommitTransaction
    <3>7. ~Decide(c) BY <2>2 DEF Decide
    <3>8. \A f \in Fault : StatementFails(c, f) => f \in {"error", "deadlock"}
      BY DEF StatementFails
    <3> QED BY <3>1, <3>2, <3>3, <3>4, <3>5, <3>6, <3>7, <3>8 DEF Attempt
  <2> QED BY <2>1, <2>2
<1>6. QueueShape' /\ CallShape' /\ CallbackOnce'
  BY <1>1 DEF PoolInv, QueueShape, CallShape, CallbackOnce, Frame
<1> QED BY <1>3, <1>4, <1>5, <1>6 DEF PoolInv

\* The other steps: callers, the world's callbacks, taking and finishing a
\* transaction, closing.
LEMMA PoolStep ==
  ASSUME PoolInv, [Next]_vars
  PROVE  PoolInv'
<1> USE DEF PoolInv
<1>1. ASSUME NEW t \in Txns, AddTransactionCallback(t) PROVE PoolInv'
  <2> USE <1>1 DEF AddTransactionCallback, conn, server
  <2>1. TypeOK' BY DEF TypeOK, ClientType, ConnType, ServerType, DurableType
  <2>2. JobShape' /\ JobExclusive' /\ NextShape'
    BY DEF JobShape, JobExclusive, NextShape, TypeOK, ClientType, ConnType
  <2>3. QueueShape' BY QueueFacts DEF QueueShape, TypeOK, ClientType
  <2>4. CallShape' BY DEF CallShape, TypeOK, ClientType
  <2>5. CallbackOnce' BY DEF CallShape, CallbackOnce, TypeOK, ClientType
  <2> QED BY <2>1, <2>2, <2>3, <2>4, <2>5
<1>2. ASSUME NEW t \in Txns, Enqueue(t) PROVE PoolInv'
  <2> USE <1>2 DEF Enqueue, conn, server
  <2>1. TypeOK' BY QueueFacts DEF TypeOK, ClientType, ConnType, ServerType, DurableType
  <2>2. JobShape' /\ JobExclusive' /\ NextShape'
    BY DEF JobShape, JobExclusive, NextShape, TypeOK, ClientType, ConnType
  <2>3. QueueShape'
    <3>1. /\ Len(queue) \in Nat /\ queue' = Append(queue, t) /\ Len(queue') = Len(queue) + 1
          /\ \A i \in 1..Len(queue) : queue'[i] = queue[i] /\ queue[i] \in Txns
          /\ queue'[Len(queue) + 1] = t
      BY QueueFacts DEF TypeOK, ClientType
    <3>2. \A i \in 1..Len(queue) : queue[i] # t BY DEF QueueShape
    <3>3. \A i \in 1..Len(queue') : i \in 1..Len(queue) \/ i = Len(queue) + 1 BY <3>1
    <3>4. \A i \in 1..Len(queue') : status'[queue'[i]] = "queued"
      BY <3>1, <3>2, <3>3 DEF QueueShape, TypeOK, ClientType
    <3>5. \A i, j \in 1..Len(queue') : queue'[i] = queue'[j] => i = j
      BY <3>1, <3>2, <3>3 DEF QueueShape
    <3> QED BY <3>4, <3>5 DEF QueueShape
  <2>4. CallShape' BY DEF CallShape, TypeOK, ClientType
  <2>5. CallbackOnce' BY DEF CallShape, CallbackOnce, TypeOK, ClientType
  <2> QED BY <2>1, <2>2, <2>3, <2>4, <2>5
<1>3. ASSUME NEW t \in Txns, NEW c \in Sync, DirectCommitTransaction(t, c) PROVE PoolInv'
  <2> USE <1>3 DEF DirectCommitTransaction, server
  <2>0. c \in Conns BY DEF Conns
  <2>1. TypeOK' BY <2>0, BoundTypes DEF TypeOK, ClientType, ConnType, ServerType, DurableType
  <2>2. JobShape' /\ JobExclusive' /\ NextShape'
    BY <2>0, DirectTxns DEF JobShape, JobExclusive, NextShape, TypeOK, ClientType, ConnType, Working
  <2>3. QueueShape' BY QueueFacts DEF QueueShape, TypeOK, ClientType
  <2>4. CallShape' BY DEF CallShape, TypeOK, ClientType
  <2>5. CallbackOnce' BY DEF CallbackOnce, TypeOK, ClientType
  <2> QED BY <2>1, <2>2, <2>3, <2>4, <2>5
<1>4. CASE ProcessQueryCallbacks
  <2> USE <1>4 DEF ProcessQueryCallbacks, conn, server
  <2>1. called' \in [Txns -> Seq({"waiting", "success", "fail"})]
    BY DEF TypeOK, ClientType
  <2>2. TypeOK' BY <2>1 DEF TypeOK, ClientType, ConnType, ServerType, DurableType
  <2>3. JobShape' /\ JobExclusive' /\ NextShape' /\ QueueShape'
    BY DEF JobShape, JobExclusive, NextShape, QueueShape
  <2>4. CallShape' BY DEF CallShape, TypeOK, ClientType
  <2>5. CallbackOnce'
    <3> SUFFICES ASSUME NEW t \in Txns \ Direct
                 PROVE  /\ called'[t] \in {<< >>, <<"success">>, <<"fail">>}
                        /\ called'[t] # << >> => called'[t] = <<cbState[t]>>
                        /\ (status[t] # "new" /\ called'[t] = << >>) <=> (t \in buffer' \cup callbacks')
                        /\ ~(t \in buffer' /\ t \in callbacks')
      BY DEF CallbackOnce
    <3>1. CASE t \in callbacks /\ cbState[t] # "waiting"
      <4>1. called[t] = << >> BY <3>1 DEF CallbackOnce
      <4>2. called'[t] = Append(<< >>, cbState[t]) BY <3>1, <4>1 DEF TypeOK, ClientType
      <4>3. called'[t] = <<cbState[t]>> /\ cbState[t] \in {"success", "fail"}
        BY <3>1, <4>2 DEF TypeOK, ClientType
      <4>4. t \notin buffer' \cup callbacks' BY <3>1 DEF CallbackOnce
      <4>5. called'[t] # << >> BY <4>3
      <4>6. called'[t] \in {<<"success">>, <<"fail">>} BY <4>3
      <4> QED BY <4>3, <4>4, <4>5, <4>6
    <3>2. CASE ~(t \in callbacks /\ cbState[t] # "waiting")
      <4>1. called'[t] = called[t] BY <3>2
      <4>2. t \in buffer' \cup callbacks' <=> t \in buffer \cup callbacks BY <3>2
      <4> QED BY <4>1, <4>2 DEF CallbackOnce
    <3> QED BY <3>1, <3>2
  <2> QED BY <2>2, <2>3, <2>4, <2>5
<1>5. ASSUME NEW c \in Conns, Dequeue(c) PROVE PoolInv'
  <2>1. CASE pc' = [pc EXCEPT ![c] = "exited"] /\ UNCHANGED <<queue, status, job, tries>>
    <3> USE <1>5, <2>1 DEF Dequeue, server
    <3>1. TypeOK' BY DEF TypeOK, ClientType, ConnType, ServerType, DurableType
    <3>2. JobShape' /\ JobExclusive' /\ NextShape'
      BY DEF JobShape, JobExclusive, NextShape, TypeOK, ConnType, Working
    <3>3. QueueShape' /\ CallShape' /\ CallbackOnce' BY DEF QueueShape, CallShape, CallbackOnce
    <3> QED BY <3>1, <3>2, <3>3
  <2>2. CASE /\ queue # << >>
             /\ queue' = Tail(queue)
             /\ status' = [status EXCEPT ![Head(queue)] = "running"]
             /\ job' = [job EXCEPT ![c] = Head(queue)]
             /\ tries' = [tries EXCEPT ![c] = 0]
             /\ pc' = [pc EXCEPT ![c] = "begin"]
    <3> DEFINE t == Head(queue)
    <3>0. t \in Txns /\ status[t] = "queued" /\ t # None /\ t = queue[1]
      BY <2>2, QueueFacts, DirectTxns DEF TypeOK, ClientType, QueueShape
    <3> HIDE DEF t
    <3>00. /\ status' = [status EXCEPT ![t] = "running"] /\ job' = [job EXCEPT ![c] = t]
           /\ UNCHANGED <<phase, cbState, buffer, callbacks, called, next, result, alive, errno, hit,
                          open, pending, durable, faults>>
           /\ pc[c] = "dequeue"
      BY <1>5, <2>2 DEF Dequeue, server, t
    <3>1. TypeOK'
      <4>1. ClientType' BY <2>2, <3>0, <3>00, QueueFacts DEF TypeOK, ClientType
      <4>2. ConnType' BY <2>2, <3>0, <3>00, BoundTypes DEF TypeOK, ConnType
      <4> QED BY <3>00, <4>1, <4>2 DEF TypeOK, ServerType, DurableType
    <3>2. JobShape' /\ JobExclusive' /\ NextShape'
      BY <2>2, <3>0, <3>00 DEF JobShape, JobExclusive, NextShape, TypeOK, ClientType, ConnType, Working
    <3>3. QueueShape'
      <4>1. /\ Len(queue') \in Nat
            /\ \A i \in 1..Len(queue') : queue'[i] = queue[i + 1] /\ i + 1 \in 1..Len(queue)
        BY <2>2, QueueFacts DEF TypeOK, ClientType
      <4>2. 1 \in 1..Len(queue) BY <2>2, QueueFacts DEF TypeOK, ClientType
      <4>3. \A i \in 1..Len(queue') : queue[i + 1] # t
        BY <3>0, <4>1, <4>2 DEF QueueShape
      <4>4. \A i \in 1..Len(queue') : queue[i + 1] \in Txns
        BY <4>1, QueueFacts DEF TypeOK, ClientType
      <4>5. \A i \in 1..Len(queue') : status'[queue'[i]] = "queued"
        <5> SUFFICES ASSUME NEW i \in 1..Len(queue') PROVE status'[queue'[i]] = "queued" OBVIOUS
        <5>1. queue'[i] = queue[i + 1] /\ queue[i + 1] \in Txns \ {t} /\ status[queue[i + 1]] = "queued"
          BY <4>1, <4>3, <4>4 DEF QueueShape
        <5> QED BY <3>00, <5>1 DEF TypeOK, ClientType
      <4>6. \A i, j \in 1..Len(queue') : queue'[i] = queue'[j] => i = j
        BY <4>1 DEF QueueShape
      <4> QED BY <4>5, <4>6 DEF QueueShape
    <3>4. CallShape' BY <3>0, <3>00 DEF CallShape, TypeOK, ClientType
    <3>5. CallbackOnce' BY <3>0, <3>00 DEF CallShape, CallbackOnce, TypeOK, ClientType
    <3> QED BY <3>1, <3>2, <3>3, <3>4, <3>5
  <2> QED BY <1>5, <2>1, <2>2 DEF Dequeue
<1>6. ASSUME NEW c \in Conns, Finish(c) PROVE PoolInv'
  <2> DEFINE t == job[c]
  <2>0. t \in Txns /\ t # None /\ status[t] = "running"
    BY <1>6 DEF Finish, JobShape, Working, TypeOK, ConnType
  <2> HIDE DEF t
  <2>1. /\ \E o \in {"success", "fail"} : cbState' = [cbState EXCEPT ![t] = o]
        /\ status' = [status EXCEPT ![t] = "done"]
        /\ job' = [job EXCEPT ![c] = None]
        /\ \E p \in {"dequeue", "free"} : pc' = [pc EXCEPT ![c] = p]
        /\ UNCHANGED <<phase, queue, buffer, callbacks, called, next, tries, result, alive, errno,
                       hit, open, pending, durable, faults>>
    BY <1>6 DEF Finish, Idle, server, t
  <2>2. TypeOK' BY <2>0, <2>1 DEF TypeOK, ClientType, ConnType, ServerType, DurableType
  <2>3. JobShape' /\ JobExclusive' /\ NextShape'
    <3>1. \A d \in Conns : d # c /\ job[d] # None => job[d] # t
      BY <2>0 DEF JobExclusive, t
    <3> QED BY <2>0, <2>1, <3>1 DEF JobShape, JobExclusive, NextShape, TypeOK, ClientType, ConnType, Working
  <2>4. QueueShape' BY <2>0, <2>1, QueueFacts DEF QueueShape, TypeOK, ClientType
  <2>5. CallShape' BY <2>0, <2>1 DEF CallShape, TypeOK, ClientType
  <2>6. CallbackOnce' BY <2>0, <2>1 DEF CallShape, CallbackOnce, TypeOK, ClientType
  <2> QED BY <2>2, <2>3, <2>4, <2>5, <2>6
<1>7. CASE CloseQueue
  <2> USE <1>7 DEF CloseQueue, conn, server
  <2>1. TypeOK' BY DEF TypeOK, ClientType, ConnType, ServerType, DurableType
  <2>2. JobShape' /\ JobExclusive' /\ NextShape'
    BY DEF JobShape, JobExclusive, NextShape, TypeOK, ConnType, ClientType
  <2>3. QueueShape' BY DEF QueueShape
  <2>4. CallShape' /\ CallbackOnce' BY DEF CallShape, CallbackOnce, TypeOK, ClientType
  <2> QED BY <2>1, <2>2, <2>3, <2>4
<1>8. CASE UNCHANGED <<queue, client, conn, server>> /\ phase' \in {phase, "down"}
  BY <1>8 DEF client, conn, server, TypeOK, ClientType, ConnType, ServerType, DurableType,
              JobShape, JobExclusive, NextShape, QueueShape, CallShape, CallbackOnce
<1>9. CloseConnections \/ Down \/ UNCHANGED vars => UNCHANGED <<queue, client, conn, server>> /\ phase' \in {phase, "down"}
  BY DEF CloseConnections, Down, vars
<1>10. ASSUME NEW c \in Conns, Execute(c) PROVE Dequeue(c) \/ Attempt(c) \/ Finish(c)
  BY <1>10 DEF Execute, Attempt
<1> QED BY <1>1, <1>2, <1>3, <1>4, <1>5, <1>6, <1>7, <1>8, <1>9, <1>10, AttemptPool DEF Next, Call

\* A pool that has just been opened satisfies the invariant.
LEMMA PoolInit == Init => PoolInv
<1> SUFFICES ASSUME Init PROVE PoolInv OBVIOUS
<1> USE DEF Init, Idle
<1>1. ClientType BY DEF ClientType
<1>2. ConnType BY BoundTypes DEF ConnType
<1>3. ServerType BY BoundTypes DEF ServerType
<1>4. DurableType BY DEF DurableType
<1>5. JobShape /\ JobExclusive /\ NextShape BY DEF JobShape, JobExclusive, NextShape, Working
<1>6. QueueShape BY DEF QueueShape
<1>7. CallShape /\ CallbackOnce BY DEF CallShape, CallbackOnce
<1> QED BY <1>1, <1>2, <1>3, <1>4, <1>5, <1>6, <1>7 DEF PoolInv, TypeOK

\* Under every fault, a transaction is in the hands of one connection and its
\* callback in one of the world's lists: the inductive invariant.
THEOREM PoolInvariant == Spec => []PoolInv
<1>1. PoolInv /\ [Next]_vars => PoolInv' BY PoolStep
<1> QED BY <1>1, PoolInit, PTL DEF Spec

\* Every variable of the pool keeps its type: no program counter leaves the steps
\* of ExecuteTransaction, no attempt exceeds the loop breaker.
THEOREM PoolTypes == Spec => []TypeOK
<1>1. PoolInv => TypeOK BY DEF PoolInv
<1> QED BY <1>1, PoolInvariant, PTL

\* A transaction's callback is called at most once, with the outcome that was
\* set, and is never dropped from the world's lists before.
THEOREM CallbackAlwaysOnce == Spec => []CallbackOnce
<1>1. PoolInv => CallbackOnce BY DEF PoolInv
<1> QED BY <1>1, PoolInvariant, PTL

-----------------------------------------------------------------------------
(* Atomicity, when no connection is re-established inside a transaction.   *)

\* A connection whose attempt a step does not touch.
Untouched(d) ==
  /\ pc'[d] = pc[d] /\ job'[d] = job[d] /\ next'[d] = next[d] /\ result'[d] = result[d]
  /\ alive'[d] = alive[d] /\ errno'[d] = errno[d]
  /\ phase' # "aborted" => phase # "aborted" /\ open'[d] = open[d] /\ pending'[d] = pending[d]

\* A step elsewhere keeps what is known of an attempt.
LEMMA AtomicFrame ==
  ASSUME NEW d \in Conns, ConnAtomic(d), ServerAtomic(d), Untouched(d),
         pc[d] \in Working => durable'[job[d]] = durable[job[d]]
  PROVE  ConnAtomic(d)' /\ ServerAtomic(d)'
<1>1. ConnAtomic(d)' BY DEF ConnAtomic, Untouched, Zero, One, Working
<1>2. ServerAtomic(d)' BY DEF ServerAtomic, Untouched
<1> QED BY <1>1, <1>2

\* A step of one connection's attempt leaves every other connection alone.
LEMMA AttemptOthers ==
  ASSUME TypeOK, NEW c \in Conns, Attempt(c), phase # "aborted", NEW d \in Conns, d # c
  PROVE  Untouched(d)
<1> USE DEF Untouched, TypeOK, ConnType, ServerType, client, conn, server
<1>1. CASE BeginTransaction(c) BY <1>1 DEF BeginTransaction, Refused
<1>2. CASE StatementDone(c) BY <1>2 DEF StatementDone
<1>3. ASSUME NEW f \in Fault, StatementFails(c, f) PROVE Untouched(d)
  BY <1>3 DEF StatementFails
<1>4. CASE StatementLost(c) BY <1>4 DEF StatementLost, ConnectionLost
<1>5. CASE StatementRefused(c) BY <1>5 DEF StatementRefused, ConnectionLost, Refused
<1>6. CASE Abort(c) BY <1>6 DEF Abort
<1>7. CASE RollbackTransaction(c) BY <1>7 DEF RollbackTransaction
<1>8. CASE CommitTransaction(c) BY <1>8 DEF CommitTransaction, Refused
<1>9. CASE Decide(c) BY <1>9 DEF Decide
<1> QED BY <1>1, <1>2, <1>3, <1>4, <1>5, <1>6, <1>7, <1>8, <1>9 DEF Attempt

\* COMMIT of a complete transaction makes every statement durable once.
LEMMA CommittedOne ==
  ASSUME DurableType, NEW c \in Conns, job[c] \in Txns, Zero(job[c]),
         pending[c] = Statements(job[c]), durable' = Committed(c), job' = job
  PROVE  One(job[c])'
<1> DEFINE t == job[c]
<1>1. durable' = [durable EXCEPT ![t] =
        [k \in Statements(t) |-> IF k \in Statements(t) THEN @[k] + 1 ELSE @[k]]]
  BY DEF Committed
<1>2. \A k \in Statements(t) : durable'[t][k] = durable[t][k] + 1
  BY <1>1, DurableStep
<1> QED BY <1>2 DEF Zero, One

\* The own steps of an attempt.
LEMMA AttemptAtomic ==
  ASSUME PoolInv, AtomicInv, NEW c \in Conns, Attempt(c), phase # "aborted",
         "lost" \notin StatementFaults
  PROVE  /\ Zero(job[c])' \/ One(job[c])'
         /\ ConnAtomic(c)' /\ ServerAtomic(c)'
<1>0. job[c] \in Txns /\ UNCHANGED job /\ pc[c] \in Working
  BY AttemptFrame DEF PoolInv, TypeOK, ConnType, JobShape, Frame
<1>a. ConnAtomic(c) /\ ServerAtomic(c) BY DEF AtomicInv
<1>b. UNCHANGED durable => (Zero(job[c])' <=> Zero(job[c])) /\ (One(job[c])' <=> One(job[c]))
  BY <1>0 DEF Zero, One
<1>c. DurableType /\ ConnType /\ ServerType BY DEF PoolInv, TypeOK
<1>1. CASE BeginTransaction(c)
  <2>1. UNCHANGED durable /\ Zero(job[c]) /\ pc[c] = "begin"
    BY <1>1, <1>a DEF BeginTransaction, ConnAtomic
  <2>2. CASE Size[job[c]] = 0
    <3>1. pc'[c] = "decide" BY <1>1, <1>c, <2>2 DEF BeginTransaction, ConnType
    <3>2. One(job[c]) BY <2>2 DEF One, Statements
    <3> QED BY <1>0, <1>b, <2>1, <3>1, <3>2 DEF ConnAtomic, ServerAtomic
  <2>3. CASE Size[job[c]] # 0
    <3>1. pc'[c] = "statement" /\ open'[c] = alive'[c] /\ pending'[c] = {} /\ next'[c] = 1
      BY <1>1, <1>c, <2>3 DEF BeginTransaction, ConnType, ServerType
    <3> QED BY <1>0, <1>b, <2>1, <3>1 DEF ConnAtomic, ServerAtomic
  <2> QED BY <2>2, <2>3
<1>2. CASE StatementDone(c)
  <2>1. Zero(job[c]) /\ open[c] /\ pending[c] = 1..(next[c] - 1) /\ next[c] \in Statements(job[c])
    BY <1>2, <1>a DEF StatementDone, ConnAtomic, ServerAtomic, PoolInv, NextShape
  <2>2. /\ UNCHANGED durable /\ pending'[c] = pending[c] \cup {next[c]} /\ next'[c] = next[c] + 1
        /\ open'[c] = open[c]
        /\ pc'[c] = IF next[c] = Size[job[c]] THEN "commit" ELSE "statement"
    BY <1>2, <1>c, <2>1 DEF StatementDone, ConnType, ServerType
  <2>3. Size[job[c]] \in Nat BY <1>0, SizeType
  <2>4. pending'[c] = 1..next[c] BY <2>1, <2>2, <2>3 DEF Statements
  <2>5. next'[c] - 1 = next[c] BY <2>1, <2>2, <2>3 DEF Statements
  <2> QED BY <1>0, <1>b, <2>1, <2>2, <2>4, <2>5 DEF ConnAtomic, ServerAtomic, Statements
<1>3. ASSUME NEW f \in Fault, StatementFails(c, f)
      PROVE  UNCHANGED durable /\ pc'[c] = "rollback" /\ pc[c] = "statement"
  BY <1>3, <1>c DEF StatementFails, ConnType
<1>4. ~StatementLost(c) BY DEF StatementLost
<1>5. CASE StatementRefused(c)
  <2>1. UNCHANGED durable /\ pc'[c] = "rollback" /\ pc[c] = "statement"
    BY <1>5, <1>a, <1>c DEF StatementRefused, Refused, ConnectionLost, ServerAtomic, ConnType, server
  <2> QED BY <1>0, <1>a, <1>b, <2>1 DEF ConnAtomic, ServerAtomic
<1>6. CASE Abort(c)
  BY <1>0, <1>6, <1>a, <1>b DEF Abort, ConnAtomic, ServerAtomic, conn
<1>7. CASE RollbackTransaction(c)
  <2>1. UNCHANGED durable /\ pc'[c] = "decide" /\ pc[c] = "rollback" /\ ~result'[c]
    BY <1>7, <1>c DEF RollbackTransaction, ConnType
  <2> QED BY <1>0, <1>a, <1>b, <2>1 DEF ConnAtomic, ServerAtomic
<1>8. CASE CommitTransaction(c)
  <2>1. /\ pc[c] = "commit" /\ Zero(job[c]) /\ pending[c] = Statements(job[c])
        /\ pc'[c] = "decide" /\ result'[c]
    BY <1>8, <1>a, <1>c DEF CommitTransaction, ConnAtomic, ServerAtomic, ConnType
  <2>2. durable' = Committed(c) => One(job[c])'
    BY <1>0, <1>c, <2>1, CommittedOne
  <2>3. durable' = durable \/ (durable' = Committed(c) /\ errno'[c] = "none")
    BY <1>8, <1>c DEF CommitTransaction, ConnType
  <2>4. CommitFaults = {} => durable' = Committed(c)
    BY <1>8 DEF CommitTransaction, Refused
  <2> QED BY <1>0, <1>b, <2>1, <2>2, <2>3, <2>4 DEF ConnAtomic, ServerAtomic
<1>9. CASE Decide(c)
  <2>1. UNCHANGED durable /\ pc[c] = "decide" /\ result'[c] = result[c]
    BY <1>9 DEF Decide, server
  <2>2. CASE Retry(c)
    <3>1. pc'[c] = "begin" BY <1>9, <1>c, <2>2 DEF Decide, ConnType
    <3>2. Zero(job[c]) BY <1>a, <2>1, <2>2 DEF ConnAtomic, Retry
    <3> QED BY <1>0, <1>b, <2>1, <3>1, <3>2 DEF ConnAtomic, ServerAtomic
  <2>3. CASE ~Retry(c)
    <3>1. pc'[c] = "finish" BY <1>9, <1>c, <2>3 DEF Decide, ConnType
    <3> QED BY <1>0, <1>a, <1>b, <2>1, <3>1 DEF ConnAtomic, ServerAtomic
  <2> QED BY <2>2, <2>3
<1>10. CASE UNCHANGED durable /\ pc'[c] = "rollback" /\ pc[c] = "statement"
  BY <1>0, <1>10, <1>a, <1>b DEF ConnAtomic, ServerAtomic
<1> QED BY <1>1, <1>2, <1>3, <1>4, <1>5, <1>6, <1>7, <1>8, <1>9, <1>10 DEF Attempt

Waits == {"new", "registered", "queued", "flushed"}

\* A step that leaves the database alone, and the outcome of every transaction.
LEMMA ClientFrame ==
  ASSUME ClientAtomic, UNCHANGED durable, UNCHANGED cbState,
         \A t \in Txns : status'[t] \in Waits => status[t] \in Waits
  PROVE  ClientAtomic'
BY DEF ClientAtomic, Zero, One, Waits

\* Every step keeps AtomicInv: the attempts by AttemptAtomic, the rest because
\* they leave the database alone.
LEMMA AtomicStep ==
  ASSUME PoolInv, AtomicInv, [Next]_vars, "lost" \notin StatementFaults
  PROVE  AtomicInv'
<1>0. TypeOK /\ ClientAtomic /\ \A c \in Conns : ConnAtomic(c) /\ ServerAtomic(c)
  BY DEF AtomicInv, PoolInv
<1>1. ASSUME NEW c \in Conns, Attempt(c), phase # "aborted" PROVE AtomicInv'
  <2>1. Frame(c) /\ job[c] \in Txns /\ job[c] # None
    BY <1>0, <1>1, AttemptFrame DEF Frame, PoolInv, TypeOK, ConnType, JobShape
  <2>2. \A t \in Txns : t # job[c] => durable'[t] = durable[t]
    BY <1>0, <1>1, <2>1, AttemptDurable DEF PoolInv, NextShape
  <2>3. /\ Zero(job[c])' \/ One(job[c])'
        /\ ConnAtomic(c)' /\ ServerAtomic(c)'
    BY <1>1, AttemptAtomic
  <2>4. ASSUME NEW d \in Conns, d # c PROVE ConnAtomic(d)' /\ ServerAtomic(d)'
    <3>1. Untouched(d) BY <1>0, <1>1, <2>4, AttemptOthers
    <3>2. pc[d] \in Working => job[d] \in Txns /\ job[d] # job[c]
      BY <1>0, <2>1, <2>4 DEF PoolInv, JobShape, JobExclusive, TypeOK, ConnType
    <3> QED BY <1>0, <2>2, <3>1, <3>2, AtomicFrame
  <2>5. ClientAtomic'
    <3> SUFFICES ASSUME NEW t \in Txns
                 PROVE  /\ Zero(t)' \/ One(t)'
                        /\ status[t] \in {"new", "registered", "queued", "flushed"} => Zero(t)'
                        /\ cbState[t] = "fail" => Zero(t)'
                        /\ CommitFaults = {} /\ cbState[t] = "success" => One(t)'
      BY <2>1 DEF ClientAtomic, Frame
    <3>1. CASE t # job[c]
      <4>1. durable'[t] = durable[t] BY <2>2, <3>1
      <4> QED BY <1>0, <4>1 DEF ClientAtomic, Zero, One
    <3>2. CASE t = job[c]
      <4>1. status[t] = "running" /\ cbState[t] = "waiting"
        BY <2>1, <3>2 DEF PoolInv, JobShape, CallShape
      <4>2. Zero(t)' \/ One(t)' BY <2>1, <2>3, <3>2 DEF Frame, Zero, One
      <4> QED BY <4>1, <4>2
    <3> QED BY <3>1, <3>2
  <2> QED BY <2>3, <2>4, <2>5 DEF AtomicInv
<1>2. ASSUME UNCHANGED durable, \A d \in Conns : Untouched(d), ClientAtomic' PROVE AtomicInv'
  BY <1>0, <1>2, AtomicFrame DEF AtomicInv
<1>3. ASSUME NEW t \in Txns, AddTransactionCallback(t) \/ Enqueue(t) PROVE AtomicInv'
  <2>1. ClientAtomic'
    BY <1>0, <1>3, ClientFrame DEF AddTransactionCallback, Enqueue, server, TypeOK, ClientType, Waits
  <2> QED BY <1>2, <1>3, <2>1 DEF AddTransactionCallback, Enqueue, conn, server, Untouched
<1>4. ASSUME NEW t \in Txns, NEW c \in Sync, DirectCommitTransaction(t, c) PROVE AtomicInv'
  <2>1. ClientAtomic'
    BY <1>0, <1>4, ClientFrame DEF DirectCommitTransaction, server, TypeOK, ClientType, Waits
  <2>2. c \in Conns /\ Zero(t)
    BY <1>0, <1>4 DEF DirectCommitTransaction, ClientAtomic, Conns
  <2>3. ConnAtomic(c)' /\ ServerAtomic(c)'
    BY <1>0, <1>4, <2>2 DEF DirectCommitTransaction, server, ConnAtomic, ServerAtomic, Zero, TypeOK, ConnType
  <2>4. ASSUME NEW d \in Conns, d # c PROVE ConnAtomic(d)' /\ ServerAtomic(d)'
    <3>1. Untouched(d) /\ UNCHANGED durable
      BY <1>0, <1>4, <2>4 DEF DirectCommitTransaction, server, Untouched, TypeOK, ConnType
    <3> QED BY <1>0, <3>1, AtomicFrame
  <2> QED BY <2>1, <2>3, <2>4 DEF AtomicInv
<1>5. CASE ProcessQueryCallbacks
  <2>1. ClientAtomic' BY <1>0, <1>5, ClientFrame DEF ProcessQueryCallbacks, server
  <2> QED BY <1>2, <1>5, <2>1 DEF ProcessQueryCallbacks, conn, server, Untouched
<1>6. ASSUME NEW c \in Conns, Dequeue(c) PROVE AtomicInv'
  <2>0. UNCHANGED <<phase, durable, cbState, open, pending, next, result, alive, errno>> /\ pc[c] = "dequeue"
    BY <1>6 DEF Dequeue, server
  <2>1. CASE pc' = [pc EXCEPT ![c] = "exited"] /\ UNCHANGED <<queue, status, job, tries>>
    <3>1. ClientAtomic' BY <1>0, <2>0, <2>1, ClientFrame
    <3>2. ConnAtomic(c)' /\ ServerAtomic(c)'
      BY <1>0, <2>1 DEF ConnAtomic, ServerAtomic, TypeOK, ConnType
    <3>3. ASSUME NEW d \in Conns, d # c PROVE ConnAtomic(d)' /\ ServerAtomic(d)'
      <4>1. Untouched(d) BY <1>0, <2>0, <2>1, <3>3 DEF Untouched, TypeOK, ConnType
      <4> QED BY <1>0, <2>0, <4>1, AtomicFrame
    <3> QED BY <3>1, <3>2, <3>3 DEF AtomicInv
  <2>2. CASE /\ queue # << >>
             /\ status' = [status EXCEPT ![Head(queue)] = "running"]
             /\ job' = [job EXCEPT ![c] = Head(queue)]
             /\ pc' = [pc EXCEPT ![c] = "begin"]
    <3>1. ClientAtomic' BY <1>0, <2>0, <2>2, ClientFrame DEF TypeOK, ClientType, Waits
    <3>2. Head(queue) \in Txns /\ status[Head(queue)] = "queued"
      BY <1>0, <2>2, QueueFacts DEF PoolInv, QueueShape, TypeOK, ClientType
    <3>3. Zero(Head(queue)) BY <1>0, <3>2 DEF ClientAtomic
    <3>4. ConnAtomic(c)' /\ ServerAtomic(c)'
      <4>1. pc'[c] = "begin" /\ job'[c] = Head(queue) BY <1>0, <2>2 DEF TypeOK, ConnType
      <4>2. Zero(job[c])' BY <2>0, <3>3, <4>1 DEF Zero
      <4> QED BY <4>1, <4>2 DEF ConnAtomic, ServerAtomic
    <3>5. ASSUME NEW d \in Conns, d # c PROVE ConnAtomic(d)' /\ ServerAtomic(d)'
      <4>1. Untouched(d) BY <1>0, <2>0, <2>2, <3>5 DEF Untouched, TypeOK, ConnType
      <4> QED BY <1>0, <2>0, <4>1, AtomicFrame
    <3> QED BY <3>1, <3>4, <3>5 DEF AtomicInv
  <2> QED BY <1>6, <2>1, <2>2 DEF Dequeue
<1>7. ASSUME NEW c \in Conns, Finish(c) PROVE AtomicInv'
  <2>0. /\ UNCHANGED <<phase, durable, open, pending, next, result, alive, errno>> /\ pc[c] = "finish"
        /\ cbState' = [cbState EXCEPT ![job[c]] = IF result[c] THEN "success" ELSE "fail"]
        /\ status' = [status EXCEPT ![job[c]] = "done"]
        /\ job' = [job EXCEPT ![c] = None]
        /\ pc' = [pc EXCEPT ![c] = Idle(c)]
    BY <1>7 DEF Finish, server
  <2>1. job[c] \in Txns BY <1>0, <2>0 DEF PoolInv, JobShape, Working, TypeOK, ConnType
  <2>2. /\ ~result[c] => Zero(job[c])
        /\ result[c] /\ CommitFaults = {} => One(job[c])
    BY <1>0, <2>0 DEF ConnAtomic
  <2>3. ClientAtomic'
    <3> SUFFICES ASSUME NEW t \in Txns
                 PROVE  /\ Zero(t) \/ One(t)
                        /\ status'[t] \in {"new", "registered", "queued", "flushed"} => Zero(t)
                        /\ cbState'[t] = "fail" => Zero(t)
                        /\ CommitFaults = {} /\ cbState'[t] = "success" => One(t)
      BY <2>0 DEF ClientAtomic, Zero, One
    <3>1. CASE t # job[c]
      BY <1>0, <2>0, <3>1 DEF ClientAtomic, TypeOK, ClientType
    <3>2. CASE t = job[c]
      BY <1>0, <2>0, <2>2, <3>2 DEF ClientAtomic, TypeOK, ClientType
    <3> QED BY <3>1, <3>2
  <2>4. ConnAtomic(c)' /\ ServerAtomic(c)'
    <3>1. pc'[c] \in {"dequeue", "free"} BY <1>0, <2>0 DEF TypeOK, ConnType, Idle
    <3> QED BY <3>1 DEF ConnAtomic, ServerAtomic
  <2>5. ASSUME NEW d \in Conns, d # c PROVE ConnAtomic(d)' /\ ServerAtomic(d)'
    <3>1. Untouched(d) BY <1>0, <2>0, <2>5 DEF Untouched, TypeOK, ConnType
    <3> QED BY <1>0, <2>0, <3>1, AtomicFrame
  <2> QED BY <2>3, <2>4, <2>5 DEF AtomicInv
<1>8. CASE CloseQueue
  <2>1. ClientAtomic'
    BY <1>0, <1>8, ClientFrame DEF CloseQueue, server, TypeOK, ClientType, Waits
  <2> QED BY <1>2, <1>8, <2>1 DEF CloseQueue, conn, server, Untouched
<1>9. CASE CloseConnections \/ Down \/ UNCHANGED vars
  <2>1. UNCHANGED <<queue, client, conn, server>> /\ (phase' = phase \/ phase = "closing")
    BY <1>9 DEF CloseConnections, Down, vars
  <2>2. ClientAtomic' BY <1>0, <2>1, ClientFrame DEF client, server
  <2> QED BY <1>2, <2>1, <2>2 DEF client, conn, server, Untouched
<1>10. ASSUME NEW c \in Conns, Execute(c)
       PROVE  phase # "aborted" /\ (Dequeue(c) \/ Attempt(c) \/ Finish(c))
  BY <1>10 DEF Execute, Attempt
<1> QED BY <1>1, <1>3, <1>4, <1>5, <1>6, <1>7, <1>8, <1>9, <1>10 DEF Next, Call

\* Nothing is durable in a new pool.
LEMMA AtomicInit == Init => AtomicInv
<1> SUFFICES ASSUME Init PROVE AtomicInv OBVIOUS
<1>1. ClientAtomic BY DEF Init, ClientAtomic, Zero
<1>2. \A c \in Conns : ConnAtomic(c) /\ ServerAtomic(c)
  BY DEF Init, Idle, ConnAtomic, ServerAtomic
<1> QED BY <1>1, <1>2 DEF AtomicInv

\* What the database holds of a transaction follows the steps of its execution.
THEOREM AtomicInvariant ==
  ASSUME "lost" \notin StatementFaults PROVE Spec => []AtomicInv
<1>1. PoolInv /\ AtomicInv /\ [Next]_vars => AtomicInv' BY AtomicStep
<1> QED BY <1>1, AtomicInit, PoolInvariant, PTL DEF Spec

\* Transactions are atomic: for any number of connections, with retries, refused
\* reconnections, failing and lost commits, unless a connection is lost and
\* re-established inside a transaction.
THEOREM TransactionsAtomic ==
  ASSUME "lost" \notin StatementFaults PROVE Spec => []AllOrNothing
<1>1. AtomicInv => AllOrNothing
  BY DEF AtomicInv, ClientAtomic, AllOrNothing, Zero, One
<1> QED BY <1>1, AtomicInvariant, PTL

\* No retry applies a transaction a second time.
THEOREM TransactionsOnce ==
  ASSUME "lost" \notin StatementFaults PROVE Spec => []AtMostOnce
<1>1. AtomicInv => AtMostOnce
  BY DEF AtomicInv, ClientAtomic, AtMostOnce, Zero, One
<1> QED BY <1>1, AtomicInvariant, PTL

\* A transaction reported as failed has left nothing behind, failing and lost
\* commits included.
THEOREM FailuresHonest ==
  ASSUME "lost" \notin StatementFaults PROVE Spec => []FailureHonest
<1>1. AtomicInv => FailureHonest
  BY DEF AtomicInv, ClientAtomic, FailureHonest, Zero
<1> QED BY <1>1, AtomicInvariant, PTL

\* When no commit fails either, callbacks and direct callers are told what the
\* database did.
THEOREM OutcomesHonest ==
  ASSUME "lost" \notin StatementFaults, CommitFaults = {} PROVE Spec => []OutcomeHonest
<1>1. AtomicInv => OutcomeHonest
  BY DEF AtomicInv, ClientAtomic, OutcomeHonest, Zero, One
<1> QED BY <1>1, AtomicInvariant, PTL

-----------------------------------------------------------------------------
(* Order, with one worker thread.                                          *)

\* A transaction that runs is in the hands of a connection; the worker threads
\* have those that were queued, the synchronous connections the direct ones.
HandsInv ==
  /\ \A t \in Txns : status[t] = "running" => \E c \in Conns : job[c] = t
  /\ \A c \in Conns : job[c] # None => (job[c] \in Direct <=> c \in Sync)
  /\ \A t \in Direct : status[t] \in {"new", "running", "done"}
  /\ \A c \in Conns : pc[c] = "dequeue" => c \in Async

\* Every step keeps running transactions in the right hands.
LEMMA HandsStep ==
  ASSUME PoolInv, HandsInv, [Next]_vars
  PROVE  HandsInv'
<1> USE DEF PoolInv, TypeOK, ClientType, ConnType, HandsInv
<1>1. ASSUME NEW t \in Txns, AddTransactionCallback(t) PROVE HandsInv'
  BY <1>1 DEF AddTransactionCallback, conn
<1>2. ASSUME NEW t \in Txns, Enqueue(t) PROVE HandsInv'
  BY <1>2 DEF Enqueue, conn
<1>3. ASSUME NEW t \in Txns, NEW c \in Sync, DirectCommitTransaction(t, c) PROVE HandsInv'
  <2>1. c \in Conns /\ job[c] = None BY <1>3 DEF Conns, DirectCommitTransaction, JobShape, Working
  <2> QED BY <1>3, <2>1, DirectTxns DEF DirectCommitTransaction
<1>4. CASE ProcessQueryCallbacks BY <1>4 DEF ProcessQueryCallbacks, conn
<1>5. ASSUME NEW c \in Conns, Dequeue(c) PROVE HandsInv'
  <2>1. c \in Async /\ job[c] = None BY <1>5 DEF Dequeue, JobShape, Working
  <2>2. CASE pc' = [pc EXCEPT ![c] = "exited"] /\ UNCHANGED <<status, job>> BY <2>2
  <2>3. CASE /\ queue # << >>
             /\ status' = [status EXCEPT ![Head(queue)] = "running"]
             /\ job' = [job EXCEPT ![c] = Head(queue)]
             /\ pc' = [pc EXCEPT ![c] = "begin"]
    <3>1. Head(queue) \in Txns /\ status[Head(queue)] = "queued"
      BY <2>3, QueueFacts DEF QueueShape
    <3>2. Head(queue) \notin Direct /\ c \notin Sync BY <2>1, <3>1, ConnectionsDisjoint
    <3>3. \A t \in Txns : status'[t] = IF t = Head(queue) THEN "running" ELSE status[t]
      BY <2>3
    <3>4. \A d \in Conns : job'[d] = IF d = c THEN Head(queue) ELSE job[d] BY <2>3
    <3>5. \A d \in Conns : pc'[d] = "dequeue" => d \in Async BY <2>3
    <3>6. \A t \in Txns : status'[t] = "running" => \E d \in Conns : job'[d] = t
      <4> SUFFICES ASSUME NEW t \in Txns, status'[t] = "running"
                   PROVE  \E d \in Conns : job'[d] = t
        OBVIOUS
      <4>1. CASE t = Head(queue) BY <3>4, <4>1
      <4>2. CASE t # Head(queue)
        <5>1. PICK d \in Conns : job[d] = t BY <3>3, <4>2
        <5>2. d # c BY <2>1, <5>1, DirectTxns
        <5> QED BY <3>4, <5>1, <5>2
      <4> QED BY <4>1, <4>2
    <3>7. \A d \in Conns : job'[d] # None => (job'[d] \in Direct <=> d \in Sync)
      <4> SUFFICES ASSUME NEW d \in Conns, job'[d] # None
                   PROVE  job'[d] \in Direct <=> d \in Sync
        OBVIOUS
      <4>1. CASE d = c BY <3>2, <3>4, <4>1
      <4>2. CASE d # c
        <5>1. job'[d] = job[d] /\ job[d] # None BY <3>4, <4>2
        <5> QED BY <5>1
      <4> QED BY <4>1, <4>2
    <3>8. \A t \in Direct : status'[t] \in {"new", "running", "done"} BY <3>3, DirectTxns
    <3> QED BY <3>5, <3>6, <3>7, <3>8
  <2> QED BY <1>5, <2>2, <2>3 DEF Dequeue
<1>6. ASSUME NEW c \in Conns, Attempt(c) PROVE HandsInv'
  <2>1. Frame(c) BY <1>6, AttemptFrame
  <2>2. UNCHANGED <<status, job>> BY <2>1 DEF Frame
  <2>3. \A d \in Conns : pc'[d] = "dequeue" => pc[d] = "dequeue" BY <2>1 DEF Frame, Working
  <2> QED BY <2>2, <2>3
<1>7. ASSUME NEW c \in Conns, Finish(c) PROVE HandsInv'
  <2>1. job[c] \in Txns /\ job[c] # None BY <1>7 DEF Finish, JobShape, Working
  <2>2. \A d \in Conns : d # c /\ job[d] # None => job[d] # job[c] BY <2>1 DEF JobExclusive
  <2>3. \A t \in Txns : status'[t] = "running" => t # job[c] /\ status[t] = "running"
    BY <1>7, <2>1 DEF Finish
  <2>4. \A d \in Conns : job'[d] = IF d = c THEN None ELSE job[d] BY <1>7 DEF Finish
  <2>5. \A t \in Direct : status'[t] \in {status[t], "done"} BY <1>7, <2>1, DirectTxns DEF Finish
  <2>6. \A d \in Conns : pc'[d] = "dequeue" => d \in Async
    BY <1>7, ConnectionsDisjoint DEF Finish, Idle
  <2>7. ASSUME NEW t \in Txns, status'[t] = "running"
        PROVE  \E d \in Conns : job'[d] = t
    <3>1. t # job[c] /\ status[t] = "running" BY <2>3, <2>7
    <3>2. PICK d \in Conns : job[d] = t BY <3>1
    <3>3. job'[d] = t BY <2>4, <3>1, <3>2
    <3> QED BY <3>3
  <2>8. ASSUME NEW d \in Conns, job'[d] # None
        PROVE  job'[d] \in Direct <=> d \in Sync
    <3>1. job'[d] = job[d] BY <2>4, <2>8
    <3> QED BY <2>8, <3>1
  <2>9. \A t \in Direct : status'[t] \in {"new", "running", "done"} BY <2>5
  <2> QED BY <2>6, <2>7, <2>8, <2>9
<1>8. CASE CloseQueue BY <1>8, DirectTxns DEF CloseQueue, conn
<1>9. CASE CloseConnections \/ Down \/ UNCHANGED vars
  BY <1>9 DEF CloseConnections, Down, vars, client, conn
<1>10. ASSUME NEW c \in Conns, Execute(c) PROVE Dequeue(c) \/ Attempt(c) \/ Finish(c)
  BY <1>10 DEF Execute, Attempt
<1> QED BY <1>1, <1>2, <1>3, <1>4, <1>5, <1>6, <1>7, <1>8, <1>9, <1>10 DEF Next, Call

\* Only Dequeue starts a queued transaction, the first, when its thread has none.
LEMMA OrderStep ==
  ASSUME PoolInv, HandsInv, [Next]_vars, NEW w, Async = {w},
         NEW i \in 1..Len(queue), status'[queue[i]] = "running"
  PROVE  i = 1 /\ \A u \in Txns \ Direct : status[u] # "running"
<1> USE DEF PoolInv, TypeOK, ClientType, ConnType
<1>0. queue[i] \in Txns /\ status[queue[i]] = "queued" BY QueueFacts DEF QueueShape
<1>1. \A t \in Txns : ~AddTransactionCallback(t) /\ ~Enqueue(t)
  BY <1>0 DEF AddTransactionCallback, Enqueue
<1>2. \A t \in Txns, c \in Sync : ~DirectCommitTransaction(t, c)
  BY <1>0 DEF DirectCommitTransaction
<1>3. ~ProcessQueryCallbacks BY <1>0 DEF ProcessQueryCallbacks
<1>4. \A c \in Conns : ~Attempt(c) BY <1>0, AttemptFrame DEF Frame
<1>5. ASSUME NEW c \in Conns, Finish(c) PROVE FALSE
  <2>1. job[c] \in Txns BY <1>5 DEF Finish, JobShape, Working
  <2>2. \A t \in Txns : status'[t] = "running" => status[t] = "running"
    BY <1>5, <2>1 DEF Finish
  <2> QED BY <1>0, <2>2
<1>6. ~CloseQueue BY <1>0 DEF CloseQueue
<1>7. ~(CloseConnections \/ Down \/ UNCHANGED vars)
  BY <1>0 DEF CloseConnections, Down, vars, client
<1>8. PICK c \in Conns : Dequeue(c)
  BY <1>1, <1>2, <1>3, <1>4, <1>5, <1>6, <1>7 DEF Next, Call, Execute, Attempt
<1>9. c = w /\ job[c] = None BY <1>8 DEF Dequeue, JobShape, Working, HandsInv
<1>10. i = 1
  <2>1. queue # << >> /\ status' = [status EXCEPT ![Head(queue)] = "running"]
    BY <1>0, <1>8 DEF Dequeue
  <2>2. Head(queue) = queue[1] /\ 1 \in 1..Len(queue) BY <2>1, QueueFacts
  <2>3. queue[i] = queue[1] BY <1>0, <2>1, <2>2
  <2> QED BY <2>2, <2>3 DEF QueueShape
<1>11. ASSUME NEW u \in Txns \ Direct, status[u] = "running" PROVE FALSE
  <2>1. PICK d \in Conns : job[d] = u BY <1>11 DEF HandsInv
  <2>2. u # None BY DirectTxns
  <2>3. d \in Async BY <2>1, <2>2 DEF HandsInv, Conns
  <2> QED BY <1>9, <2>1, <2>2, <2>3
<1> QED BY <1>10, <1>11

\* With one worker thread a transaction is started only as the first of the queue
\* and after the one before it is done, whatever faults, retries and direct
\* transactions there are.
THEOREM TransactionsInOrder ==
  ASSUME NEW w, Async = {w} PROVE Spec => InOrder
<1>1. Init => HandsInv BY ConnectionsDisjoint, DirectTxns DEF Init, HandsInv, Idle, Conns
<1>2. PoolInv /\ HandsInv /\ [Next]_vars => HandsInv' BY HandsStep
<1>3. PoolInv /\ HandsInv /\ [Next]_vars =>
        [\A t \in Txns \ Direct : \A i \in 1..Len(queue) :
           queue[i] = t /\ status'[t] = "running"
             => i = 1 /\ \A u \in Txns \ Direct : status[u] # "running"]_vars
  BY OrderStep
<1> QED BY <1>1, <1>2, <1>3, PoolInvariant, PTL DEF Spec, InOrder
=============================================================================
