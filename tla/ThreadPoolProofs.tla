--------------------------- MODULE ThreadPoolProofs ---------------------------
(***************************************************************************)
(* Proofs about the thread pool, for any number of workers, callers and    *)
(* tasks: types, no lost wakeup, shutdown() drains, and every step is a    *)
(* step of the task queue the pool implements.                             *)
(***************************************************************************)
EXTENDS ThreadPool, SequenceTheorems, TLAPS

----------------------------------------------------------------------------
(* The inductive invariant *)

\* Where a task is.
Queued(t)  == \E i \in 1..Len(tasks) : tasks[i] = t
Carried(t) == \E w \in Workers : current[w] = t

\* A queued task is queued once, no worker has it and it was not executed.
QueueInv ==
  \A i \in 1..Len(tasks) :
    /\ tasks[i] \in accepted
    /\ runs[tasks[i]] = 0
    /\ ~Carried(tasks[i])
    /\ \A j \in 1..Len(tasks) : tasks[i] = tasks[j] => i = j

\* A worker's task belongs to no other worker and was not executed.
CarryInv ==
  \A w \in Workers :
    worker[w] = "running" =>
      /\ current[w] \in accepted
      /\ runs[current[w]] = 0
      /\ \A v \in Workers : current[v] = current[w] => v = w

\* No accepted task is lost, and none is executed that was not accepted.
TaskInv ==
  \A t \in Tasks :
    IF t \in accepted THEN Queued(t) \/ Carried(t) \/ runs[t] = 1
                      ELSE runs[t] = 0

\* Workers exit only when there is nothing left and nothing more can come, and
\* shutdown() gets past its join loop only when all have.
ExitInv ==
  /\ \A w \in Workers : worker[w] = "exited" => stop /\ tasks = <<>>
  /\ \A c \in Callers :
       caller[c] \in {"notify_all", "joining", "joined"} => stop
  /\ \A c \in Callers :
       caller[c] = "joined" => \A w \in Workers : worker[w] = "exited"

Account == QueueInv /\ CarryInv /\ TaskInv

PoolInv ==
  /\ TypeOK
  /\ Account
  /\ ExitInv
  /\ NoLostWakeup

----------------------------------------------------------------------------
(* Types *)

\* Every step keeps the types.
LEMMA TypeStep == TypeOK /\ [Next]_vars => TypeOK'
  <1> SUFFICES ASSUME TypeOK, [Next]_vars PROVE TypeOK'
    OBVIOUS
  <1> USE PoolAssumption DEF TypeOK, WorkerStates, CallerStates
  <1>1. ASSUME NEW c \in Callers, NEW t \in Tasks, Submit(c, t) PROVE TypeOK'
    <2>1. CASE stop
      BY <1>1, <2>1 DEF Submit
    <2>2. CASE ~stop
      <3>1. Append(tasks, t) \in Seq(Tasks)
        OBVIOUS
      <3> QED BY <1>1, <2>2, <3>1 DEF Submit
    <2> QED BY <2>1, <2>2
  <1>2. ASSUME NEW c \in Callers, Shutdown(c) PROVE TypeOK'
    BY <1>2 DEF Shutdown
  <1>3. ASSUME NEW c \in Callers, NotifyOne(c) PROVE TypeOK'
    BY <1>3 DEF NotifyOne
  <1>4. ASSUME NEW c \in Callers, NotifyAll(c) PROVE TypeOK'
    BY <1>4 DEF NotifyAll
  <1>5. ASSUME NEW c \in Callers, Join(c) PROVE TypeOK'
    BY <1>5 DEF Join
  <1>6. ASSUME NEW w \in Workers, Block(w) \/ SpuriousWakeup(w) \/ Exit(w)
        PROVE  TypeOK'
    BY <1>6 DEF Block, SpuriousWakeup, Exit
  <1>7. ASSUME NEW w \in Workers, Take(w) PROVE TypeOK'
    <2>1. Head(tasks) \in Tasks /\ Tail(tasks) \in Seq(Tasks)
      BY <1>7 DEF Take
    <2> QED BY <1>7, <2>1 DEF Take
  <1>8. ASSUME NEW w \in Workers, Run(w) PROVE TypeOK'
    BY <1>8 DEF Run
  <1>9. CASE UNCHANGED vars
    BY <1>9 DEF vars
  <1> QED
    BY <1>1, <1>2, <1>3, <1>4, <1>5, <1>6, <1>7, <1>8, <1>9 DEF Next

----------------------------------------------------------------------------
(* Where each task is *)

\* Only submit(), the start and the end of a task move tasks around.
LEMMA AccountFrame ==
  ASSUME Account, UNCHANGED <<tasks, current, accepted, runs>>,
         \A w \in Workers : worker'[w] = "running" => worker[w] = "running"
  PROVE  Account'
  BY DEF Account, QueueInv, CarryInv, TaskInv, Queued, Carried

\* submit() puts a new task at the end of the queue.
LEMMA SubmitAccount ==
  ASSUME TypeOK, Account, NEW c \in Callers, NEW t \in Tasks, Submit(c, t)
  PROVE  Account'
  <1>1. CASE stop
    <2>1. UNCHANGED <<tasks, current, accepted, runs, worker>>
      BY <1>1 DEF Submit
    <2> QED BY <2>1, AccountFrame
  <1>2. CASE ~stop
    <2>1. /\ tasks' = Append(tasks, t) /\ accepted' = accepted \cup {t}
          /\ UNCHANGED <<worker, current, runs>>
      BY <1>2 DEF Submit
    <2>2. /\ Len(tasks) \in Nat /\ Len(tasks') = Len(tasks) + 1
          /\ \A i \in 1..Len(tasks) : tasks'[i] = tasks[i]
          /\ tasks'[Len(tasks) + 1] = t
      BY <2>1 DEF TypeOK
    <2>3. t \notin accepted
      BY DEF Submit, TypeOK
    <2>4. runs[t] = 0 /\ ~Queued(t)
      BY <2>3 DEF Account, TaskInv, QueueInv, Queued
    <2>5. ~Carried(t)
      BY <2>3, PoolAssumption DEF Account, CarryInv, Carried, TypeOK
    <2>6. QueueInv'
      <3>1. ASSUME NEW i \in 1..Len(tasks')
            PROVE  /\ tasks'[i] \in accepted' /\ runs'[tasks'[i]] = 0
                   /\ ~(\E w \in Workers : current'[w] = tasks'[i])
        <4>1. CASE i = Len(tasks) + 1
          BY <2>1, <2>2, <2>4, <2>5, <4>1 DEF Carried
        <4>2. CASE i \in 1..Len(tasks)
          BY <2>1, <2>2, <4>2 DEF Account, QueueInv, Carried
        <4> QED BY <2>2, <4>1, <4>2
      <3>2. ASSUME NEW i \in 1..Len(tasks'), NEW j \in 1..Len(tasks'),
                   tasks'[i] = tasks'[j]
            PROVE  i = j
        BY <2>2, <2>4, <3>2 DEF Account, QueueInv, Queued
      <3> QED BY <3>1, <3>2 DEF QueueInv, Carried
    <2>7. CarryInv'
      BY <2>1 DEF Account, CarryInv
    <2>8. TaskInv'
      <3> SUFFICES ASSUME NEW u \in Tasks
                   PROVE  IF u \in accepted'
                          THEN Queued(u)' \/ Carried(u)' \/ runs'[u] = 1
                          ELSE runs'[u] = 0
        BY DEF TaskInv
      <3>1. CASE u = t
        <4>1. Len(tasks) + 1 \in 1..Len(tasks')
          BY <2>2
        <4> QED BY <2>1, <2>2, <3>1, <4>1 DEF Queued
      <3>2. CASE u # t
        <4>1. Queued(u) => Queued(u)'
          BY <2>2 DEF Queued
        <4> QED BY <2>1, <3>2, <4>1 DEF Account, TaskInv, Carried
      <3> QED BY <3>1, <3>2
    <2> QED BY <2>6, <2>7, <2>8 DEF Account
  <1> QED BY <1>1, <1>2

\* A worker takes the first task of the queue.
LEMMA TakeAccount ==
  ASSUME TypeOK, TypeOK', Account, NEW w \in Workers, Take(w)
  PROVE  Account'
  <1> DEFINE t == Head(tasks)
  <1>1. /\ tasks' = Tail(tasks) /\ UNCHANGED <<accepted, runs>>
        /\ current' = [current EXCEPT ![w] = t]
        /\ worker' = [worker EXCEPT ![w] = "running"]
    BY DEF Take
  <1>2. /\ Len(tasks) \in Nat /\ Len(tasks') = Len(tasks) - 1
        /\ \A i \in 1..Len(tasks') : tasks'[i] = tasks[i + 1]
        /\ t = tasks[1] /\ 1 \in 1..Len(tasks)
    BY DEF Take, TypeOK
  <1>3. /\ current'[w] = t /\ worker'[w] = "running"
        /\ \A v \in Workers \ {w} : current'[v] = current[v] /\ worker'[v] = worker[v]
    BY <1>1 DEF TypeOK
  <1>4. /\ t \in accepted /\ runs[t] = 0 /\ ~Carried(t)
        /\ \A j \in 1..Len(tasks) : t = tasks[j] => j = 1
    BY <1>2 DEF Account, QueueInv
  <1>5. QueueInv'
    <2> SUFFICES ASSUME NEW i \in 1..Len(tasks')
                 PROVE  /\ tasks'[i] \in accepted' /\ runs'[tasks'[i]] = 0
                        /\ ~\E v \in Workers : current'[v] = tasks[i + 1]
                        /\ \A j \in 1..Len(tasks') :
                             tasks'[i] = tasks'[j] => i = j
      BY <1>2 DEF QueueInv, Carried
    <2>1. i + 1 \in 1..Len(tasks) /\ i + 1 # 1
      BY <1>2
    <2>2. /\ tasks[i + 1] \in accepted /\ runs[tasks[i + 1]] = 0
          /\ ~Carried(tasks[i + 1]) /\ tasks[i + 1] # t
      BY <1>4, <2>1 DEF Account, QueueInv
    <2>3. ~\E v \in Workers : current'[v] = tasks[i + 1]
      BY <1>3, <2>2 DEF Carried
    <2>4. ASSUME NEW j \in 1..Len(tasks'), tasks'[i] = tasks'[j] PROVE i = j
      <3>1. j + 1 \in 1..Len(tasks) /\ tasks[i + 1] = tasks[j + 1]
        BY <1>2, <2>4
      <3>2. i + 1 = j + 1
        BY <2>1, <3>1 DEF Account, QueueInv
      <3> QED BY <1>2, <3>2
    <2> QED BY <1>1, <1>2, <2>2, <2>3, <2>4
  <1>6. CarryInv'
    <2> SUFFICES ASSUME NEW u \in Workers, worker'[u] = "running"
                 PROVE  /\ current'[u] \in accepted' /\ runs'[current'[u]] = 0
                        /\ \A v \in Workers : current'[v] = current'[u] => v = u
      BY DEF CarryInv
    <2>1. CASE u = w
      BY <1>1, <1>3, <1>4, <2>1 DEF Carried
    <2>2. CASE u # w
      BY <1>1, <1>3, <1>4, <2>2 DEF Account, CarryInv, Carried
    <2> QED BY <2>1, <2>2
  <1>7. TaskInv'
    <2> SUFFICES ASSUME NEW u \in Tasks
                 PROVE  IF u \in accepted'
                        THEN Queued(u)' \/ Carried(u)' \/ runs'[u] = 1
                        ELSE runs'[u] = 0
      BY DEF TaskInv
    <2>1. CASE u = t
      BY <1>1, <1>3, <1>4, <2>1 DEF Carried
    <2>2. CASE u # t
      <3>1. Queued(u) => Queued(u)'
        <4> SUFFICES ASSUME NEW i \in 1..Len(tasks), tasks[i] = u
                     PROVE  Queued(u)'
          BY DEF Queued
        <4>1. i - 1 \in 1..Len(tasks') /\ (i - 1) + 1 = i
          BY <1>2, <2>2
        <4> QED BY <1>2, <4>1 DEF Queued
      <3>2. Carried(u) => Carried(u)'
        <4> SUFFICES ASSUME NEW v \in Workers, current[v] = u
                     PROVE  Carried(u)'
          BY DEF Carried
        <4>1. v # w
          BY PoolAssumption DEF Take, TypeOK
        <4> QED BY <1>3, <4>1 DEF Carried
      <3> QED BY <1>1, <3>1, <3>2 DEF Account, TaskInv
    <2> QED BY <2>1, <2>2
  <1> QED BY <1>5, <1>6, <1>7 DEF Account

\* A task ends.
LEMMA RunAccount ==
  ASSUME TypeOK, Account, NEW w \in Workers, Run(w)
  PROVE  Account'
  <1> DEFINE t == current[w]
  <1>1. /\ t \in Tasks /\ t \in accepted /\ runs[t] = 0
        /\ \A v \in Workers : current[v] = t => v = w
    BY DEF Run, TypeOK, Account, CarryInv
  <1>2. /\ UNCHANGED <<tasks, accepted>>
        /\ runs'[t] = 1 /\ \A u \in Tasks \ {t} : runs'[u] = runs[u]
        /\ current'[w] = NoTask /\ worker'[w] = "enter"
        /\ \A v \in Workers \ {w} : current'[v] = current[v] /\ worker'[v] = worker[v]
    BY <1>1 DEF Run, TypeOK
  <1>3. accepted \subseteq Tasks /\ \A i \in 1..Len(tasks) : tasks[i] \in Tasks
    BY DEF TypeOK
  <1>4. QueueInv'
    <2>1. \A i \in 1..Len(tasks) : tasks[i] # t /\ tasks[i] # NoTask
      BY <1>3, PoolAssumption DEF Account, QueueInv, Carried
    <2> QED BY <1>2, <1>3, <2>1 DEF Account, QueueInv, Carried
  <1>5. CarryInv'
    <2> SUFFICES ASSUME NEW u \in Workers, worker'[u] = "running"
                 PROVE  /\ current'[u] \in accepted' /\ runs'[current'[u]] = 0
                        /\ \A v \in Workers : current'[v] = current'[u] => v = u
      BY DEF CarryInv
    <2>1. u # w /\ worker[u] = "running" /\ current'[u] = current[u]
      BY <1>2
    <2>2. /\ current[u] \in accepted /\ current[u] \in Tasks /\ runs[current[u]] = 0
          /\ \A v \in Workers : current[v] = current[u] => v = u
      BY <1>3, <2>1 DEF Account, CarryInv
    <2>3. current[u] # t /\ current[u] # NoTask
      BY <2>1, <2>2, PoolAssumption
    <2> QED BY <1>2, <2>1, <2>2, <2>3
  <1>6. TaskInv'
    <2> SUFFICES ASSUME NEW u \in Tasks
                 PROVE  IF u \in accepted
                        THEN Queued(u)' \/ Carried(u)' \/ runs'[u] = 1
                        ELSE runs'[u] = 0
      BY <1>2 DEF TaskInv
    <2>1. CASE u = t
      BY <1>1, <1>2, <2>1
    <2>2. CASE u # t
      <3>1. Carried(u) => Carried(u)'
        BY <1>2, <2>2 DEF Carried
      <3> QED BY <1>2, <2>2, <3>1 DEF Account, TaskInv, Queued
    <2> QED BY <2>1, <2>2
  <1> QED BY <1>4, <1>5, <1>6 DEF Account

\* Every step keeps the account of the accepted tasks.
LEMMA AccountStep == TypeOK /\ TypeOK' /\ Account /\ [Next]_vars => Account'
  <1> SUFFICES ASSUME TypeOK, TypeOK', Account, [Next]_vars PROVE Account'
    OBVIOUS
  <1>1. ASSUME NEW c \in Callers, Shutdown(c) \/ NotifyOne(c) \/ NotifyAll(c) \/ Join(c)
        PROVE  Account'
    <2>1. /\ UNCHANGED <<tasks, current, accepted, runs>>
          /\ \A w \in Workers : worker'[w] = "running" => worker[w] = "running"
      BY <1>1 DEF Shutdown, NotifyOne, NotifyAll, Join, TypeOK
    <2> QED BY <2>1, AccountFrame
  <1>2. ASSUME NEW w \in Workers, Block(w) \/ SpuriousWakeup(w) \/ Exit(w)
        PROVE  Account'
    <2>1. /\ UNCHANGED <<tasks, current, accepted, runs>>
          /\ \A v \in Workers : worker'[v] = "running" => worker[v] = "running"
      BY <1>2 DEF Block, SpuriousWakeup, Exit, TypeOK
    <2> QED BY <2>1, AccountFrame
  <1>3. CASE UNCHANGED vars
    BY <1>3, AccountFrame DEF vars
  <1> QED
    BY <1>1, <1>2, <1>3, SubmitAccount, TakeAccount, RunAccount DEF Next

----------------------------------------------------------------------------
(* Exit and wakeup *)

\* A worker leaves only after shutdown, and a caller returns after its workers.
LEMMA ExitStep == TypeOK /\ TypeOK' /\ ExitInv /\ [Next]_vars => ExitInv'
  <1> SUFFICES ASSUME TypeOK, TypeOK', ExitInv, [Next]_vars PROVE ExitInv'
    OBVIOUS
  <1> USE DEF TypeOK, ExitInv, CallerStates, WorkerStates
  <1>1. ASSUME NEW c \in Callers, NEW t \in Tasks, Submit(c, t) PROVE ExitInv'
    BY <1>1 DEF Submit, Free
  <1>2. ASSUME NEW c \in Callers, Shutdown(c) PROVE ExitInv'
    BY <1>2 DEF Shutdown, Free
  <1>3. ASSUME NEW c \in Callers, NotifyOne(c) PROVE ExitInv'
    BY <1>3 DEF NotifyOne
  <1>4. ASSUME NEW c \in Callers, NotifyAll(c) PROVE ExitInv'
    BY <1>4 DEF NotifyAll
  <1>5. ASSUME NEW c \in Callers, Join(c) PROVE ExitInv'
    BY <1>5 DEF Join
  <1>6. ASSUME NEW w \in Workers, Block(w) \/ SpuriousWakeup(w) \/ Exit(w)
        PROVE  ExitInv'
    BY <1>6 DEF Block, SpuriousWakeup, Exit
  <1>7. ASSUME NEW w \in Workers, Take(w) \/ Run(w) PROVE ExitInv'
    BY <1>7 DEF Take, Run
  <1>8. CASE UNCHANGED vars
    BY <1>8 DEF vars
  <1> QED
    BY <1>1, <1>2, <1>3, <1>4, <1>5, <1>6, <1>7, <1>8 DEF Next

\* Every step keeps a waiting worker from missing a task.
LEMMA WakeupStep ==
  TypeOK /\ TypeOK' /\ ExitInv /\ NoLostWakeup /\ [Next]_vars => NoLostWakeup'
  <1> SUFFICES ASSUME TypeOK, TypeOK', ExitInv, NoLostWakeup, [Next]_vars
               PROVE  NoLostWakeup'
    OBVIOUS
  <1> USE DEF TypeOK, ExitInv, NoLostWakeup, CallerStates, WorkerStates
  <1>1. ASSUME NEW c \in Callers, NEW t \in Tasks, Submit(c, t) PROVE NoLostWakeup'
    BY <1>1 DEF Submit, Free
  <1>2. ASSUME NEW c \in Callers, Shutdown(c) PROVE NoLostWakeup'
    BY <1>2 DEF Shutdown, Free
  <1>3. ASSUME NEW c \in Callers, NotifyOne(c) PROVE NoLostWakeup'
    <2>1. tasks # <<>> => \E w \in Workers : worker'[w] \in {"enter", "running"}
      BY <1>3, PoolAssumption DEF NotifyOne
    <2>2. stop' => \/ \A w \in Workers : worker'[w] # "waiting"
                   \/ \E d \in Callers : caller'[d] = "notify_all"
      BY <1>3 DEF NotifyOne
    <2> QED BY <1>3, <2>1, <2>2 DEF NotifyOne
  <1>4. ASSUME NEW c \in Callers, NotifyAll(c) PROVE NoLostWakeup'
    <2>1. \A w \in Workers : worker'[w] # "waiting"
      BY <1>4 DEF NotifyAll
    <2>2. tasks # <<>> => \E w \in Workers : worker'[w] \in {"enter", "running"}
      BY <1>4, PoolAssumption DEF NotifyAll
    <2> QED BY <1>4, <2>1, <2>2 DEF NotifyAll
  <1>5. ASSUME NEW c \in Callers, Join(c) PROVE NoLostWakeup'
    BY <1>5 DEF Join
  <1>6. ASSUME NEW w \in Workers, Block(w) \/ SpuriousWakeup(w) \/ Exit(w)
        PROVE  NoLostWakeup'
    BY <1>6 DEF Block, SpuriousWakeup, Exit
  <1>7. ASSUME NEW w \in Workers, Take(w) \/ Run(w) PROVE NoLostWakeup'
    BY <1>7 DEF Take, Run
  <1>8. CASE UNCHANGED vars
    BY <1>8 DEF vars
  <1> QED
    BY <1>1, <1>2, <1>3, <1>4, <1>5, <1>6, <1>7, <1>8 DEF Next

----------------------------------------------------------------------------
(* Theorems *)

\* The first state.
LEMMA PoolInitial == Init => PoolInv
  <1> SUFFICES ASSUME Init PROVE PoolInv
    OBVIOUS
  <1>1. TypeOK
    <2>1. tasks \in Seq(Tasks) /\ stop \in BOOLEAN
      <3>1. <<>> \in Seq(Tasks)
        OBVIOUS
      <3> QED BY <3>1 DEF Init
    <2>2. runs \in [Tasks -> Nat] /\ offered \subseteq Tasks /\ accepted \subseteq offered
      BY DEF Init
    <2>3. /\ worker \in [Workers -> WorkerStates] /\ caller \in [Callers -> CallerStates]
          /\ current \in [Workers -> Tasks \cup {NoTask}]
          /\ \A w \in Workers : worker[w] = "running" <=> current[w] # NoTask
      BY DEF Init, WorkerStates, CallerStates
    <2> QED BY <2>1, <2>2, <2>3 DEF TypeOK
  <1>2. Account
    BY DEF Init, Account, QueueInv, CarryInv, TaskInv
  <1>3. ExitInv /\ NoLostWakeup
    BY DEF Init, ExitInv, NoLostWakeup
  <1> QED BY <1>1, <1>2, <1>3 DEF PoolInv

\* The invariant is inductive.
LEMMA PoolInvStep == PoolInv /\ [Next]_vars => PoolInv'
  BY TypeStep, AccountStep, ExitStep, WakeupStep DEF PoolInv

\* The pool keeps the invariant.
THEOREM PoolInvariant == SafeSpec => []PoolInv
  BY PoolInitial, PoolInvStep, PTL DEF SafeSpec

\* Every variable of thread_pool.h keeps its type, and a worker about to call
\* task() holds one.
THEOREM PoolTypeCorrect == SafeSpec => []TypeOK
  <1>1. PoolInv => TypeOK
    BY DEF PoolInv
  <1> QED BY <1>1, PoolInvariant, PTL

\* submit() and shutdown() notify after they have released the mutex, and still
\* neither a task nor the stop flag is left to sleeping workers.
THEOREM PoolWakesUp == SafeSpec => []NoLostWakeup
  <1>1. PoolInv => NoLostWakeup
    BY DEF PoolInv
  <1> QED BY <1>1, PoolInvariant, PTL

\* The invariant implies that shutdown has drained the queue.
LEMMA PoolInvDrained == PoolInv => DrainedOnReturn
  <1> SUFFICES ASSUME PoolInv, NEW c \in Callers, caller[c] = "joined"
               PROVE  /\ tasks = <<>> /\ \A w \in Workers : worker[w] = "exited"
                      /\ \A t \in accepted : runs[t] = 1
    BY DEF DrainedOnReturn
  <1>1. /\ \A w \in Workers : worker[w] = "exited"
        /\ tasks = <<>>
    BY PoolAssumption DEF PoolInv, ExitInv
  <1>2. ASSUME NEW t \in accepted PROVE runs[t] = 1
    <2>1. t \in Tasks
      BY DEF PoolInv, TypeOK
    <2>2. ~Queued(t) /\ ~Carried(t)
      BY <1>1, <2>1, PoolAssumption DEF Queued, Carried, PoolInv, TypeOK
    <2> QED BY <2>1, <2>2 DEF PoolInv, Account, TaskInv
  <1> QED BY <1>1, <1>2

\* When the join loop of shutdown() is over, every task that submit() accepted
\* has been executed exactly once and no worker is left.
THEOREM PoolDrains == SafeSpec => []DrainedOnReturn
  BY PoolInvDrained, PoolInvariant, PTL

----------------------------------------------------------------------------
(* Refinement *)

\* A step of the pool is a step of the queue, or one the queue does not see.
LEMMA QueueStep == PoolInv /\ PoolInv' /\ [Next]_vars => [Abstract!Next]_Abstract!vars
  <1> SUFFICES ASSUME PoolInv, PoolInv', [Next]_vars
               PROVE  [Abstract!Next]_Abstract!vars
    OBVIOUS
  <1> DEFINE Drained == \E c \in Callers : caller[c] = "joined"
  <1>1. ASSUME NEW c \in Callers, NEW t \in Tasks, Submit(c, t)
        PROVE  [Abstract!Next]_Abstract!vars
    <2>1. UNCHANGED <<ActiveTasks, Executed, stop>>
      BY <1>1 DEF Submit, ActiveTasks, Running, Executed
    <2>2. Drained' = Drained
      BY <1>1 DEF Submit, Free, PoolInv, ExitInv, TypeOK
    <2>3. CASE stop
      BY <1>1, <2>1, <2>2, <2>3 DEF Submit, Abstract!vars
    <2>4. CASE ~stop
      <3>1. Abstract!Accept(t)
        BY <1>1, <2>1, <2>2, <2>4 DEF Submit, Abstract!Accept
      <3> QED BY <3>1 DEF Abstract!Next
    <2> QED BY <2>3, <2>4
  <1>2. ASSUME NEW c \in Callers, Shutdown(c)
        PROVE  [Abstract!Next]_Abstract!vars
    <2>1. UNCHANGED <<tasks, ActiveTasks, Executed>> /\ ~stop /\ stop'
      BY <1>2 DEF Shutdown, ActiveTasks, Running, Executed
    <2>2. Drained' = Drained
      BY <1>2 DEF Shutdown, Free, PoolInv, ExitInv, TypeOK
    <2>3. Abstract!Close
      BY <2>1, <2>2 DEF Abstract!Close
    <2> QED BY <2>3 DEF Abstract!Next
  <1>3. ASSUME NEW c \in Callers, NotifyOne(c) \/ NotifyAll(c)
        PROVE  [Abstract!Next]_Abstract!vars
    <2>1. UNCHANGED <<tasks, stop, Executed>>
      BY <1>3 DEF NotifyOne, NotifyAll, Executed
    <2>2. ActiveTasks' = ActiveTasks
      <3>1. Running' = Running /\ current' = current
        BY <1>3 DEF NotifyOne, NotifyAll, Running, PoolInv, TypeOK
      <3> QED BY <3>1 DEF ActiveTasks
    <2>3. Drained' = Drained
      BY <1>3 DEF NotifyOne, NotifyAll, PoolInv, TypeOK
    <2> QED BY <2>1, <2>2, <2>3 DEF Abstract!vars
  <1>4. ASSUME NEW c \in Callers, Join(c)
        PROVE  [Abstract!Next]_Abstract!vars
    <2>1. UNCHANGED <<tasks, stop, ActiveTasks, Executed>>
      BY <1>4 DEF Join, ActiveTasks, Running, Executed
    <2>2. Drained'
      BY <1>4 DEF Join, PoolInv, TypeOK
    <2>3. stop /\ tasks = <<>> /\ ActiveTasks = {}
      BY <1>4, PoolAssumption DEF Join, PoolInv, ExitInv, ActiveTasks, Running
    <2>4. Abstract!Drain
      BY <2>1, <2>2, <2>3 DEF Abstract!Drain
    <2> QED BY <2>4 DEF Abstract!Next
  <1>5. ASSUME NEW w \in Workers, Block(w) \/ SpuriousWakeup(w) \/ Exit(w)
        PROVE  [Abstract!Next]_Abstract!vars
    <2>1. UNCHANGED <<tasks, stop, Executed, caller>>
      BY <1>5 DEF Block, SpuriousWakeup, Exit, Executed
    <2>2. ActiveTasks' = ActiveTasks
      <3>1. Running' = Running /\ current' = current
        BY <1>5 DEF Block, SpuriousWakeup, Exit, Running, PoolInv, TypeOK
      <3> QED BY <3>1 DEF ActiveTasks
    <2> QED BY <2>1, <2>2 DEF Abstract!vars
  <1>6. ASSUME NEW w \in Workers, Take(w)
        PROVE  [Abstract!Next]_Abstract!vars
    <2> DEFINE t == Head(tasks)
    <2>1. tasks # <<>> /\ tasks' = Tail(tasks) /\ UNCHANGED <<stop, caller, Executed>>
      BY <1>6 DEF Take, Executed
    <2>2. t = tasks[1] /\ 1 \in 1..Len(tasks)
      BY <2>1 DEF PoolInv, TypeOK
    <2>3. t \notin ActiveTasks \cup Executed
      BY <2>2 DEF PoolInv, Account, QueueInv, Carried, ActiveTasks, Running,
         Executed
    <2>4. ActiveTasks' = ActiveTasks \cup {t}
      <3>1. Running' = Running \cup {w} /\ w \notin Running
        BY <1>6 DEF Take, Running, PoolInv, TypeOK
      <3>2. \A v \in Workers : current'[v] = IF v = w THEN t ELSE current[v]
        BY <1>6 DEF Take, PoolInv, TypeOK
      <3> QED BY <3>1, <3>2 DEF ActiveTasks, Running
    <2>5. Abstract!Start
      BY <2>1, <2>3, <2>4 DEF Abstract!Start
    <2> QED BY <2>5 DEF Abstract!Next
  <1>7. ASSUME NEW w \in Workers, Run(w)
        PROVE  [Abstract!Next]_Abstract!vars
    <2> DEFINE t == current[w]
    <2>1. UNCHANGED <<tasks, stop, caller>> /\ worker[w] = "running"
      BY <1>7 DEF Run
    <2>2. t \in Tasks /\ \A v \in Workers : current[v] = t => v = w
      BY <2>1 DEF PoolInv, TypeOK, Account, CarryInv
    <2>3. t \in ActiveTasks
      BY <2>1 DEF ActiveTasks, Running
    <2>4. ActiveTasks' = ActiveTasks \ {t}
      <3>1. Running' = Running \ {w} /\ w \in Running
        BY <1>7 DEF Run, Running, PoolInv, TypeOK
      <3>2. \A v \in Workers \ {w} : current'[v] = current[v] /\ current[v] # t
        BY <1>7, <2>2 DEF Run, PoolInv, TypeOK
      <3> QED BY <3>1, <3>2 DEF ActiveTasks, Running
    <2>5. Executed' = Executed \cup {t}
      <3>1. \A u \in Tasks : runs'[u] = IF u = t THEN runs[u] + 1 ELSE runs[u]
        BY <1>7, <2>2 DEF Run, PoolInv, TypeOK
      <3>2. \A u \in Tasks : runs[u] \in Nat
        BY DEF PoolInv, TypeOK
      <3> QED BY <2>2, <3>1, <3>2 DEF Executed
    <2>6. Abstract!End(t)
      BY <2>1, <2>3, <2>4, <2>5 DEF Abstract!End
    <2> QED BY <2>2, <2>6 DEF Abstract!Next
  <1>8. CASE UNCHANGED vars
    BY <1>8 DEF vars, Abstract!vars, ActiveTasks, Running, Executed
  <1> QED
    BY <1>1, <1>2, <1>3, <1>4, <1>5, <1>6, <1>7, <1>8 DEF Next

\* Without its threads, mutex and notifications the pool is the queue of
\* TaskQueue: tasks start in the order they were accepted, each one once,
\* none after shutdown(), and it is drained only when all have ended.
THEOREM PoolRefinesQueue == SafeSpec => Abstract!SafeSpec
  <1>1. Init => Abstract!Init
    BY DEF Init, Abstract!Init, ActiveTasks, Running, Executed
  <1> QED BY <1>1, QueueStep, PoolInvariant, PTL DEF SafeSpec,
             Abstract!SafeSpec

=============================================================================
