------------------------------ MODULE ThreadPool ------------------------------
(***************************************************************************)
(* src/src/thread_pool.h: a fixed set of worker threads, one mutex, one    *)
(* condition variable, a FIFO of tasks and a stop flag.                    *)
(*                                                                         *)
(* Every critical section on mutex_ is one action; notify_one() and        *)
(* notify_all() are called after the mutex is released (lines 69 and 82),  *)
(* so they are steps of their own and other threads may run in between.    *)
(* The event loop is the program's only caller, but the class promises to  *)
(* be thread-safe, so Callers may hold several threads.                    *)
(***************************************************************************)
EXTENDS Naturals, Sequences, FiniteSets

CONSTANTS
  Workers,  \* workers_
  Callers,  \* threads that call submit() and shutdown()
  Tasks,    \* the tasks ever submitted (each one is submitted at most once)
  NoTask    \* an empty std::function

ASSUME PoolAssumption ==
  /\ Workers # {}
  /\ NoTask \notin Tasks

VARIABLES
  tasks,    \* tasks_
  stop,     \* stop_
  worker,   \* where each worker is in worker_loop()
  current,  \* the local variable task of each worker
  caller,   \* where each caller is in submit() or shutdown()
  offered,  \* history: tasks passed to submit()
  accepted, \* history: tasks pushed on tasks_
  runs      \* history: how often each task has been executed

vars == <<tasks, stop, worker, current, caller, offered, accepted, runs>>

\* "enter":   about to lock mutex_ (first time, after a task, or woken up)
\* "waiting": blocked in cv_.wait
\* "running": executing task()
\* "exited":  worker_loop() has returned
WorkerStates == {"enter", "waiting", "running", "exited"}

\* "idle":       outside the pool
\* "notify_one": submit() has pushed and unlocked
\* "notify_all": shutdown() has set stop_ and unlocked
\* "joining":    shutdown() is in the join loop
\* "joined":     shutdown() has returned after the join loop
CallerStates == {"idle", "notify_one", "notify_all", "joining", "joined"}

\* A caller that may call submit() or shutdown().
Free(c) == caller[c] \in {"idle", "joined"}

\* ThreadPool::ThreadPool: every worker starts worker_loop().
Init ==
  /\ tasks = <<>>
  /\ stop = FALSE
  /\ worker = [w \in Workers |-> "enter"]
  /\ current = [w \in Workers |-> NoTask]
  /\ caller = [c \in Callers |-> "idle"]
  /\ offered = {}
  /\ accepted = {}
  /\ runs = [t \in Tasks |-> 0]

----------------------------------------------------------------------------
(* submit() and shutdown() *)

\* Faulty variant of Submit: the push uses a task that was already moved from.
SubmitMovedFrom(c, t) ==
  /\ Free(c)
  /\ t \notin offered
  /\ offered' = offered \cup {t}
  /\ ~stop
  /\ tasks' = Append(tasks, NoTask)
  /\ accepted' = accepted \cup {t}
  /\ caller' = [caller EXCEPT ![c] = "notify_one"]
  /\ UNCHANGED <<stop, worker, current, runs>>

\* submit(), lines 64-68: under the mutex, drop the task if stop_ is set,
\* otherwise push it; the notification comes after the mutex is released.
Submit(c, t) ==
  /\ Free(c)
  /\ t \notin offered
  /\ offered' = offered \cup {t}
  /\ \/ /\ stop
        /\ UNCHANGED <<tasks, accepted, caller>>
     \/ /\ ~stop
        /\ tasks' = Append(tasks, t)
        /\ accepted' = accepted \cup {t}
        /\ caller' = [caller EXCEPT ![c] = "notify_one"]
  /\ UNCHANGED <<stop, worker, current, runs>>

\* Faulty variant of NotifyOne: the notification is forgotten.
NotifyNobody(c) ==
  /\ caller[c] = "notify_one"
  /\ UNCHANGED worker
  /\ caller' = [caller EXCEPT ![c] = "idle"]
  /\ UNCHANGED <<tasks, stop, current, offered, accepted, runs>>

\* submit(), line 69: wakes one thread blocked in cv_.wait, if there is one.
NotifyOne(c) ==
  /\ caller[c] = "notify_one"
  /\ \/ \E w \in Workers :
          /\ worker[w] = "waiting"
          /\ worker' = [worker EXCEPT ![w] = "enter"]
     \/ /\ \A w \in Workers : worker[w] # "waiting"
        /\ UNCHANGED worker
  /\ caller' = [caller EXCEPT ![c] = "idle"]
  /\ UNCHANGED <<tasks, stop, current, offered, accepted, runs>>

\* shutdown(), lines 77-81: a second call returns at once.
Shutdown(c) ==
  /\ Free(c)
  /\ ~stop
  /\ stop' = TRUE
  /\ caller' = [caller EXCEPT ![c] = "notify_all"]
  /\ UNCHANGED <<tasks, worker, current, offered, accepted, runs>>

\* Faulty variant of NotifyAll: only one thread is woken.
NotifyAllWakesOne(c) ==
  /\ caller[c] = "notify_all"
  /\ \/ \E w \in Workers :
          /\ worker[w] = "waiting"
          /\ worker' = [worker EXCEPT ![w] = "enter"]
     \/ /\ \A w \in Workers : worker[w] # "waiting"
        /\ UNCHANGED worker
  /\ caller' = [caller EXCEPT ![c] = "joining"]
  /\ UNCHANGED <<tasks, stop, current, offered, accepted, runs>>

\* shutdown(), line 82: wakes every thread blocked in cv_.wait.
NotifyAll(c) ==
  /\ caller[c] = "notify_all"
  /\ worker' = [w \in Workers |->
                  IF worker[w] = "waiting" THEN "enter" ELSE worker[w]]
  /\ caller' = [caller EXCEPT ![c] = "joining"]
  /\ UNCHANGED <<tasks, stop, current, offered, accepted, runs>>

\* shutdown(), lines 83-85: the join loop ends when every worker has exited.
Join(c) ==
  /\ caller[c] = "joining"
  /\ \A w \in Workers : worker[w] = "exited"
  /\ caller' = [caller EXCEPT ![c] = "joined"]
  /\ UNCHANGED <<tasks, stop, worker, current, offered, accepted, runs>>

----------------------------------------------------------------------------
(* worker_loop() *)

\* cv_.wait, line 97: the predicate is false, the worker blocks and releases
\* the mutex in one step.
Block(w) ==
  /\ worker[w] = "enter"
  /\ ~stop
  /\ tasks = <<>>
  /\ worker' = [worker EXCEPT ![w] = "waiting"]
  /\ UNCHANGED <<tasks, stop, current, caller, offered, accepted, runs>>

\* A condition variable may wake a thread that nobody notified.
SpuriousWakeup(w) ==
  /\ worker[w] = "waiting"
  /\ worker' = [worker EXCEPT ![w] = "enter"]
  /\ UNCHANGED <<tasks, stop, current, caller, offered, accepted, runs>>

\* Faulty variant of Exit: the worker leaves as soon as stop_ is set.
ExitWithWorkLeft(w) ==
  /\ worker[w] = "enter"
  /\ stop
  /\ worker' = [worker EXCEPT ![w] = "exited"]
  /\ UNCHANGED <<tasks, stop, current, caller, offered, accepted, runs>>

\* line 98: stop_ is set and no task is left.
Exit(w) ==
  /\ worker[w] = "enter"
  /\ stop
  /\ tasks = <<>>
  /\ worker' = [worker EXCEPT ![w] = "exited"]
  /\ UNCHANGED <<tasks, stop, current, caller, offered, accepted, runs>>

\* Faulty variant of Take: the task is copied and not popped.
TakeWithoutPop(w) ==
  /\ worker[w] = "enter"
  /\ tasks # <<>>
  /\ UNCHANGED tasks
  /\ current' = [current EXCEPT ![w] = Head(tasks)]
  /\ worker' = [worker EXCEPT ![w] = "running"]
  /\ UNCHANGED <<stop, caller, offered, accepted, runs>>

\* lines 99-100: take the oldest task, even when stop_ is set.
Take(w) ==
  /\ worker[w] = "enter"
  /\ tasks # <<>>
  /\ tasks' = Tail(tasks)
  /\ current' = [current EXCEPT ![w] = Head(tasks)]
  /\ worker' = [worker EXCEPT ![w] = "running"]
  /\ UNCHANGED <<stop, caller, offered, accepted, runs>>

\* line 102: task() returns (the task of main.cpp:501-511 lets no exception
\* out) and the loop starts over with a fresh local variable.
Run(w) ==
  /\ worker[w] = "running"
  /\ runs' = [runs EXCEPT ![current[w]] = @ + 1]
  /\ current' = [current EXCEPT ![w] = NoTask]
  /\ worker' = [worker EXCEPT ![w] = "enter"]
  /\ UNCHANGED <<tasks, stop, caller, offered, accepted>>

----------------------------------------------------------------------------

CallerStep(c) == NotifyOne(c) \/ NotifyAll(c) \/ Join(c)

WorkerStep(w) == Block(w) \/ Exit(w) \/ Take(w) \/ Run(w)

Next ==
  \/ \E c \in Callers : \/ \E t \in Tasks : Submit(c, t)
                        \/ Shutdown(c)
                        \/ NotifyOne(c)
                        \/ NotifyAll(c)
                        \/ Join(c)
  \/ \E w \in Workers : \/ Block(w)
                        \/ SpuriousWakeup(w)
                        \/ Exit(w)
                        \/ Take(w)
                        \/ Run(w)

\* A thread that is inside the pool and not blocked keeps running, and every
\* task returns.  Nobody is obliged to call submit() or shutdown().
Fairness ==
  /\ \A c \in Callers : WF_vars(CallerStep(c))
  /\ \A w \in Workers : WF_vars(WorkerStep(w))

SafeSpec == Init /\ [][Next]_vars

Spec == SafeSpec /\ Fairness

----------------------------------------------------------------------------
(* Properties *)

Running == {w \in Workers : worker[w] = "running"}

ActiveTasks == {current[w] : w \in Running}

Executed == {t \in Tasks : runs[t] # 0}

\* Every variable of the pool has its type, and no worker holds an empty
\* std::function while it is about to call it (line 102 would throw).
TypeOK ==
  /\ tasks \in Seq(Tasks)
  /\ stop \in BOOLEAN
  /\ worker \in [Workers -> WorkerStates]
  /\ current \in [Workers -> Tasks \cup {NoTask}]
  /\ \A w \in Workers : worker[w] = "running" <=> current[w] # NoTask
  /\ caller \in [Callers -> CallerStates]
  /\ offered \subseteq Tasks
  /\ accepted \subseteq offered
  /\ runs \in [Tasks -> Nat]

\* No lost wakeup, although the notifications are sent after the mutex is
\* released: work (or the stop flag) never waits for sleeping workers only.
\* Either some worker is still on its way to the queue, or the thread that
\* created the work is still about to notify; and after notify_all() has run
\* no worker sleeps again.
NoLostWakeup ==
  /\ tasks # <<>> =>
       \/ \E w \in Workers : worker[w] \in {"enter", "running"}
       \/ \E c \in Callers : caller[c] \in {"notify_one", "notify_all"}
  /\ stop =>
       \/ \A w \in Workers : worker[w] # "waiting"
       \/ \E c \in Callers : caller[c] = "notify_all"

\* shutdown() "drain[s] all pending work" (line 73): when the call that set
\* stop_ returns, every task submit() accepted has been executed, exactly
\* once, and no worker is left.
DrainedOnReturn ==
  (\E c \in Callers : caller[c] = "joined") =>
    /\ tasks = <<>>
    /\ \A w \in Workers : worker[w] = "exited"
    /\ \A t \in accepted : runs[t] = 1

Abstract ==
  INSTANCE TaskQueue WITH
    pending <- tasks,
    active  <- ActiveTasks,
    ended   <- Executed,
    open    <- ~stop,
    drained <- \E c \in Callers : caller[c] = "joined"

\* The pool implements the task queue its callers rely on: FIFO start, each
\* accepted task once, nothing accepted after shutdown(), and (with the
\* workers' fairness) every accepted task eventually executed.
ImplementsTaskQueue == Abstract!Spec

\* shutdown() returns: the join loop is not left waiting for a worker that
\* sleeps through the stop flag.
ShutdownReturns ==
  \A c \in Callers : caller[c] = "notify_all" ~> caller[c] = "joined"
=============================================================================
