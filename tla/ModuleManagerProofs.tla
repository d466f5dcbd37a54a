-------------------------- MODULE ModuleManagerProofs --------------------------
(***************************************************************************)
(* Proofs about the module manager and its metric store on top of those    *)
(* about the pool, for any number of workers, tasks, metrics and calls.    *)
(***************************************************************************)
EXTENDS ModuleManager, ThreadPoolProofs

----------------------------------------------------------------------------
(* The pool within the process *)

\* What the process does to the pool, the pool alone could do.
LEMMA PoolView == TypeOK /\ [MNext]_allVars => [Next]_vars
  <1> SUFFICES ASSUME TypeOK, [MNext]_allVars PROVE [Next]_vars
    OBVIOUS
  <1>1. CASE LoadStep \/ LoadFails \/ Publish \/ ResetManager
    BY <1>1 DEF LoadStep, LoadFails, Publish, ResetManager
  <1>2. CASE PoolStep
    BY <1>2 DEF PoolStep, Next
  <1>3. ASSUME NEW c \in Callers, ShutdownPool(c) PROVE Next
    BY <1>3 DEF ShutdownPool, Next
  <1>4. ASSUME NEW c \in Callers, SubmitTask(c) PROVE Next
    <2>1. (CHOOSE t \in Tasks \ offered : TRUE) \in Tasks
      BY <1>4 DEF SubmitTask, TypeOK
    <2> QED BY <1>4, <2>1 DEF SubmitTask, Next
  <1>5. ASSUME NEW w \in Workers, TakeTask(w) PROVE Next
    BY <1>5 DEF TakeTask, Next
  <1>6. ASSUME NEW w \in Workers, TaskStep(w) PROVE [Next]_vars
    BY <1>6 DEF TaskStep, CreateRequestScope, NoScope, EndTask, Next
  <1>7. ASSUME NEW w \in Workers, NEW type, NEW name,
               Define(w, type, name) \/ Increment(w, name) \/ Record(w, name)
        PROVE  UNCHANGED vars
    BY <1>7 DEF Define, Increment, Record
  <1>8. CASE UNCHANGED allVars
    BY <1>8 DEF allVars
  <1> QED
    BY <1>1, <1>2, <1>3, <1>4, <1>5, <1>6, <1>7, <1>8 DEF MNext

\* The pool's invariant holds in the process.
LEMMA PoolInvHolds == MSpec => []PoolInv
  <1>1. MInit => PoolInv
    BY PoolInitial DEF MInit
  <1>2. PoolInv /\ [MNext]_allVars => PoolInv'
    BY PoolView, PoolInvStep DEF PoolInv
  <1> QED BY <1>1, <1>2, PTL DEF MSpec

\* The process runs the pool as thread_pool.h says.
LEMMA RunsPool == MSpec => SafeSpec
  <1>1. MInit => Init
    BY DEF MInit
  <1>2. PoolInv /\ [MNext]_allVars => [Next]_vars
    BY PoolView DEF PoolInv
  <1> QED BY <1>1, <1>2, PoolInvHolds, PTL DEF MSpec, SafeSpec

\* In the process no wakeup of the pool is lost, from the load of the module to
\* the release of the manager.
THEOREM ProcessWakesUp == MSpec => []NoLostWakeup
  BY RunsPool, PoolWakesUp, PTL

\* The pool_->shutdown() of main() returns with every accepted request handled
\* once.
THEOREM ProcessDrains == MSpec => []DrainedOnReturn
  BY RunsPool, PoolDrains, PTL

\* The pool that runs the requests implements the task queue.
THEOREM ProcessRefinesQueue == MSpec => Abstract!SafeSpec
  BY RunsPool, PoolRefinesQueue, PTL

----------------------------------------------------------------------------
(* Operators *)

\* A name remembered with its id.
LEMMA LearnFacts ==
  ASSUME DOMAIN known = Workers, NEW w \in Workers, NEW name, NEW id
  PROVE  LET new == Learn(w, name, id)
         IN  /\ DOMAIN new = Workers
             /\ \A v \in Workers \ {w} : new[v] = known[v]
             /\ DOMAIN new[w] = DOMAIN known[w] \cup {name}
             /\ new[w][name] = id
             /\ \A n \in DOMAIN known[w] \ {name} : new[w][n] = known[w][n]
  BY DEF Learn

\* An id counter before and when it goes round.
LEMMA IdFacts ==
  ASSUME NEW id \in 0..(IdSpace - 1)
  PROVE  /\ (id + 4) % IdSpace \in 0..(IdSpace - 1)
         /\ id + 4 < IdSpace => (id + 4) % IdSpace = id + 4
         /\ (id + 4) % 4 = id % 4
  BY MetricAssumption

\* A metric type is of one of three classes.
LEMMA KindFacts ==
  ASSUME NEW type \in Types
  PROVE  Kind(type) \in 0..2
  BY MetricAssumption DEF Kind

----------------------------------------------------------------------------
(* The inductive invariant *)

\* There is no task before the module is loaded, and the manager goes after a
\* shutdown() has returned.
LifeInv ==
  /\ loader \notin {"loaded", "reset"} => Running = {}
  /\ loader = "reset" => \E c \in Callers : caller[c] = "joined"

\* The rest of the types; the ids filters were given exist.
MetricType ==
  /\ DOMAIN known = Workers
  /\ due \in [Names -> Nat]
  /\ wrapped \in BOOLEAN
  /\ \A w \in Workers : \A n \in DOMAIN known[w] : known[w][n] \in DOMAIN metrics_

\* Until a counter goes round: the counters stay in their residue classes, every
\* id in use is below the counter of its class, so that the next id is new, and a
\* name nobody defined has no value.
FreshIds ==
  ~wrapped =>
    /\ \A k \in 0..2 : next[k] % 4 = k
    /\ \A id \in DOMAIN metrics_ : id < next[id % 4]
    /\ \A n \in Names : IdOf(n) = {} => due[n] = 0

ManagerInv ==
  /\ PoolInv
  /\ ManagerTypeOK
  /\ LifeInv
  /\ MetricType
  /\ FreshIds
  /\ MetricsExact

\* The first state.
LEMMA ManagerInitial == MInit => ManagerInv
  <1> SUFFICES ASSUME MInit PROVE ManagerInv
    OBVIOUS
  <1>1. PoolInv
    BY PoolInitial DEF MInit
  <1>2. ManagerTypeOK
    <2>1. next \in [0..2 -> 0..(IdSpace - 1)]
      BY MetricAssumption DEF MInit
    <2> QED BY <1>1, <2>1 DEF MInit, Init, ManagerTypeOK, PoolInv,
               LoaderStates, TaskSteps, NoIds
  <1>3. LifeInv
    BY DEF MInit, Init, LifeInv, Running
  <1>4. MetricType /\ FreshIds /\ MetricsExact
    BY DEF MInit, MetricType, FreshIds, MetricsExact, NoIds
  <1> QED BY <1>1, <1>2, <1>3, <1>4 DEF ManagerInv

----------------------------------------------------------------------------
(* The metric functions *)

\* What the metric calls change, apart from the metrics, is nothing.
MetricState == ManagerTypeOK /\ MetricType /\ FreshIds /\ MetricsExact

\* A step that leaves the metrics alone keeps what is said of them.
LEMMA MetricFrame ==
  ASSUME MetricState, UNCHANGED <<known, metrics_, next, due, wrapped>>,
         TypeOK', loader' \in LoaderStates, step' \in [Workers -> TaskSteps],
         \A w \in Workers : worker'[w] = "running" <=> step'[w] # "none"
  PROVE  MetricState'
  BY DEF MetricState, ManagerTypeOK, MetricType, FreshIds, MetricsExact, IdOf

\* Defining a metric: the id is new, or it is the one found.
LEMMA DefineStep ==
  ASSUME MetricState, NEW w \in Workers, NEW type \in Types, NEW name \in Names,
         Define(w, type, name)
  PROVE  MetricState'
  <1> USE DEF MetricState
  <1>1. UNCHANGED <<vars, loader, step, due>> /\ TypeOK'
    BY DEF Define, vars, ManagerTypeOK, TypeOK, WorkerStates, CallerStates
  <1>2. ASSUME NEW id \in IdOf(name),
               known' = IF metrics_[id].type = type THEN Learn(w, name, id) ELSE known,
               UNCHANGED <<metrics_, next, wrapped>>
        PROVE  MetricState'
    <2>1. id \in DOMAIN metrics_ /\ metrics_[id].name = name
      BY <1>2 DEF IdOf
    <2>2. CASE metrics_[id].type # type
      <3>1. UNCHANGED <<known, worker>>
        BY <1>1, <1>2, <2>2 DEF vars
      <3> QED BY <1>1, <1>2, <3>1, MetricFrame DEF ManagerTypeOK
    <2>3. CASE metrics_[id].type = type
      <3>1. /\ DOMAIN known' = Workers
            /\ \A v \in Workers \ {w} : known'[v] = known[v]
            /\ DOMAIN known'[w] = DOMAIN known[w] \cup {name}
            /\ known'[w][name] = id
            /\ \A n \in DOMAIN known[w] \ {name} : known'[w][n] = known[w][n]
        BY <1>2, <2>3, LearnFacts DEF MetricType
      <3>2. ManagerTypeOK'
        BY <1>1, <1>2, <3>1 DEF ManagerTypeOK, vars
      <3>3. MetricType'
        BY <1>1, <1>2, <2>1, <3>1 DEF MetricType
      <3>4. FreshIds'
        BY <1>1, <1>2 DEF FreshIds, IdOf
      <3>5. MetricsExact'
        BY <1>1, <1>2, <2>1, <3>1 DEF MetricsExact
      <3> QED BY <3>2, <3>3, <3>4, <3>5
    <2> QED BY <2>2, <2>3
  <1>3. ASSUME IdOf(name) = {},
               metrics_' = Emplace(next[Kind(type)], name, type),
               next' = [next EXCEPT ![Kind(type)] = (@ + 4) % IdSpace],
               wrapped' = (wrapped \/ next[Kind(type)] + 4 >= IdSpace),
               known' = Learn(w, name, next[Kind(type)])
        PROVE  MetricState'
    <2> DEFINE k == Kind(type)
               id == next[k]
               new == [name |-> name, type |-> type, value |-> 0]
    <2>1. k \in 0..2 /\ id \in 0..(IdSpace - 1)
      BY KindFacts DEF ManagerTypeOK
    <2>2. /\ DOMAIN metrics_' = DOMAIN metrics_ \cup {id}
          /\ \A i \in DOMAIN metrics_ : metrics_'[i] = metrics_[i]
          /\ id \notin DOMAIN metrics_ => metrics_'[id] = new
      BY <1>3 DEF Emplace
    <2>3. /\ DOMAIN known' = Workers
          /\ \A v \in Workers \ {w} : known'[v] = known[v]
          /\ DOMAIN known'[w] = DOMAIN known[w] \cup {name}
          /\ known'[w][name] = id
          /\ \A n \in DOMAIN known[w] \ {name} : known'[w][n] = known[w][n]
      BY <1>3, LearnFacts DEF MetricType
    <2>4. /\ next'[k] = (id + 4) % IdSpace
          /\ \A j \in (0..2) \ {k} : next'[j] = next[j]
          /\ next' \in [0..2 -> 0..(IdSpace - 1)]
      BY <1>3, <2>1, IdFacts DEF ManagerTypeOK
    <2>5. new \in [name : Names, type : Types, value : Nat]
      OBVIOUS
    <2>6. ManagerTypeOK'
      <3>1. \A v \in Workers : DOMAIN known'[v] \subseteq Names
        BY <2>3 DEF ManagerTypeOK
      <3>2. DOMAIN metrics_' \subseteq 0..(IdSpace - 1)
        BY <2>1, <2>2 DEF ManagerTypeOK
      <3>3. \A i \in DOMAIN metrics_' :
              metrics_'[i] \in [name : Names, type : Types, value : Nat]
        BY <2>2, <2>5 DEF ManagerTypeOK
      <3> QED BY <1>1, <2>4, <3>1, <3>2, <3>3 DEF ManagerTypeOK, vars
    <2>7. MetricType'
      <3>1. wrapped' \in BOOLEAN
        BY <1>3 DEF MetricType
      <3> QED BY <1>1, <2>2, <2>3, <3>1 DEF MetricType
    <2>8. CASE wrapped'
      BY <2>6, <2>7, <2>8 DEF FreshIds, MetricsExact
    <2>9. CASE ~wrapped'
      <3>1. ~wrapped /\ id + 4 < IdSpace /\ next'[k] = id + 4
        <4>1. ~wrapped /\ ~(id + 4 >= IdSpace)
          BY <1>3, <2>9
        <4> QED BY <2>1, <2>4, <4>1, IdFacts, MetricAssumption
      <3>2. id % 4 = k /\ (id + 4) % 4 = k
        BY <2>1, <3>1, IdFacts DEF FreshIds
      <3>3. id \notin DOMAIN metrics_
        BY <2>1, <3>1, <3>2 DEF FreshIds, ManagerTypeOK
      <3>4. due[name] = 0
        BY <1>3, <3>1 DEF FreshIds
      <3>5. \A i \in DOMAIN metrics_ : metrics_[i].name # name
        BY <1>3 DEF IdOf
      <3>6. FreshIds'
        <4>1. \A j \in 0..2 : next'[j] % 4 = j
          BY <2>1, <2>4, <3>1, <3>2 DEF FreshIds
        <4>2. ASSUME NEW i \in DOMAIN metrics_' PROVE i < next'[i % 4]
          <5>1. CASE i = id
            BY <2>1, <3>1, <3>2, <5>1
          <5>2. CASE i \in DOMAIN metrics_
            <6>1. /\ i \in 0..(IdSpace - 1) /\ i < next[i % 4]
                  /\ i % 4 = Kind(metrics_[i].type) /\ metrics_[i].type \in Types
              BY <3>1, <5>2 DEF FreshIds, ManagerTypeOK, MetricsExact
            <6>2. i % 4 \in 0..2
              BY <6>1, KindFacts
            <6>3. next'[i % 4] >= next[i % 4]
              BY <2>1, <2>4, <3>1, <6>2 DEF ManagerTypeOK
            <6>4. next[i % 4] \in Int /\ next'[i % 4] \in Int
              BY <2>4, <6>2 DEF ManagerTypeOK
            <6> QED BY <6>1, <6>3, <6>4
          <5> QED BY <2>2, <5>1, <5>2
        <4>3. ASSUME NEW n \in Names, IdOf(n)' = {} PROVE due'[n] = 0
          <5>1. IdOf(n) = {}
            BY <2>2, <4>3 DEF IdOf
          <5> QED BY <1>1, <3>1, <5>1 DEF FreshIds
        <4> QED BY <4>1, <4>2, <4>3 DEF FreshIds
      <3>7. MetricsExact'
        <4>1. ASSUME NEW v \in Workers, NEW n \in Names, n \in DOMAIN known'[v]
              PROVE  /\ known'[v][n] \in DOMAIN metrics_'
                     /\ metrics_'[known'[v][n]].name = n
          <5>1. CASE v = w /\ n = name
            BY <2>2, <2>3, <3>3, <5>1
          <5>2. CASE ~(v = w /\ n = name)
            <6>1. n \in DOMAIN known[v] /\ known'[v][n] = known[v][n]
              BY <2>3, <4>1, <5>2
            <6> QED BY <2>2, <3>1, <6>1 DEF MetricsExact
          <5> QED BY <5>1, <5>2
        <4>2. \A i1, i2 \in DOMAIN metrics_' :
                metrics_'[i1].name = metrics_'[i2].name => i1 = i2
          BY <2>2, <3>1, <3>3, <3>5 DEF MetricsExact
        <4>3. \A i \in DOMAIN metrics_' : i % 4 = Kind(metrics_'[i].type)
          BY <2>2, <3>1, <3>2, <3>3 DEF MetricsExact
        <4>4. \A i \in DOMAIN metrics_' : metrics_'[i].value = due'[metrics_'[i].name]
          BY <1>1, <2>2, <3>1, <3>3, <3>4 DEF MetricsExact
        <4> QED BY <4>1, <4>2, <4>3, <4>4 DEF MetricsExact
      <3> QED BY <2>6, <2>7, <3>6, <3>7
    <2> QED BY <2>8, <2>9
  <1> QED BY <1>2, <1>3 DEF Define

\* Incrementing or recording a metric: one entry and its due value move
\* together.
LEMMA UpdateStep ==
  ASSUME MetricState, NEW w \in Workers, NEW name \in Names,
         Increment(w, name) \/ Record(w, name)
  PROVE  MetricState'
  <1> USE DEF MetricState
  <1> DEFINE id == known[w][name]
  <1>1. UNCHANGED <<vars, loader, step, known, next, wrapped>> /\ TypeOK'
    BY DEF Increment, Record, vars, ManagerTypeOK, TypeOK, WorkerStates,
       CallerStates
  <1>2. id \in DOMAIN metrics_ /\ metrics_[id] \in [name : Names, type : Types, value : Nat]
    BY DEF Increment, Record, MetricType, ManagerTypeOK
  <1>3. PICK v \in Nat :
          /\ metrics_' = [metrics_ EXCEPT ![id].value = v]
          /\ due' \in [Names -> Nat]
          /\ \A n \in Names \ {name} : due'[n] = due[n]
          /\ metrics_[id].value = due[name] => v = due'[name]
    <2>1. CASE Increment(w, name)
      <3>1. metrics_' = [metrics_ EXCEPT ![id].value = metrics_[id].value + 1]
        BY <2>1 DEF Increment
      <3>2. metrics_[id].value + 1 \in Nat
        BY <1>2
      <3>3. /\ due' \in [Names -> Nat]
            /\ \A n \in Names \ {name} : due'[n] = due[n]
            /\ due'[name] = due[name] + 1
        BY <2>1 DEF Increment, MetricType
      <3> QED BY <3>1, <3>2, <3>3
    <2>2. CASE Record(w, name)
      <3> DEFINE new == IF metrics_[id].type = 1 THEN 2 ELSE metrics_[id].value + 2
      <3>1. new \in Nat
        BY <1>2
      <3>2. metrics_' = [metrics_ EXCEPT ![id].value = new]
        BY <2>2 DEF Record
      <3>3. due' = [due EXCEPT ![name] = IF metrics_[id].type = 1 THEN 2 ELSE @ + 2]
        BY <2>2 DEF Record
      <3>4. /\ due' \in [Names -> Nat]
            /\ \A n \in Names \ {name} : due'[n] = due[n]
            /\ metrics_[id].value = due[name] => new = due'[name]
        BY <3>3 DEF MetricType
      <3> QED BY <3>1, <3>2, <3>4
    <2> QED BY <2>1, <2>2
  <1>4. /\ DOMAIN metrics_' = DOMAIN metrics_
        /\ \A i \in DOMAIN metrics_ \ {id} : metrics_'[i] = metrics_[i]
        /\ metrics_'[id] = [metrics_[id] EXCEPT !.value = v]
    BY <1>2, <1>3
  <1>5. /\ metrics_'[id].name = metrics_[id].name
        /\ metrics_'[id].type = metrics_[id].type
        /\ metrics_'[id].value = v
        /\ metrics_'[id] \in [name : Names, type : Types, value : Nat]
    BY <1>2, <1>3, <1>4
  <1>6. ManagerTypeOK'
    BY <1>1, <1>4, <1>5 DEF ManagerTypeOK, vars
  <1>7. MetricType'
    BY <1>1, <1>3, <1>4 DEF MetricType
  <1>8. CASE wrapped
    BY <1>1, <1>6, <1>7, <1>8 DEF FreshIds, MetricsExact
  <1>9. CASE ~wrapped
    <2>1. /\ metrics_[id].name = name
          /\ \A i \in DOMAIN metrics_ : metrics_[i].name = name => i = id
          /\ metrics_[id].value = due[name]
      BY <1>2, <1>9 DEF MetricsExact, Increment, Record
    <2>2. \A i \in DOMAIN metrics_ :
            metrics_'[i].name = metrics_[i].name /\ metrics_'[i].type = metrics_[i].type
      BY <1>4, <1>5
    <2>3. FreshIds'
      <3>1. \A n \in Names : IdOf(n)' = IdOf(n)
        BY <1>4, <2>2 DEF IdOf
      <3>2. IdOf(name) # {}
        BY <1>2, <2>1 DEF IdOf
      <3>3. \A n \in Names : IdOf(n)' = {} => due'[n] = 0
        BY <1>3, <1>9, <3>1, <3>2 DEF FreshIds
      <3> QED BY <1>1, <1>4, <1>9, <3>3 DEF FreshIds
    <2>4. MetricsExact'
      <3>1. ASSUME NEW i \in DOMAIN metrics_
            PROVE  metrics_'[i].value = due'[metrics_'[i].name]
        <4>1. CASE i = id
          BY <1>3, <1>5, <2>1, <4>1
        <4>2. CASE i # id
          <5>1. metrics_[i].name \in Names \ {name}
            BY <2>1, <4>2 DEF ManagerTypeOK
          <5> QED BY <1>3, <1>4, <1>9, <4>2, <5>1 DEF MetricsExact
        <4> QED BY <4>1, <4>2
      <3> QED BY <1>1, <1>4, <1>9, <2>2, <3>1 DEF MetricsExact
    <2> QED BY <1>6, <1>7, <2>3, <2>4
  <1> QED BY <1>8, <1>9 DEF MetricType

----------------------------------------------------------------------------
(* Every step *)

\* Every step keeps the metric maps consistent.
LEMMA MetricStep ==
  PoolInv' /\ MetricState /\ [MNext]_allVars => MetricState'
  <1> SUFFICES ASSUME PoolInv', MetricState, [MNext]_allVars PROVE MetricState'
    OBVIOUS
  <1>1. TypeOK'
    BY DEF PoolInv
  <1>2. CASE LoadStep \/ LoadFails \/ Publish \/ ResetManager
    <2>1. loader' \in LoaderStates /\ UNCHANGED <<vars, step, known, metricVars>>
      BY <1>2 DEF LoadStep, LoadFails, Publish, ResetManager, Follows,
         LoaderStates
    <2> QED BY <1>1, <2>1, MetricFrame DEF vars, metricVars, MetricState,
               ManagerTypeOK
  <1>3. CASE PoolStep \/ \E c \in Callers : ShutdownPool(c) \/ SubmitTask(c)
    <2>1. UNCHANGED managerVars
      BY <1>3 DEF PoolStep, ShutdownPool, SubmitTask
    <2>2. \A w \in Workers : worker'[w] = "running" <=> worker[w] = "running"
      BY <1>3 DEF PoolStep, ShutdownPool, SubmitTask, Submit, Shutdown,
         NotifyOne, NotifyAll, Join, Block, SpuriousWakeup, Exit, MetricState,
         ManagerTypeOK, TypeOK
    <2> QED BY <1>1, <2>1, <2>2, MetricFrame DEF managerVars, metricVars,
               MetricState, ManagerTypeOK
  <1>4. ASSUME NEW w \in Workers, TakeTask(w) PROVE MetricState'
    <2>1. /\ worker' = [worker EXCEPT ![w] = "running"]
          /\ step' = [step EXCEPT ![w] = "start"] /\ UNCHANGED <<loader, known, metricVars>>
      BY <1>4 DEF TakeTask, Take
    <2>2. /\ step' \in [Workers -> TaskSteps]
          /\ \A v \in Workers : worker'[v] = "running" <=> step'[v] # "none"
      BY <2>1 DEF MetricState, ManagerTypeOK, TypeOK, TaskSteps
    <2> QED BY <1>1, <2>1, <2>2, MetricFrame DEF metricVars, MetricState,
               ManagerTypeOK
  <1>5. ASSUME NEW w \in Workers, TaskStep(w) PROVE MetricState'
    <2>1. /\ step' \in [Workers -> TaskSteps]
          /\ \A v \in Workers : worker'[v] = "running" <=> step'[v] # "none"
          /\ UNCHANGED <<loader, known, metricVars>>
      <3>1. CASE CreateRequestScope(w) \/ NoScope(w)
        BY <3>1 DEF CreateRequestScope, NoScope, vars, MetricState,
           ManagerTypeOK, TaskSteps
      <3>2. CASE EndTask(w)
        BY <3>2 DEF EndTask, Run, MetricState, ManagerTypeOK, TypeOK, TaskSteps
      <3> QED BY <1>5, <3>1, <3>2 DEF TaskStep
    <2> QED BY <1>1, <2>1, MetricFrame DEF metricVars, MetricState,
               ManagerTypeOK
  <1>6. ASSUME NEW w \in Workers, NEW name \in NameChoices, NEW type \in Types,
               Define(w, type, name)
        PROVE  MetricState'
    <2>1. name \in Names
      BY DEF NameChoices
    <2> QED BY <1>6, <2>1, DefineStep
  <1>7. ASSUME NEW w \in Workers, NEW name \in NameChoices,
               Increment(w, name) \/ Record(w, name)
        PROVE  MetricState'
    <2>1. name \in Names
      BY DEF NameChoices
    <2> QED BY <1>7, <2>1, UpdateStep
  <1>8. CASE UNCHANGED allVars
    BY <1>1, <1>8, MetricFrame DEF allVars, vars, managerVars, metricVars,
       MetricState, ManagerTypeOK
  <1> QED BY <1>2, <1>3, <1>4, <1>5, <1>6, <1>7, <1>8 DEF MNext

\* Every step keeps the manager alive while a task runs.
LEMMA LifeStep ==
  PoolInv /\ PoolInv' /\ LifeInv /\ [MNext]_allVars => LifeInv'
  <1> SUFFICES ASSUME PoolInv, PoolInv', LifeInv, [MNext]_allVars PROVE LifeInv'
    OBVIOUS
  <1>1. \A c \in Callers : caller[c] = "joined" => caller'[c] = "joined"
    <2>1. [Next]_vars
      BY PoolView DEF PoolInv
    <2>2. ASSUME NEW c \in Callers, NEW t \in Tasks, Submit(c, t)
          PROVE  \A d \in Callers : caller[d] = "joined" => caller'[d] = "joined"
      BY <2>2 DEF Submit, PoolInv, TypeOK, ExitInv
    <2>3. ASSUME NEW c \in Callers, Shutdown(c)
          PROVE  \A d \in Callers : caller[d] = "joined" => caller'[d] = "joined"
      BY <2>3 DEF Shutdown, PoolInv, TypeOK, ExitInv
    <2>4. ASSUME NEW c \in Callers, NotifyOne(c) \/ NotifyAll(c) \/ Join(c)
          PROVE  \A d \in Callers : caller[d] = "joined" => caller'[d] = "joined"
      BY <2>4 DEF NotifyOne, NotifyAll, Join, PoolInv, TypeOK
    <2>5. ASSUME NEW w \in Workers, Block(w) \/ SpuriousWakeup(w) \/ Exit(w) \/ Take(w) \/ Run(w)
          PROVE  UNCHANGED caller
      BY <2>5 DEF Block, SpuriousWakeup, Exit, Take, Run
    <2> QED BY <2>1, <2>2, <2>3, <2>4, <2>5 DEF Next, vars
  <1>2. CASE LoadStep \/ LoadFails \/ Publish \/ ResetManager
    BY <1>1, <1>2 DEF LoadStep, LoadFails, Publish, ResetManager, LifeInv,
       Follows, Running, vars
  <1>3. CASE UNCHANGED loader
    <2>1. loader \notin {"loaded", "reset"} => Running' \subseteq Running
      <3> SUFFICES ASSUME loader \notin {"loaded", "reset"} PROVE Running' \subseteq Running
        OBVIOUS
      <3>1. ASSUME NEW w \in Workers, TaskStep(w) PROVE Running' \subseteq Running
        BY <3>1 DEF TaskStep, CreateRequestScope, NoScope, EndTask, Run,
           Running, vars, PoolInv, TypeOK
      <3>2. ASSUME NEW w \in Workers, NEW type, NEW name,
                   Define(w, type, name) \/ Increment(w, name) \/ Record(w, name)
            PROVE  UNCHANGED vars
        BY <3>2 DEF Define, Increment, Record
      <3>3. UNCHANGED vars => Running' \subseteq Running
        BY DEF vars, Running
      <3> QED BY <3>1, <3>2, <3>3 DEF MNext, LoadStep, LoadFails, Publish,
                 ResetManager, PoolStep, ShutdownPool, SubmitTask, TakeTask,
                 PoolExists, allVars
    <2> QED BY <1>1, <1>3, <2>1 DEF LifeInv
  <1>4. \/ LoadStep \/ LoadFails \/ Publish \/ ResetManager
        \/ UNCHANGED loader
    BY DEF MNext, PoolStep, ShutdownPool, SubmitTask, TakeTask, TaskStep,
       CreateRequestScope, NoScope, EndTask, Define, Increment, Record,
       managerVars, allVars
  <1> QED BY <1>2, <1>3, <1>4

----------------------------------------------------------------------------
(* Theorems *)

\* The process keeps the invariant.
THEOREM ManagerInvariant == MSpec => []ManagerInv
  <1>1. ManagerInv /\ [MNext]_allVars => ManagerInv'
    <2> SUFFICES ASSUME ManagerInv, [MNext]_allVars PROVE ManagerInv'
      OBVIOUS
    <2>1. PoolInv'
      BY PoolView, PoolInvStep DEF ManagerInv, PoolInv
    <2>2. MetricState'
      BY <2>1, MetricStep DEF ManagerInv, MetricState
    <2>3. LifeInv'
      BY <2>1, LifeStep DEF ManagerInv
    <2> QED BY <2>1, <2>2, <2>3 DEF ManagerInv, MetricState
  <1> QED BY <1>1, ManagerInitial, PTL DEF MSpec

\* Pool, manager and metric store keep their types, and a worker is in a task
\* exactly while it runs one.
THEOREM ManagerTypeCorrect == MSpec => []ManagerTypeOK
  <1>1. ManagerInv => ManagerTypeOK
    BY DEF ManagerInv
  <1> QED BY <1>1, ManagerInvariant, PTL

\* main() releases the manager (main.cpp:1510) when no request can be using it.
THEOREM ManagerOutlives == MSpec => []ManagerOutlivesTasks
  <1>1. ManagerInv => ManagerOutlivesTasks
    BY PoolAssumption DEF ManagerInv, LifeInv, ManagerOutlivesTasks, Running,
       PoolInv, ExitInv
  <1> QED BY <1>1, ManagerInvariant, PTL

\* However many filters define and update metrics at once, ids stay those of
\* their names and no update is lost, until an id counter goes round.
THEOREM MetricsAreExact == MSpec => []MetricsExact
  <1>1. ManagerInv => MetricsExact
    BY DEF ManagerInv
  <1> QED BY <1>1, ManagerInvariant, PTL

=============================================================================
