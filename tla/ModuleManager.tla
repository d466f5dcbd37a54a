---------------------------- MODULE ModuleManager ----------------------------
(***************************************************************************)
(* WasmModuleManager and MetricStore (src/src/wasm_module_manager.cc and   *)
(* .h), composed with the thread pool whose tasks use them and with the    *)
(* life cycle main() gives them (src/src/main.cpp:1437-1512): the module   *)
(* is loaded before the pool exists, and the manager is destroyed after    *)
(* the pool is drained.                                                    *)
(*                                                                         *)
(* The body of a task, one step in ThreadPool, is spelt out here: a        *)
(* request scope is created under a shared lock, the filter's code runs in *)
(* its thread's VM and calls the metric functions, the scope is destroyed. *)
(* The metric store belongs to the module and is shared by all VMs.        *)
(***************************************************************************)
EXTENDS ThreadPool, Integers

CONSTANTS
  Names,     \* names of metrics
  Types,     \* metric types the filters pass (the ABI does not restrict them)
  IdSpace,   \* the number of metric ids (2^32 in the code)
  MaxCalls   \* bound: metric calls of all requests together

ASSUME MetricAssumption ==
  /\ Types \subseteq Nat
  /\ IdSpace \in Nat \ 0..3
  /\ MaxCalls \in Nat

VARIABLES
  loader,    \* where main() is between the creation of the manager and its end
  step,      \* where each worker is in its task
  known,     \* the ids the filter in each worker's VM was given, by name
  metrics_,  \* id -> name, type, value
  next,      \* next_counter_id_, next_gauge_id_, next_histogram_id_
  calls,     \* number of metric calls so far (for the bound)
  due,       \* history: the value each name should have
  wrapped    \* history: an id counter has gone round

metricVars  == <<metrics_, next, calls, due, wrapped>>
managerVars == <<loader, step, known, metricVars>>
allVars     == <<vars, managerVars>>

\* loadModule, in the order of the code, then the life of the manager.
LoaderStates ==
  {"open", "find", "check", "create", "start", "configure", "publish",
   "loaded", "failed", "reset"}

\* "start":      handle_request() has begun
\* "open":       the scope exists, the filter's code runs
\* "unfiltered": there is no scope, no module takes part in the request
TaskSteps == {"none", "start", "open", "unfiltered"}

NoIds == [n \in {} |-> 0]

MInit ==
  /\ Init
  /\ loader = "open"
  /\ step = [w \in Workers |-> "none"]
  /\ known = [w \in Workers |-> NoIds]
  /\ metrics_ = [id \in {} |-> 0]
  /\ next = [k \in 0..2 |-> k]
  /\ calls = 0
  /\ due = [n \in Names |-> 0]
  /\ wrapped = FALSE

----------------------------------------------------------------------------
(* main(): load, serve, drain, release *)

Follows == [open |-> "find", find |-> "check", check |-> "create",
            create |-> "start", start |-> "configure",
            configure |-> "publish"]

\* wasm_module_manager.cc:27-236, up to the publication: the file is read, the
\* name looked up under a shared lock, the bytecode and its ABI version checked,
\* the base VM created, started and configured.
LoadStep ==
  /\ loader \in DOMAIN Follows
  /\ loader' = Follows[loader]
  /\ UNCHANGED <<vars, step, known, metricVars>>

\* Each of these may fail or throw: loadModule returns false, and main() ends
\* before there is a pool (main.cpp:1450-1458).
LoadFails ==
  /\ loader \in DOMAIN Follows
  /\ loader' = "failed"
  /\ UNCHANGED <<vars, step, known, metricVars>>

\* wasm_module_manager.cc:238-249: stored under the unique lock, which nobody
\* else holds: there is no pool yet.
Publish ==
  /\ loader = "publish"
  /\ loader' = "loaded"
  /\ UNCHANGED <<vars, step, known, metricVars>>

\* Faulty variant of ResetManager: released when the loop has ended, before the
\* pool is drained.
ResetBeforeDrain ==
  /\ loader = "loaded"
  /\ stop
  /\ loader' = "reset"
  /\ UNCHANGED <<vars, step, known, metricVars>>

\* main.cpp:1491 and 1510: the thread whose shutdown() call has returned
\* releases the manager, and with it the base VM.
ResetManager ==
  /\ loader = "loaded"
  /\ \E c \in Callers : caller[c] = "joined"
  /\ loader' = "reset"
  /\ UNCHANGED <<vars, step, known, metricVars>>

----------------------------------------------------------------------------
(* A task: handle_request() as far as the manager is concerned *)

\* http_filter.h:131-134 and createRequestScope: the manager is there, the
\* module is found under the shared lock, and RequestScope::init creates a VM
\* clone and a stream context in it.
CreateRequestScope(w) ==
  /\ step[w] = "start"
  /\ loader = "loaded"
  /\ step' = [step EXCEPT ![w] = "open"]
  /\ UNCHANGED <<vars, loader, known, metricVars>>

\* RequestScope::init fails, or there is no manager: the request is handled
\* without the module.
NoScope(w) ==
  /\ step[w] = "start"
  /\ step' = [step EXCEPT ![w] = "unfiltered"]
  /\ UNCHANGED <<vars, loader, known, metricVars>>

----------------------------------------------------------------------------
(* The metric functions, which the filter's code calls when it likes.  Names *)
(* are interchangeable: new ones are taken in a fixed order.                 *)

InVm(w) == step[w] = "open" /\ calls < MaxCalls

\* nextIdForType(), with its fallback.
Kind(type) == IF type <= 2 THEN type ELSE 0

IdOf(name) == {id \in DOMAIN metrics_ : metrics_[id].name = name}

NameChoices ==
  LET new == {n \in Names : IdOf(n) = {}}
  IN  (Names \ new) \cup (IF new = {} THEN {} ELSE {CHOOSE n \in new : TRUE})

\* emplace() keeps the entry there is.
Emplace(id, name, type) ==
  [i \in DOMAIN metrics_ \cup {id} |->
     IF i \in DOMAIN metrics_ THEN metrics_[i]
     ELSE [name |-> name, type |-> type, value |-> 0]]

\* The filter in the worker's VM is given the id of a name.
Learn(w, name, id) ==
  [known EXCEPT ![w] =
     [n \in DOMAIN @ \cup {name} |-> IF n = name THEN id ELSE @[n]]]

\* Faulty variant of Define: the id counter stays where it is.
DefineSameId(w, type, name) ==
  /\ InVm(w)
  /\ IdOf(name) = {}
  /\ metrics_' = Emplace(next[Kind(type)], name, type)
  /\ UNCHANGED <<next, wrapped>>
  /\ known' = Learn(w, name, next[Kind(type)])
  /\ calls' = calls + 1
  /\ UNCHANGED <<vars, loader, step, due>>

\* MetricStore::define under the unique lock: the id of a metric that exists,
\* nothing when it has another type, or the next id of the type.
Define(w, type, name) ==
  /\ InVm(w)
  /\ \/ \E id \in IdOf(name) :
          /\ known' = IF metrics_[id].type = type
                      THEN Learn(w, name, id)
                      ELSE known
          /\ UNCHANGED <<metrics_, next, wrapped>>
     \/ LET k  == Kind(type)
            id == next[k]
        IN
        /\ IdOf(name) = {}
        /\ metrics_' = Emplace(id, name, type)
        /\ next' = [next EXCEPT ![k] = (@ + 4) % IdSpace]
        /\ wrapped' = (wrapped \/ id + 4 >= IdSpace)
        /\ known' = Learn(w, name, id)
  /\ calls' = calls + 1
  /\ UNCHANGED <<vars, loader, step, due>>

\* MetricStore::increment under the shared lock, by one: the filter uses the id
\* it was given for a name.
Increment(w, name) ==
  /\ InVm(w)
  /\ name \in DOMAIN known[w]
  /\ metrics_' = [metrics_ EXCEPT ![known[w][name]].value = @ + 1]
  /\ due' = [due EXCEPT ![name] = @ + 1]
  /\ calls' = calls + 1
  /\ UNCHANGED <<vars, loader, step, known, next, wrapped>>

\* MetricStore::record under the shared lock, of a two: a gauge is replaced,
\* the other types accumulate.
Record(w, name) ==
  /\ InVm(w)
  /\ name \in DOMAIN known[w]
  /\ LET id  == known[w][name]
         new == IF metrics_[id].type = 1 THEN 2 ELSE metrics_[id].value + 2
     IN
     /\ metrics_' = [metrics_ EXCEPT ![id].value = new]
     /\ due' = [due EXCEPT ![name] =
                  IF metrics_[id].type = 1 THEN 2 ELSE @ + 2]
  /\ calls' = calls + 1
  /\ UNCHANGED <<vars, loader, step, known, next, wrapped>>

----------------------------------------------------------------------------
(* The pool's steps.  Its constructor runs after the module is loaded.       *)

PoolExists == loader \in {"loaded", "reset"}

\* The tasks are interchangeable: they are submitted in a fixed order.
SubmitTask(c) ==
  /\ PoolExists
  /\ Tasks # offered
  /\ Submit(c, CHOOSE t \in Tasks \ offered : TRUE)
  /\ UNCHANGED managerVars

ShutdownPool(c) == PoolExists /\ Shutdown(c) /\ UNCHANGED managerVars

PoolStep ==
  /\ PoolExists
  /\ \/ \E c \in Callers : NotifyOne(c) \/ NotifyAll(c) \/ Join(c)
     \/ \E w \in Workers : Block(w) \/ SpuriousWakeup(w) \/ Exit(w)
  /\ UNCHANGED managerVars

TakeTask(w) ==
  /\ PoolExists
  /\ Take(w)
  /\ step' = [step EXCEPT ![w] = "start"]
  /\ UNCHANGED <<loader, known, metricVars>>

\* Faulty variant of EndTask: the scope outlives its task.
EndTaskKeepsScope(w) ==
  /\ step[w] \in {"open", "unfiltered"}
  /\ Run(w)
  /\ UNCHANGED managerVars

\* The filter context is destroyed and with it the scope (onDone, onDelete); the
\* task returns.  The thread's VM may live on, and with it what the filter knows.
EndTask(w) ==
  /\ step[w] \in {"open", "unfiltered"}
  /\ Run(w)
  /\ step' = [step EXCEPT ![w] = "none"]
  /\ UNCHANGED <<loader, known, metricVars>>

TaskStep(w) ==
  \/ CreateRequestScope(w)
  \/ NoScope(w)
  \/ EndTask(w)

MNext ==
  \/ LoadStep
  \/ LoadFails
  \/ Publish
  \/ ResetManager
  \/ PoolStep
  \/ \E c \in Callers : ShutdownPool(c) \/ SubmitTask(c)
  \/ \E w \in Workers :
       \/ TakeTask(w)
       \/ TaskStep(w)
       \/ \E name \in NameChoices :
            \/ \E type \in Types : Define(w, type, name)
            \/ Increment(w, name)
            \/ Record(w, name)

\* The threads inside the pool keep running and the tasks return: a filter's
\* code ends (its metric calls are bounded), and so do creation and destruction
\* of its scope.
MFairness ==
  /\ \A c \in Callers : WF_allVars(PoolExists /\ CallerStep(c)
                                   /\ UNCHANGED managerVars)
  /\ \A w \in Workers :
       WF_allVars(\/ (Block(w) \/ Exit(w)) /\ PoolExists
                       /\ UNCHANGED managerVars
                  \/ TakeTask(w)
                  \/ TaskStep(w))

MSpec == MInit /\ [][MNext]_allVars /\ MFairness

----------------------------------------------------------------------------
(* Properties *)

\* The variables of the pool and of the manager have their types, and a worker
\* has a place in its task exactly while it runs one.
ManagerTypeOK ==
  /\ TypeOK
  /\ loader \in LoaderStates
  /\ step \in [Workers -> TaskSteps]
  /\ \A w \in Workers : worker[w] = "running" <=> step[w] # "none"
  /\ \A w \in Workers : DOMAIN known[w] \subseteq Names
  /\ DOMAIN metrics_ \subseteq 0..(IdSpace - 1)
  /\ \A id \in DOMAIN metrics_ :
       metrics_[id] \in [name : Names, type : Types, value : Nat]
  /\ next \in [0..2 -> 0..(IdSpace - 1)]

\* main() releases the manager after the pool is drained ("tears down base WASM
\* VMs", main.cpp:1509): as long as any worker runs a task the module is loaded,
\* so that no request meets a missing manager, which http_filter.h:131 would
\* pass on unfiltered, and none has its base VM taken away.
ManagerOutlivesTasks ==
  Running # {} => loader = "loaded"

\* What a filter was told a metric's id is stays the id of that metric,
\* whoever defines others meanwhile; a name has one entry; and the values are
\* what the calls of all requests, counted by name, add up to.  Until an id
\* counter goes round: emplace() then leaves the old entry in place and two
\* names share it.
MetricsExact ==
  ~wrapped =>
    /\ \A w \in Workers, n \in Names :
         n \in DOMAIN known[w] =>
           /\ known[w][n] \in DOMAIN metrics_
           /\ metrics_[known[w][n]].name = n
    /\ \A id1, id2 \in DOMAIN metrics_ :
         metrics_[id1].name = metrics_[id2].name => id1 = id2
    /\ \A id \in DOMAIN metrics_ :
         /\ id % 4 = Kind(metrics_[id].type)
         /\ metrics_[id].value = due[metrics_[id].name]
=============================================================================
