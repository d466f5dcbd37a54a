------------------------------ MODULE TaskQueue ------------------------------
(***************************************************************************)
(* What ThreadPool promises its callers (src/src/thread_pool.h:28-34,      *)
(* 57-61, 72-75): accepted tasks start in the order they were accepted,    *)
(* each one once; after the pool is closed nothing more is accepted, and   *)
(* the pool reports that it is drained only when every accepted task has   *)
(* ended.  No worker, mutex or condition variable appears here.            *)
(***************************************************************************)
EXTENDS Sequences

CONSTANT Tasks

VARIABLES
  pending,  \* accepted tasks nobody has started, oldest first
  active,   \* tasks that are running
  ended,    \* tasks that have returned
  open,     \* the pool still accepts tasks
  drained   \* the caller that closed the pool has been told it is empty

vars == <<pending, active, ended, open, drained>>

Init ==
  /\ pending = <<>>
  /\ active = {}
  /\ ended = {}
  /\ open = TRUE
  /\ drained = FALSE

Accept(t) ==
  /\ open
  /\ pending' = Append(pending, t)
  /\ UNCHANGED <<active, ended, open, drained>>

Start ==
  /\ pending # <<>>
  /\ Head(pending) \notin active \cup ended
  /\ pending' = Tail(pending)
  /\ active' = active \cup {Head(pending)}
  /\ UNCHANGED <<ended, open, drained>>

End(t) ==
  /\ t \in active
  /\ active' = active \ {t}
  /\ ended' = ended \cup {t}
  /\ UNCHANGED <<pending, open, drained>>

Close ==
  /\ open
  /\ open' = FALSE
  /\ UNCHANGED <<pending, active, ended, drained>>

Drain ==
  /\ ~open
  /\ pending = <<>>
  /\ active = {}
  /\ drained' = TRUE
  /\ UNCHANGED <<pending, active, ended, open>>

Next ==
  \/ \E t \in Tasks : Accept(t) \/ End(t)
  \/ Start
  \/ Close
  \/ Drain

SafeSpec == Init /\ [][Next]_vars

Spec ==
  /\ SafeSpec
  /\ WF_vars(Start)
  /\ \A t \in Tasks : WF_vars(End(t))
=============================================================================
