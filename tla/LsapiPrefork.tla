----------------------------- MODULE LsapiPrefork -----------------------------
(***************************************************************************)
(* The prefork server of the LSAPI library (src/src/lsapilib.c:2763-3365,  *)
(* 3572-3746): a parent that forks a child for a connection when no child  *)
(* is there to accept it, children that serve connections and accept the   *)
(* next one themselves, and the table and the counters they share.         *)
(*                                                                         *)
(* lsapi_sigchild() interrupts the parent at any point outside the section *)
(* in which SIGCHLD is blocked.  Every access of a child to the shared     *)
(* memory is a step of its own, and a child may die between any two steps. *)
(* Times are choices: whether a second has gone by, whether a child has    *)
(* waited or worked too long.                                              *)
(***************************************************************************)
EXTENDS Integers, FiniteSets

CONSTANTS
  Pids,             \* process ids; an id is used again after waitpid()
  MaxChildren,      \* m_iMaxChildren
  ExtraChildren,    \* m_iExtraChildren
  MaxIdleChildren,  \* m_iMaxIdleChildren
  KillLimit,        \* m_iKillSent beyond which SIGKILL is sent, lsapilib.c:3078
  MaxBacklog,       \* the backlog of the listen socket
  MaxTorn           \* bound: children that die between two updates

Limit == MaxChildren + ExtraChildren
Slots == 1..Limit

ASSUME PreforkAssumption ==
  /\ IsFiniteSet(Pids) /\ Cardinality(Pids) >= Limit
  /\ 0 \notin Pids /\ -1 \notin Pids
  /\ MaxChildren \in Nat \ {0, 1}
  /\ {ExtraChildren, KillLimit, MaxTorn} \subseteq Nat
  /\ {MaxIdleChildren, MaxBacklog} \subseteq Nat \ {0}

VARIABLES
  \* shared memory
  table,          \* m_pChildrenStatus
  busy,           \* s_busy_workers
  accepting,      \* s_accepting_workers
  \* the parent
  parent,         \* where it is
  cur,            \* m_iCurChildren
  statusCur,      \* m_pChildrenStatusCur
  check,          \* the local variables of lsapi_check_child_status()
  forking,        \* child_status and pid in lsapi_prefork_server_accept()
  s_stop,         \* set by a signal the parent has sent to itself
  \* the children
  life,           \* none, alive, or zombie until waitpid()
  at,             \* where a child is, or was when it died
  slot,           \* s_worker_status
  processed,      \* s_req_processed > 0
  \* the listen socket, and history
  backlog,        \* connections nobody has accepted
  torn            \* children reaped that had died between two updates, by counter

parentVars == <<parent, cur, statusCur, check, forking, s_stop>>
childVars  == <<life, at, slot, processed>>
vars == <<table, busy, accepting, parentVars, childVars, backlog, torn>>

FreeSlot == [pid |-> 0, iKillSent |-> 0, inProcess |-> FALSE, state |-> "IDLE"]
NoCheck == [i |-> 0, last |-> 0, idle |-> 0, dying |-> 0, sig |-> "none"]

Init ==
  /\ table = [s \in Slots |-> FreeSlot]
  /\ busy = 0 /\ accepting = 0
  /\ parent = "top" /\ cur = 0 /\ statusCur = 0
  /\ check = NoCheck
  /\ forking = [slot |-> 0, pid |-> 0]
  /\ s_stop = FALSE
  /\ life = [p \in Pids |-> "none"]
  /\ at = [p \in Pids |-> "none"]
  /\ slot = [p \in Pids |-> 0]
  /\ processed = [p \in Pids |-> FALSE]
  /\ backlog = 0
  /\ torn = [busy |-> 0, accepting |-> 0]

----------------------------------------------------------------------------
(* The clients and the operating system *)

Connect ==
  /\ backlog < MaxBacklog
  /\ backlog' = backlog + 1
  /\ UNCHANGED <<table, busy, accepting, parentVars, childVars, torn>>

\* A child has changed its state and not yet the counter, or the other way
\* round.
TornBusy(p) == at[p] \in {"connecting", "closing"}
TornAccepting(p) == at[p] \in {"announced", "back_ready", "back_timeout"}

MayTear(p) == TornBusy(p) \/ TornAccepting(p) =>
                torn.busy + torn.accepting < MaxTorn

\* A child crashes or is killed.  What it held is closed by the kernel.
Dies(p) ==
  /\ life[p] = "alive"
  /\ MayTear(p)
  /\ life' = [life EXCEPT ![p] = "zombie"]
  /\ processed' = [processed EXCEPT ![p] = FALSE]
  /\ UNCHANGED <<at, slot>>

ChildDies(p) ==
  /\ Dies(p)
  /\ UNCHANGED <<table, busy, accepting, parentVars, backlog, torn>>

----------------------------------------------------------------------------
(* lsapi_sigchild, lsapilib.c:2912-2972 *)

\* SIGCHLD is blocked around fork(), lsapilib.c:3276-3282, 3348.  The faulty
\* variant does not block it.
NotBlocked == FALSE
Blocked == parent = "record"

SlotsOf(pid) == {s \in Slots : table[s].pid = pid}

\* lsapilib.c:2950-2964: what a child that is gone had counted is taken back.
\* One faulty variant does it for connections only, the other one leaves the
\* process id in the table.
ReleaseConnected(s) ==
  /\ table' = [table EXCEPT ![s].pid = 0, ![s].state = "IDLE"]
  /\ busy' = busy - IF table[s].state = "CONNECTED" THEN 1 ELSE 0
  /\ UNCHANGED accepting
ReleaseKeepsPid(s) ==
  /\ table' = [table EXCEPT ![s].state = "IDLE"]
  /\ busy' = busy - IF table[s].state = "CONNECTED" THEN 1 ELSE 0
  /\ accepting' = accepting - IF table[s].state = "ACCEPTING" THEN 1 ELSE 0
Release(s) ==
  /\ table' = [table EXCEPT ![s].pid = 0, ![s].state = "IDLE"]
  /\ busy' = busy - IF table[s].state = "CONNECTED" THEN 1 ELSE 0
  /\ accepting' = accepting - IF table[s].state = "ACCEPTING" THEN 1 ELSE 0

\* lsapilib.c:2968-2970: the slots behind the last one in use are cut off.
Shrunk(t, n) ==
  CHOOSE k \in 0..n : /\ \A s \in (k + 1)..n : t[s].pid = 0
                      /\ k > 0 => t[k].pid # 0

\* lsapilib.c:2965; the faulty variant forgets it.
OneLessForgotten == cur
OneLess == cur - 1

\* One round of the loop, and the end of it.  (Children are not stopped by job
\* control, which WUNTRACED would report as well.)
lsapi_sigchild(p) ==
  /\ life[p] = "zombie"
  /\ parent # "exited" /\ ~Blocked
  /\ IF SlotsOf(p) # {}
     THEN LET s == CHOOSE s \in SlotsOf(p) : \A r \in SlotsOf(p) : s <= r IN
          /\ Release(s)
          /\ cur' = OneLess
     ELSE UNCHANGED <<table, busy, accepting, cur>>
  /\ statusCur' = Shrunk(table', statusCur)
  /\ life' = [life EXCEPT ![p] = "none"]
  /\ torn' = [torn EXCEPT !.busy = @ + IF TornBusy(p) THEN 1 ELSE 0,
                          !.accepting = @ + IF TornAccepting(p) THEN 1 ELSE 0]
  /\ at' = [at EXCEPT ![p] = "none"]
  /\ slot' = [slot EXCEPT ![p] = 0]
  /\ UNCHANGED <<parent, check, forking, s_stop, processed, backlog>>

----------------------------------------------------------------------------
(* The loop of lsapi_prefork_server_accept, lsapilib.c:3194-3359 *)

\* lsapilib.c:3200-3206: once a second the children are checked.
Top ==
  /\ parent = "top" /\ ~s_stop
  /\ \/ /\ parent' = "wait"
        /\ UNCHANGED check
     \/ /\ parent' = "check"
        /\ check' = [NoCheck EXCEPT !.i = 1, !.last = statusCur]
  /\ UNCHANGED <<table, busy, accepting, cur, statusCur, forking, s_stop,
                 childVars, backlog, torn>>

\* lsapilib.c:3194, 3204-3217, 3360-3363: a signal had set s_stop (lsapi_cleanup,
\* lsapilib.c:2862-2865), which is looked at only here, the web server is gone,
\* or there was nothing to do for too long; or accept() failed (lsapilib.c:
\* 3352-3357).  The children go on.
Exit ==
  /\ parent \in {"top", "accept"}
  /\ parent' = "exited"
  /\ UNCHANGED <<table, busy, accepting, cur, statusCur, check, forking, s_stop,
                 childVars, backlog, torn>>

\* ++m_iKillSent; nothing tells values beyond KillLimit apart.
KillSent(k) == IF k > KillLimit THEN k ELSE k + 1

\* lsapilib.c:3052-3054.
TooMany == \/ cur - check.dying > MaxChildren
           \/ check.idle > MaxIdleChildren

\* One slot of lsapi_check_child_status, lsapilib.c:3044-3108, up to the call of
\* kill().  A child without a request is asked to leave, one that works for too
\* long is to be killed.
CheckSlot ==
  LET i == check.i
      used == table[i].pid \notin {0, -1}
  IN
  /\ parent = "check" /\ i <= check.last
  /\ \/ /\ ~used
        /\ check' = [check EXCEPT !.i = @ + 1]
        /\ UNCHANGED <<table, parent>>
     \/ \E waited \in BOOLEAN :
          /\ used /\ ~table[i].inProcess
          /\ table' = [table EXCEPT
               ![i].iKillSent = IF TooMany \/ waited THEN KillSent(@) ELSE @]
          /\ check' = [check EXCEPT
               !.i = @ + 1,
               !.idle = @ + IF table'[i].iKillSent = 0 THEN 1 ELSE 0]
          /\ UNCHANGED parent
     \/ \E late \in BOOLEAN :
          /\ used /\ table[i].inProcess
          /\ check' = IF late
                      THEN [check EXCEPT !.sig =
                              IF table[i].iKillSent > KillLimit THEN "KILL"
                                                                ELSE "TERM"]
                      ELSE [check EXCEPT !.i = @ + 1]
          /\ parent' = IF late THEN "kill" ELSE "check"
          /\ UNCHANGED table
  /\ UNCHANGED <<busy, accepting, cur, statusCur, forking, s_stop, childVars,
                 backlog, torn>>

\* kill(), lsapilib.c:3092-3105: m_pid is read again.  SIGTERM sets a flag in the
\* child (main.cpp:1013-1021), after which it leaves one way or another.
KillChild ==
  LET pid == table[check.i].pid IN
  /\ parent = "kill" /\ pid # 0
  /\ IF check.sig = "KILL" /\ life[pid] = "alive"
     THEN Dies(pid)
     ELSE UNCHANGED childVars
  /\ table' = [table EXCEPT ![check.i].iKillSent = KillSent(@)]
  /\ check' = [check EXCEPT !.i = @ + 1, !.dying = @ + 1, !.sig = "none"]
  /\ parent' = "check"
  /\ UNCHANGED <<busy, accepting, cur, statusCur, forking, s_stop, backlog, torn>>

\* lsapi_sigchild() came before m_pid was read again, and kill(0) goes to the process group, of
\* which only the parent is left.
KillGroup ==
  /\ parent = "kill" /\ table[check.i].pid = 0
  /\ parent' = IF check.sig = "KILL" THEN "exited" ELSE "check"
  /\ s_stop' = TRUE
  /\ table' = [table EXCEPT ![check.i].iKillSent = KillSent(@)]
  /\ check' = [check EXCEPT !.i = @ + 1, !.dying = @ + 1, !.sig = "none"]
  /\ UNCHANGED <<busy, accepting, cur, statusCur, forking, childVars, backlog,
                 torn>>

\* lsapilib.c:3094-3099: lsapi_sigchild() came when m_pid had been read, and
\* kill() answers ESRCH.  The slot has been emptied already.
KillGone ==
  /\ parent = "kill" /\ table[check.i].pid = 0
  /\ parent' = "check"
  /\ check' = [check EXCEPT !.i = @ + 1, !.sig = "none"]
  /\ UNCHANGED <<table, busy, accepting, cur, statusCur, forking, s_stop,
                 childVars, backlog, torn>>

CheckDone ==
  /\ parent = "check" /\ check.i > check.last
  /\ parent' = "wait"
  /\ check' = NoCheck
  /\ UNCHANGED <<table, busy, accepting, cur, statusCur, forking, s_stop,
                 childVars, backlog, torn>>

\* lsapilib.c:3258-3259; the faulty variant is off by one.
AtLimitOff == cur > Limit
AtLimit == cur >= Limit

\* select() and the decision whether to fork, lsapilib.c:3226-3268.
Select ==
  /\ parent = "wait"
  /\ parent' = IF backlog > 0 /\ ~(cur > 0 /\ accepting > 0) /\ ~AtLimit
               THEN "accept" ELSE "top"
  /\ UNCHANGED <<table, busy, accepting, cur, statusCur, check, forking, s_stop,
                 childVars, backlog, torn>>

\* lsapilib.c:3270, 3352-3355: a child may have been faster.
Accept ==
  /\ parent = "accept"
  /\ IF backlog > 0
     THEN parent' = "find" /\ backlog' = backlog - 1
     ELSE parent' = "top" /\ UNCHANGED backlog
  /\ UNCHANGED <<table, busy, accepting, cur, statusCur, check, forking, s_stop,
                 childVars, torn>>

\* find_child_status(0), lsapilib.c:2868-2888, 3274.
FindSlot ==
  /\ parent = "find"
  /\ parent' = "fork"
  /\ IF SlotsOf(0) # {}
     THEN LET s == CHOOSE s \in SlotsOf(0) : \A r \in SlotsOf(0) : s <= r IN
          /\ table' = [table EXCEPT ![s] = [FreeSlot EXCEPT !.pid = -1]]
          /\ statusCur' = IF s > statusCur THEN s ELSE statusCur
          /\ forking' = [slot |-> s, pid |-> 0]
     ELSE /\ forking' = [slot |-> 0, pid |-> 0]
          /\ UNCHANGED <<table, statusCur>>
  /\ UNCHANGED <<busy, accepting, cur, check, s_stop, childVars, backlog, torn>>

\* fork(), lsapilib.c:3284-3300.
Fork ==
  /\ parent = "fork"
  /\ \E p \in Pids :
       /\ life[p] = "none"
       /\ life' = [life EXCEPT ![p] = "alive"]
       /\ at' = [at EXCEPT ![p] = "accepted"]
       /\ slot' = [slot EXCEPT ![p] = forking.slot]
       /\ forking' = [forking EXCEPT !.pid = p]
  /\ parent' = "record"
  /\ UNCHANGED <<table, busy, accepting, cur, statusCur, check, s_stop,
                 processed, backlog, torn>>

\* lsapilib.c:3329-3334.
ForkFails ==
  /\ parent = "fork"
  /\ table' = [table EXCEPT ![forking.slot].pid = 0]
  /\ forking' = [slot |-> 0, pid |-> 0]
  /\ parent' = "top"
  /\ UNCHANGED <<busy, accepting, cur, statusCur, check, s_stop, childVars,
                 backlog, torn>>

\* lsapilib.c:3335-3349.
Record ==
  /\ parent = "record"
  /\ cur' = cur + 1
  /\ table' = [table EXCEPT ![forking.slot].pid = forking.pid]
  /\ forking' = [slot |-> 0, pid |-> 0]
  /\ parent' = "top"
  /\ UNCHANGED <<busy, accepting, statusCur, check, s_stop, childVars, backlog,
                 torn>>

----------------------------------------------------------------------------
(* A child: lsapilib.c:3286-3328, 420-430, and LSAPI_Prefork_Accept_r,        *)
(* lsapilib.c:3583-3744                                                       *)

Moves(p, from, to) ==
  /\ life[p] = "alive" /\ at[p] = from
  /\ at' = [at EXCEPT ![p] = to]
  /\ UNCHANGED <<life, slot, parentVars, torn>>

\* m_iKillSent counts only after the first request, lsapilib.c:3627-3629.
AskedToLeave(p) == processed[p] /\ table[slot[p]].iKillSent > 0

\* It has a connection: lsapilib.c:3301-3304, 3696-3700.
SetConnected(p) ==
  /\ Moves(p, "accepted", "connecting")
  /\ table' = [table EXCEPT ![slot[p]].state = "CONNECTED"]
  /\ UNCHANGED <<busy, accepting, processed, backlog>>

CountBusy(p) ==
  /\ Moves(p, "connecting", "connected")
  /\ busy' = busy + 1
  /\ UNCHANGED <<table, accepting, processed, backlog>>

\* lsapilib.c:3728-3739: a request on the connection.
Request(p) ==
  /\ ~AskedToLeave(p)
  /\ Moves(p, "connected", "handling")
  /\ table' = [table EXCEPT ![slot[p]].iKillSent = 0,
                            ![slot[p]].inProcess = TRUE]
  /\ processed' = [processed EXCEPT ![p] = TRUE]
  /\ UNCHANGED <<busy, accepting, backlog>>

\* LSAPI_Finish_r() keeps the connection.
Finish(p) ==
  /\ Moves(p, "handling", "connected")
  /\ UNCHANGED <<table, busy, accepting, processed, backlog>>

\* lsapilib.c:3652-3678, a second without a request on the connection.
NoRequest(p) ==
  /\ Moves(p, "connected", "connected")
  /\ ~AskedToLeave(p) /\ table[slot[p]].inProcess
  /\ table' = [table EXCEPT ![slot[p]].inProcess = FALSE]
  /\ UNCHANGED <<busy, accepting, processed, backlog>>

\* lsapi_close_connection: closed by the other side, or a write has failed, or
\* too many workers are busy (lsapilib.c:3591-3599).
CloseCount(p) ==
  /\ \/ Moves(p, "connected", "closing")
     \/ Moves(p, "handling", "closing")
  /\ busy' = busy - 1
  /\ UNCHANGED <<table, accepting, processed, backlog>>

CloseState(p) ==
  /\ Moves(p, "closing", "idle")
  /\ table' = [table EXCEPT ![slot[p]].state = "IDLE"]
  /\ UNCHANGED <<busy, accepting, processed, backlog>>

\* lsapilib.c:3634-3641.
Announce(p) ==
  /\ ~AskedToLeave(p)
  /\ Moves(p, "idle", "announced")
  /\ table' = [table EXCEPT ![slot[p]].state = "ACCEPTING"]
  /\ UNCHANGED <<busy, accepting, processed, backlog>>

CountAccepting(p) ==
  /\ Moves(p, "announced", "selecting")
  /\ accepting' = accepting + 1
  /\ UNCHANGED <<table, busy, processed, backlog>>

\* select() returns, lsapilib.c:3642-3646: one child wakes up or all.
SelectReturns(p) ==
  /\ Moves(p, "selecting", IF backlog > 0 THEN "back_ready" ELSE "back_timeout")
  /\ accepting' = accepting - 1
  /\ UNCHANGED <<table, busy, processed, backlog>>

\* lsapilib.c:3647-3656.
BackReady(p) ==
  /\ Moves(p, "back_ready", "ready")
  /\ table' = [table EXCEPT ![slot[p]].state = "IDLE"]
  /\ UNCHANGED <<busy, accepting, processed, backlog>>

BackTimeout(p) ==
  /\ Moves(p, "back_timeout", "idle")
  /\ table' = [table EXCEPT ![slot[p]].state = "IDLE",
                            ![slot[p]].inProcess = FALSE]
  /\ UNCHANGED <<busy, accepting, processed, backlog>>

\* lsapilib.c:3691-3694, 3715-3718.
ChildAccept(p) ==
  /\ ~AskedToLeave(p)
  /\ IF backlog > 0
     THEN Moves(p, "ready", "accepted") /\ backlog' = backlog - 1
     ELSE Moves(p, "ready", "idle") /\ UNCHANGED backlog
  /\ UNCHANGED <<table, busy, accepting, processed>>

\* The loop ends and the process with it: asked to leave, even after select()
\* has reported a connection (lsapilib.c:3688-3690), idle for too long, the
\* parent is gone, its share of requests handled, or no listen socket.
Leave(p) ==
  /\ life[p] = "alive"
  /\ at[p] \in {"connected", "idle"} \/ (at[p] = "ready" /\ AskedToLeave(p))
  /\ life' = [life EXCEPT ![p] = "zombie"]
  /\ processed' = [processed EXCEPT ![p] = FALSE]
  /\ UNCHANGED <<table, busy, accepting, parentVars, at, slot, backlog, torn>>

----------------------------------------------------------------------------

Parent ==
  \/ Top \/ CheckSlot \/ KillChild \/ KillGroup \/ KillGone \/ CheckDone
  \/ Select \/ Accept \/ FindSlot \/ Fork \/ ForkFails \/ Record

Child(p) ==
  \/ SetConnected(p) \/ CountBusy(p) \/ Request(p) \/ Finish(p) \/ NoRequest(p)
  \/ CloseCount(p) \/ CloseState(p) \/ Announce(p) \/ CountAccepting(p)
  \/ SelectReturns(p) \/ BackReady(p) \/ BackTimeout(p) \/ ChildAccept(p)
  \/ Leave(p)

Next ==
  \/ Connect \/ Exit \/ Parent
  \/ \E p \in Pids : lsapi_sigchild(p) \/ Child(p) \/ ChildDies(p)

SafeSpec == Init /\ [][Next]_vars

\* The parent and each child are scheduled, SIGCHLD is delivered, and the web
\* server does not keep a connection for ever.
Fairness ==
  /\ WF_vars(Parent \/ (s_stop /\ Exit))
  /\ \A p \in Pids : /\ WF_vars(Child(p))
                     /\ WF_vars(lsapi_sigchild(p))
                     /\ SF_vars(CloseCount(p))

Spec == SafeSpec /\ Fairness

----------------------------------------------------------------------------
(* Properties *)

\* lsapi_child_status, lsapilib.c:112-126.
ChildStatus == [pid : Pids \cup {0, -1},
                iKillSent : 0..(KillLimit + 1),
                inProcess : BOOLEAN,
                state : {"IDLE", "CONNECTED", "ACCEPTING"}]

\* Every variable has its type; m_iCurChildren stays within the limit.
TypeOK ==
  /\ table \in [Slots -> ChildStatus]
  /\ busy \in Int /\ accepting \in Int
  /\ parent \in {"top", "check", "kill", "wait", "accept", "find", "fork",
                 "record", "exited"}
  /\ cur \in 0..Limit
  /\ statusCur \in 0..Limit
  /\ check \in [i : 0..(Limit + 1), last : 0..Limit, idle : 0..Limit,
                dying : 0..Limit, sig : {"none", "TERM", "KILL"}]
  /\ forking \in [slot : 0..Limit, pid : Pids \cup {0}]
  /\ s_stop \in BOOLEAN
  /\ life \in [Pids -> {"none", "alive", "zombie"}]
  /\ at \in [Pids -> {"none", "accepted", "connecting", "connected", "handling",
                      "closing", "idle", "announced", "selecting", "back_ready",
                      "back_timeout", "ready"}]
  /\ slot \in [Pids -> 0..Limit]
  /\ processed \in [Pids -> BOOLEAN]
  /\ backlog \in 0..MaxBacklog
  /\ torn \in [busy : Nat, accepting : Nat]

Children == {p \in Pids : life[p] # "none"}

\* Children that are on the books: all but the one that is being forked.
Recorded == Children \ {forking.pid}

\* The table knows the children whatever the order of fork(), death and signal:
\* m_iCurChildren counts them, each has the slot its s_worker_status points to
\* under its own process id and shares it with nobody, no slot names a process
\* that was reaped, and the check of the children reaches every slot in use.
ChildrenTracked ==
  /\ cur = Cardinality(Recorded)
  /\ \A p \in Recorded : slot[p] \in Slots /\ table[slot[p]].pid = p
  /\ \A p, q \in Children : p # q => slot[p] # slot[q]
  /\ \A s \in Slots : table[s].pid \in Recorded \cup {0, -1}
  /\ \A s \in Slots : table[s].pid # 0 => s <= statusCur

\* There is always a slot for the child that is forked (the child uses it
\* without a test, lsapilib.c:3296-3301), and never are there more children than
\* the two limits allow, those that wait for waitpid() included.
RoomForChild ==
  /\ parent \in {"fork", "record"} => forking.slot # 0
  /\ Cardinality(Children) <= Limit

CountedBusy == {p \in Children : at[p] \in {"connected", "handling"}}
CountedAccepting == {p \in Children : at[p] = "selecting"}

\* The shared counters are the numbers of children that are connected and that
\* wait in select(), also when children die with a connection or in select(),
\* less the children that died between two updates.  So they are never too
\* high, and the parent does not leave a connection to children that are not
\* there.
CountersExact ==
  /\ busy = Cardinality(CountedBusy) - torn.busy
  /\ accepting = Cardinality(CountedAccepting) - torn.accepting

\* A connection at the end of a full backlog gets in, whichever of the parent
\* and the children are there to accept it, as long as there is a parent: they
\* do not leave it to each other for ever.
ConnectionAccepted ==
  backlog = MaxBacklog ~> (backlog < MaxBacklog \/ parent = "exited")
=============================================================================
