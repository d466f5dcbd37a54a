----------------------------- MODULE HttpServer -----------------------------
(***************************************************************************)
(* The HTTP server as a process (src/src/main.cpp:187-711, 1013-1021,      *)
(* 1460-1512): start of the listener, the event loop over all connections, *)
(* the worker pool behind it, the signal handler and the shutdown          *)
(* sequence; and the socket file that instances of the program share.      *)
(*                                                                         *)
(* What happens on one connection, byte by byte and lock by lock, is in    *)
(* Connection; here a request is at most two pieces (headers, body), a     *)
(* response one or two, and each branch of the loop is one action.  What   *)
(* is detailed is what connections do to each other: batches of events,    *)
(* descriptor numbers used again, one eventfd and one queue for all, and   *)
(* a worker that waits for a client that does not read.                    *)
(***************************************************************************)
EXTENDS Naturals, Sequences, FiniteSets

CONSTANTS
  Clients,     \* each one connects at most once
  WithBody,    \* those whose request has a body
  MaxFd,       \* bound: the limit on client descriptors
  NumWorkers,  \* threads of the pool
  MaxMeddle,   \* bound: calls of other instances on the socket file before
               \* bind() and after it
  Slow,        \* those that may be late in reading the response
  MaxStalls,   \* bound: how often one of them lets its socket fill up
  NoClient

ASSUME ServerAssumption ==
  /\ MaxFd \in Nat \ {0} /\ NumWorkers \in Nat \ {0} /\ MaxMeddle \in Nat
  /\ MaxStalls \in Nat /\ Slow \subseteq Clients
  /\ NoClient \notin Clients /\ WithBody \subseteq Clients

VARIABLES
  \* the process
  pc,          \* where main() is
  config,      \* the listener ("tcp" or "uds") and the limit on descriptors
  g_shutdown,
  refusing,    \* the listening socket was shut down by the signal handler
  \* the socket file
  file,        \* whose socket the file is
  meddled,     \* number of calls of other instances (for the bound)
  robbed,      \* history: one of them took or replaced this instance's file
  \* clients and kernel
  sock,        \* each client's connection: "none", "backlog", "open", "closed"
  req,         \* what each client has sent: pieces, fin or reset; whether the
               \* socket has no room for more of the response
  backlog,     \* connections not yet accepted, oldest first
  \* the loop
  connections, \* descriptor -> ConnCtx
  batch,       \* the events not yet handled: by descriptor, and two flags
  cur,         \* the descriptor whose EPOLLOUT is handled next, 0 for none
  event_fd,    \* the eventfd is readable
  \* ConnectionIO and the pool
  io,          \* the bridge of each client's request
  tasks,       \* requests no worker has taken
  job,         \* where the worker of each request is
  answered     \* history: clients that were sent the response

procVars == <<pc, config, g_shutdown, refusing>>
fileVars == <<file, meddled, robbed>>
netVars  == <<sock, req, backlog>>
loopVars == <<connections, batch, cur, event_fd>>
workVars == <<io, tasks, job>>

vars == <<procVars, fileVars, netVars, loopVars, workVars, answered>>

Fd == 1..MaxFd

NoConn == [client |-> NoClient, active |-> FALSE, body_complete |-> FALSE,
           epoll_events |-> {}]

NewConn(c) == [client |-> c, active |-> FALSE, body_complete |-> FALSE,
               epoll_events |-> {"in"}]

NoEvents == [client |-> NoClient, ev |-> {}]

NoBatch == [listen |-> FALSE, event |-> FALSE, fd |-> [f \in Fd |-> NoEvents]]

\* fed: the body is complete; eof, rerr: read_eof_, read_error_; buf: the write
\* buffer is not empty; pend, fin, werr: write_pending_, finished_, write_error_.
NoIO == [fed |-> FALSE, eof |-> FALSE, rerr |-> FALSE, buf |-> FALSE,
         pend |-> FALSE, fin |-> FALSE, werr |-> FALSE]

\* A client's request before it is sent.
Unsent == [sent |-> 0, got |-> 0, quit |-> "no", full |-> FALSE, stalls |-> 0]

\* A process that begins.  The file of an instance that was killed may still be
\* there ("stale").
Init ==
  /\ config \in [mode : {"tcp", "uds"}, limit : Fd]
  /\ pc = "construct" /\ g_shutdown = FALSE
  /\ refusing = FALSE
  /\ file \in IF config.mode = "uds" THEN {"none", "stale"} ELSE {"none"}
  /\ meddled = 0 /\ robbed = FALSE
  /\ sock = [c \in Clients |-> "none"]
  /\ req = [c \in Clients |-> Unsent]
  /\ backlog = <<>>
  /\ connections = [f \in Fd |-> NoConn]
  /\ batch = NoBatch /\ cur = 0 /\ event_fd = FALSE
  /\ io = [c \in Clients |-> NoIO]
  /\ tasks = <<>>
  /\ job = [c \in Clients |-> "none"]
  /\ answered = {}

----------------------------------------------------------------------------
(* The listener: main.cpp:189-210, 602-691, 1468-1485 *)

\* A client that connects finds the socket.
Listening == pc \in {"setup", "loop", "drain", "destroy"} /\ ~refusing

\* Faulty variant of Unlink: the file is left where it is.
UnlinkNothing == UNCHANGED file

\* unlink() of uds_path_, which a TCP server has not.
Unlink == file' = IF config.mode = "uds" THEN "none" ELSE file

Goto(place) ==
  /\ pc' = place
  /\ meddled' = IF place = "listen" THEN 0 ELSE meddled
  /\ UNCHANGED <<config, g_shutdown, refusing, robbed, netVars, loopVars, workVars,
                 answered>>

\* main.cpp:1472-1479: the server is copied from a temporary, whose destructor
\* removes the file at the path.
Construct ==
  /\ pc = "construct"
  /\ Unlink
  /\ Goto("unlink")

\* start_uds, main.cpp:639-661; start_tcp has nothing to remove.
RemoveStale ==
  /\ pc = "unlink"
  /\ Unlink
  /\ Goto("bind")

\* bind() makes the file, and fails when there is one; it may fail for other
\* reasons, and so may socket(), setsockopt() and the path checks before it.
Bind ==
  /\ pc = "bind"
  /\ file = "none"
  /\ file' = IF config.mode = "uds" THEN "mine" ELSE file
  /\ Goto("listen")

\* chmod() and listen(), main.cpp:683-697 and 627-634.
Listen ==
  /\ pc = "listen"
  /\ UNCHANGED file
  /\ Goto("setup")

\* Any step of start() may fail.  chmod() and listen() failures remove the file
\* at once; the others leave it to the destructor.
StartFails ==
  /\ pc \in {"unlink", "bind", "listen"}
  /\ IF pc = "listen" THEN Unlink ELSE UNCHANGED file
  /\ Goto("failed")

\* main.cpp:1481-1484: return 1 destroys the server, which removes whatever file
\* is at the path, and then the idle pool.
FailedExit ==
  /\ pc = "failed"
  /\ Unlink
  /\ Goto("exited")

\* accept_connections(), main.cpp:244-282: epoll and the eventfd; without them it
\* returns at once, and main() goes on with the shutdown sequence.
Setup ==
  /\ pc = "setup"
  /\ UNCHANGED file
  /\ Goto("loop") \/ Goto("drain")

----------------------------------------------------------------------------
(* Other instances with the same path: each system call they make *)

\* They do not touch the connections, and clients come only to a file that is
\* this instance's, so it is enough to let them act before the first client.
MayMeddle ==
  /\ config.mode = "uds" /\ meddled < MaxMeddle /\ pc # "exited"
  /\ \A c \in Clients : sock[c] = "none"

OtherUnlink ==
  /\ MayMeddle
  /\ file # "none"
  /\ file' = "none"
  /\ meddled' = meddled + 1
  /\ robbed' = (robbed \/ file = "mine")
  /\ UNCHANGED <<procVars, netVars, loopVars, workVars, answered>>

OtherBind ==
  /\ MayMeddle
  /\ file = "none"
  /\ file' = "theirs"
  /\ meddled' = meddled + 1
  /\ UNCHANGED <<procVars, robbed, netVars, loopVars, workVars, answered>>

----------------------------------------------------------------------------
(* Clients *)

\* A client reaches this instance through its file.  (The loop does not depend
\* on the mode: that of a TCP server is started and stopped without clients.)
Connect(c) ==
  /\ sock[c] = "none"
  /\ Listening
  /\ file = "mine"
  /\ sock' = [sock EXCEPT ![c] = "backlog"]
  /\ backlog' = Append(backlog, c)
  /\ UNCHANGED <<procVars, fileVars, req, loopVars, workVars, answered>>

Pieces(c) == IF c \in WithBody THEN 2 ELSE 1

ClientSend(c) ==
  /\ sock[c] \in {"backlog", "open"}
  /\ req[c].quit = "no" /\ req[c].sent < Pieces(c)
  /\ req' = [req EXCEPT ![c].sent = @ + 1]
  /\ UNCHANGED <<procVars, fileVars, sock, backlog, loopVars, workVars, answered>>

\* A client that had let its side fill up reads what has come.
ClientRead(c) ==
  /\ sock[c] = "open"
  /\ req[c].full /\ req[c].quit # "reset"
  /\ req' = [req EXCEPT ![c].full = FALSE]
  /\ UNCHANGED <<procVars, fileVars, sock, backlog, loopVars, workVars, answered>>

\* A half-close, or a reset.
ClientQuit(c) ==
  /\ sock[c] \in {"backlog", "open"}
  /\ \/ req[c].quit = "no" /\ req' = [req EXCEPT ![c].quit = "fin"]
     \/ req[c].quit # "reset" /\ req' = [req EXCEPT ![c].quit = "reset"]
  /\ UNCHANGED <<procVars, fileVars, sock, backlog, loopVars, workVars, answered>>

\* signal_handler, main.cpp:1013-1021: a listening socket is shut down too.
Signal ==
  /\ ~g_shutdown /\ pc # "exited"
  /\ g_shutdown' = TRUE
  /\ refusing' = Listening
  /\ UNCHANGED <<pc, config, fileVars, netVars, loopVars, workVars, answered>>

----------------------------------------------------------------------------
(* The loop *)

Ready(f) ==
  LET k == connections[f]
      r == req[k.client]
  IN  IF k.client = NoClient \/ k.epoll_events = {} THEN {}
      ELSE {e \in k.epoll_events :
              IF e = "in" THEN r.sent > r.got \/ r.quit # "no" ELSE ~r.full}
           \cup (IF r.quit = "reset" THEN {"hup"} ELSE {})

ReadyBatch ==
  [listen |-> backlog # <<>>,
   event |-> event_fd,
   fd |-> [f \in Fd |-> IF Ready(f) = {} THEN NoEvents
                        ELSE [client |-> connections[f].client,
                              ev |-> Ready(f)]]]

\* main.cpp:336-346.
EpollWait ==
  /\ pc = "loop" /\ ~g_shutdown
  /\ batch = NoBatch
  /\ batch' = ReadyBatch
  /\ batch' # NoBatch
  /\ UNCHANGED <<procVars, fileVars, netVars, connections, cur, event_fd,
                 workVars, answered>>

\* Faulty variant of Dropped: the worker is not told.
DroppedSilently(c) ==
  IF job[c] \in {"none", "done"} THEN NoIO ELSE io[c]

\* The bridge when the loop drops it: both error flags are set, and it is freed
\* unless its worker still holds it.
Dropped(c) ==
  IF job[c] \in {"none", "done"} THEN NoIO
  ELSE [io[c] EXCEPT !.rerr = TRUE, !.werr = TRUE, !.buf = FALSE]

\* close_conn and erase (main.cpp:320-332), for the descriptors in S of a table.
\* The kernel forgets what the client has sent.
Close(table, S) ==
  LET gone == {table[f].client : f \in S} IN
  /\ connections' = [f \in Fd |-> IF f \in S THEN NoConn ELSE table[f]]
  /\ sock' = [c \in Clients |-> IF c \in gone THEN "closed" ELSE sock[c]]
  /\ req' = [c \in Clients |-> IF c \in gone THEN Unsent ELSE req[c]]
  /\ io' = [c \in Clients |-> IF c \in gone THEN Dropped(c) ELSE io[c]]

\* The place of x among the elements of S, the smallest first.
Nth(S, x) == Cardinality({y \in S : y <= x})

\* main.cpp:350-380: accept until there is nothing left or accept() fails for
\* want of a descriptor.  The kernel gives the lowest free number.
Accept ==
  LET free == {f \in 1..config.limit : connections[f] = NoConn}
      n    == IF Len(backlog) <= Cardinality(free) THEN Len(backlog)
              ELSE Cardinality(free)
  IN
  /\ pc = "loop" /\ batch.listen /\ cur = 0
  /\ batch' = [batch EXCEPT !.listen = FALSE]
  /\ connections' = [f \in Fd |->
       IF f \in free /\ Nth(free, f) <= n THEN NewConn(backlog[Nth(free, f)])
       ELSE connections[f]]
  /\ sock' = [c \in Clients |->
                IF \E k \in 1..n : backlog[k] = c THEN "open" ELSE sock[c]]
  /\ backlog' = SubSeq(backlog, n + 1, Len(backlog))
  /\ UNCHANGED <<procVars, fileVars, req, cur, event_fd, workVars, answered>>

\* main.cpp:369-375: a connection that cannot be registered with epoll is closed,
\* and the next one is accepted.
AcceptUnwatched ==
  /\ pc = "loop" /\ batch.listen /\ cur = 0
  /\ backlog # <<>>
  /\ \E f \in 1..config.limit : connections[f] = NoConn
  /\ sock' = [sock EXCEPT ![Head(backlog)] = "closed"]
  /\ req' = [req EXCEPT ![Head(backlog)] = Unsent]
  /\ backlog' = Tail(backlog)
  /\ UNCHANGED <<procVars, fileVars, loopVars, workVars, answered>>

\* Faulty variant of isFinished: an empty buffer is taken for the end.
isDrained(b) == ~b.buf

isFinished(b) == b.fin /\ ~b.buf

Arm(k, events) == [k EXCEPT !.epoll_events = events]

\* main.cpp:383-416: the counter is read, then every active connection is looked
\* at, then those that are done are closed.  (A worker that acts in between, or
\* between the two locks of main.cpp:398, is in Connection.)
ScanConnections ==
  LET active == {f \in Fd : connections[f].active}
      IO(f)  == io[connections[f].client]
      failed == {f \in active : IO(f).werr}
      done   == {f \in active : ~IO(f).werr /\ isFinished(IO(f))
                                /\ ~IO(f).pend}
      ready  == {f \in active \ (failed \cup done) : IO(f).pend}
      armed  == [f \in Fd |->
                   IF f \in ready
                   THEN Arm(connections[f],
                            IF connections[f].body_complete THEN {"out"}
                            ELSE {"in", "out"})
                   ELSE connections[f]]
  IN
  /\ pc = "loop" /\ batch.event /\ cur = 0
  /\ batch' = [batch EXCEPT !.event = FALSE]
  /\ event_fd' = FALSE
  /\ Close(armed, failed \cup done)
  /\ UNCHANGED <<procVars, fileVars, backlog, cur, tasks, job, answered>>

Handled(f) == [batch EXCEPT !.fd[f] = NoEvents]

\* main.cpp:419-420: the connection was closed earlier in this batch.
Skip(f) ==
  /\ pc = "loop" /\ cur = 0 /\ batch.fd[f] # NoEvents
  /\ connections[f] = NoConn
  /\ batch' = Handled(f)
  /\ UNCHANGED <<procVars, fileVars, netVars, connections, cur, event_fd,
                 workVars, answered>>

\* main.cpp:423-427.  The event may be one of an earlier connection with the
\* same number, closed by ScanConnections and replaced by Accept in this batch.
HangUp(f) ==
  /\ pc = "loop" /\ cur = 0 /\ "hup" \in batch.fd[f].ev
  /\ connections[f] # NoConn
  /\ Close(connections, {f})
  /\ batch' = Handled(f)
  /\ UNCHANGED <<procVars, fileVars, backlog, cur, event_fd, tasks, job, answered>>

\* Faulty variant of AfterIn: the event is taken as handled.
AfterInForgets(f) ==
  /\ cur' = IF "out" \in batch.fd[f].ev THEN f ELSE 0
  /\ batch' = Handled(f)

\* Going on with EPOLLOUT, or with the next event.
AfterIn(f) ==
  IF "out" \in batch.fd[f].ev
  THEN cur' = f /\ batch' = [batch EXCEPT !.fd[f].ev = {"out"}]
  ELSE cur' = 0 /\ batch' = Handled(f)

In(f) ==
  /\ pc = "loop" /\ cur = 0
  /\ "in" \in batch.fd[f].ev /\ "hup" \notin batch.fd[f].ev
  /\ connections[f] # NoConn

\* main.cpp:434-438 and 443-446: recv() fails, or the client closes before its
\* headers are there.
RecvClose(f) ==
  LET k == connections[f]
      r == req[k.client]
  IN
  /\ In(f)
  /\ \/ r.quit = "reset"
     \/ r.quit = "fin" /\ r.sent = r.got /\ ~k.active
  /\ Close(connections, {f})
  /\ batch' = Handled(f)
  /\ UNCHANGED <<procVars, fileVars, backlog, cur, event_fd, tasks, job, answered>>

\* feedBody(nullptr, 0, true), main.cpp:449-451.
FeedEof(k) ==
  IF k.body_complete THEN io ELSE [io EXCEPT ![k.client].eof = TRUE]

\* Nothing to read: EAGAIN, or (main.cpp:448-453) the end of the stream.
RecvNothing(f) ==
  LET k == connections[f]
      r == req[k.client]
  IN
  /\ In(f)
  /\ r.sent = r.got
  /\ \/ /\ r.quit = "no"
        /\ UNCHANGED <<connections, io>>
     \/ /\ r.quit = "fin" /\ k.active
        /\ io' = FeedEof(k)
        /\ connections' = [connections EXCEPT
             ![f] = [Arm(k, k.epoll_events \ {"in"}) EXCEPT
                       !.body_complete = TRUE]]
  /\ AfterIn(f)
  /\ UNCHANGED <<procVars, fileVars, netVars, event_fd, tasks, job, answered>>

\* main.cpp:456-514: the headers are complete.  The body may have come with
\* them.  The request is submitted to the pool.
RecvHeaders(f) ==
  LET k == connections[f]
      c == k.client
      whole == req[c].sent = Pieces(c)
  IN
  /\ In(f)
  /\ req[c].quit # "reset" /\ req[c].sent > req[c].got
  /\ ~k.active
  /\ req' = [req EXCEPT ![c].got = req[c].sent]
  /\ io' = [io EXCEPT ![c].fed = whole]
  /\ connections' = [connections EXCEPT
       ![f] = [k EXCEPT !.active = TRUE, !.body_complete = whole,
                        !.epoll_events = IF whole THEN {} ELSE @]]
  /\ tasks' = Append(tasks, c)
  /\ job' = [job EXCEPT ![c] = "queued"]
  /\ AfterIn(f)
  /\ UNCHANGED <<procVars, fileVars, sock, backlog, event_fd, answered>>

\* main.cpp:516-530.
RecvBody(f) ==
  LET k == connections[f]
      c == k.client
  IN
  /\ In(f)
  /\ req[c].quit # "reset" /\ req[c].sent > req[c].got
  /\ k.active
  /\ req' = [req EXCEPT ![c].got = req[c].sent]
  /\ io' = [io EXCEPT ![c].fed = TRUE, ![c].eof = TRUE]
  /\ connections' = [connections EXCEPT
       ![f] = [Arm(k, k.epoll_events \ {"in"}) EXCEPT !.body_complete = TRUE]]
  /\ AfterIn(f)
  /\ UNCHANGED <<procVars, fileVars, sock, backlog, event_fd, tasks, job,
                 answered>>

Out(f) ==
  /\ pc = "loop" /\ cur \in {0, f}
  /\ batch.fd[f].ev = {"out"}
  /\ connections[f] # NoConn

\* main.cpp:537: an event of an earlier connection with this number.
OutNoBridge(f) ==
  /\ Out(f)
  /\ ~connections[f].active
  /\ batch' = Handled(f) /\ cur' = 0
  /\ UNCHANGED <<procVars, fileVars, netVars, connections, event_fd, workVars,
                 answered>>

\* main.cpp:541-551 and 564-573: send() takes all there is, or there is nothing
\* to send; then the connection is closed or waits for the worker.  The client
\* is answered when the worker has no more to write.
OutSend(f) ==
  LET k    == connections[f]
      c    == k.client
      sent == [io[c] EXCEPT !.buf = FALSE, !.pend = @ /\ ~io[c].buf]
  IN
  /\ Out(f)
  /\ k.active
  /\ (req[c].quit # "reset" /\ ~req[c].full) \/ ~io[c].buf
  /\ answered' = IF io[c].buf /\ job[c] # "more" THEN answered \cup {c} ELSE answered
  /\ batch' = Handled(f) /\ cur' = 0
  /\ \/ /\ isFinished(sent)
        /\ Close(connections, {f})
     \/ /\ ~isFinished(sent)
        /\ connections' = [connections EXCEPT
             ![f] = Arm(k, IF k.body_complete THEN {} ELSE {"in"})]
        /\ io' = [io EXCEPT ![c] = sent]
        /\ UNCHANGED <<sock, req>>
  /\ UNCHANGED <<procVars, fileVars, backlog, event_fd, tasks, job>>

\* Faulty variant of Unfinished: EPOLLOUT is taken off as after a whole send().
UnfinishedDisarmed(k) == Arm(k, IF k.body_complete THEN {} ELSE {"in"})

\* main.cpp:562 and 566: the registration is left as it is.
Unfinished(k) == k

\* main.cpp:554-566: the socket takes a part of the data or, with EAGAIN, none;
\* the rest stays in the buffer.
OutBlocked(f) ==
  LET c == connections[f].client IN
  /\ Out(f)
  /\ connections[f].active
  /\ req[c].quit # "reset" /\ io[c].buf
  /\ c \in Slow /\ req[c].stalls < MaxStalls
  /\ req' = [req EXCEPT ![c].full = TRUE, ![c].stalls = @ + 1]
  /\ connections' = [connections EXCEPT ![f] = Unfinished(@)]
  /\ batch' = Handled(f) /\ cur' = 0
  /\ UNCHANGED <<procVars, fileVars, sock, backlog, event_fd, workVars, answered>>

\* main.cpp:555-561: send() fails on a connection that was reset.
OutError(f) ==
  LET c == connections[f].client IN
  /\ Out(f)
  /\ connections[f].active
  /\ req[c].quit = "reset" /\ io[c].buf
  /\ Close(connections, {f})
  /\ batch' = Handled(f) /\ cur' = 0
  /\ UNCHANGED <<procVars, fileVars, backlog, event_fd, tasks, job, answered>>

\* main.cpp:576-585: all connections are closed, and the eventfd.
LeaveLoop ==
  /\ pc = "loop"
  /\ batch = NoBatch
  /\ Close(connections, {f \in Fd : connections[f] # NoConn})
  /\ event_fd' = FALSE
  /\ pc' = "drain"
  /\ UNCHANGED <<config, g_shutdown, refusing, fileVars, backlog, batch, cur,
                 tasks, job, answered>>

\* main.cpp:336: the flag is looked at between two batches, every 200 ms if there
\* are none.
ExitLoop == g_shutdown /\ LeaveLoop

\* main.cpp:338-343.
EpollFails == ~g_shutdown /\ LeaveLoop

----------------------------------------------------------------------------
(* The pool and its tasks *)

Busy == {c \in Clients : job[c] \in {"body", "respond", "more", "finish"}}

\* Faulty variant of Notify: the loop is not told.
NotifyNobody == UNCHANGED event_fd

\* signal_eventfd(): the write fails when the loop has closed the eventfd.
Notify == event_fd' = (event_fd \/ pc = "loop")

\* A worker takes the oldest task.  A request with a body waits for it, unless a
\* filter answers from the headers.
Begin(c) ==
  /\ tasks # <<>> /\ c = Head(tasks)
  /\ Cardinality(Busy) < NumWorkers
  /\ tasks' = Tail(tasks)
  /\ \E place \in {"respond"} \cup (IF c \in WithBody THEN {"body"} ELSE {}) :
       job' = [job EXCEPT ![c] = place]
  /\ UNCHANGED <<procVars, fileVars, netVars, connections, batch, cur, event_fd,
                 io, answered>>

\* readBodyChunk() returns the body.
ReadBody(c) ==
  /\ job[c] = "body" /\ io[c].fed
  /\ job' = [job EXCEPT ![c] = "respond"]
  /\ UNCHANGED <<procVars, fileVars, netVars, loopVars, io, tasks, answered>>

\* The body will not come, or the filter throws, before or after it has answered:
\* setError().  With the task goes the worker's hold on the bridge.
Abort(c) ==
  /\ \/ job[c] = "body" /\ ~io[c].fed /\ (io[c].eof \/ io[c].rerr)
     \/ job[c] \in {"respond", "finish"}
  /\ io' = [io EXCEPT ![c] =
              IF sock[c] = "closed" THEN NoIO
              ELSE [@ EXCEPT !.werr = TRUE, !.fin = TRUE]]
  /\ Notify
  /\ job' = [job EXCEPT ![c] = "done"]
  /\ UNCHANGED <<procVars, fileVars, netVars, connections, batch, cur, tasks,
                 answered>>

\* writeData() waits until the loop has sent what was written before, and writes
\* nothing after an error.  A response is one call or two.
Respond(c) ==
  /\ job[c] \in {"respond", "more"}
  /\ ~io[c].buf \/ io[c].werr
  /\ \E place \in {"finish"} \cup (IF job[c] = "respond" THEN {"more"} ELSE {}) :
       job' = [job EXCEPT ![c] = place]
  /\ IF io[c].werr
     THEN UNCHANGED <<io, event_fd>>
     ELSE io' = [io EXCEPT ![c].buf = TRUE, ![c].pend = TRUE] /\ Notify
  /\ UNCHANGED <<procVars, fileVars, netVars, connections, batch, cur, tasks,
                 answered>>

\* finish(), and the task returns.
Finish(c) ==
  /\ job[c] = "finish"
  /\ io' = [io EXCEPT ![c] = IF sock[c] = "closed" THEN NoIO
                            ELSE [@ EXCEPT !.fin = TRUE]]
  /\ Notify
  /\ job' = [job EXCEPT ![c] = "done"]
  /\ UNCHANGED <<procVars, fileVars, netVars, connections, batch, cur, tasks,
                 answered>>

----------------------------------------------------------------------------
(* The shutdown sequence, main.cpp:1487-1511 *)

\* pool.shutdown() returns when every submitted request has been handled.
Drain ==
  /\ pc = "drain"
  /\ tasks = <<>> /\ Busy = {}
  /\ UNCHANGED file
  /\ Goto("destroy")

\* The destructor closes the listening socket, with the connections nobody
\* accepted, and removes the file.
Destroy ==
  /\ pc = "destroy"
  /\ Unlink
  /\ pc' = "cleanup"
  /\ sock' = [c \in Clients |->
                IF sock[c] = "backlog" THEN "closed" ELSE sock[c]]
  /\ req' = [c \in Clients |->
               IF sock[c] = "backlog" THEN Unsent ELSE req[c]]
  /\ backlog' = <<>>
  /\ UNCHANGED <<config, g_shutdown, refusing, meddled, robbed, loopVars, workVars,
                 answered>>

\* g_uds_path is removed once more.
Cleanup ==
  /\ pc = "cleanup"
  /\ Unlink
  /\ Goto("exited")

----------------------------------------------------------------------------

StartStep ==
  \/ Construct \/ RemoveStale \/ Bind \/ Listen \/ Setup \/ StartFails
  \/ FailedExit

LoopStep ==
  \/ EpollWait \/ Accept \/ AcceptUnwatched \/ ScanConnections \/ ExitLoop
  \/ \E f \in Fd : \/ Skip(f) \/ HangUp(f)
                   \/ RecvClose(f) \/ RecvNothing(f) \/ RecvHeaders(f)
                   \/ RecvBody(f)
                   \/ OutNoBridge(f) \/ OutSend(f) \/ OutBlocked(f)
                   \/ OutError(f)

EndStep == Drain \/ Destroy \/ Cleanup

WorkerStep(c) ==
  Begin(c) \/ ReadBody(c) \/ Abort(c) \/ Respond(c) \/ Finish(c)

Next ==
  \/ StartStep
  \/ LoopStep
  \/ EndStep
  \/ EpollFails
  \/ OtherUnlink
  \/ OtherBind
  \/ Signal
  \/ \E c \in Clients : \/ Connect(c)
                        \/ ClientSend(c)
                        \/ ClientRead(c)
                        \/ ClientQuit(c)
                        \/ WorkerStep(c)

\* main() is one thread; it and the workers keep running.  Clients and signals
\* are free, and epoll_wait() need not fail.
Fairness ==
  /\ WF_vars(StartStep \/ LoopStep \/ EndStep)
  /\ \A c \in Clients : WF_vars(WorkerStep(c))

SafeSpec == Init /\ [][Next]_vars

Spec == SafeSpec /\ Fairness

----------------------------------------------------------------------------
(* Properties *)

\* A request, an entry of the table, a batch of events, and a bridge.
Requests == [sent : 0..2, got : 0..2, quit : {"no", "fin", "reset"},
             full : BOOLEAN, stalls : 0..MaxStalls]
Entries ==
  [client : Clients \cup {NoClient}, active : BOOLEAN, body_complete : BOOLEAN,
   epoll_events : SUBSET {"in", "out"}]
Events == [client : Clients \cup {NoClient}, ev : SUBSET {"in", "out", "hup"}]
Batches == [listen : BOOLEAN, event : BOOLEAN, fd : [Fd -> Events]]
Bridges == [fed : BOOLEAN, eof : BOOLEAN, rerr : BOOLEAN, buf : BOOLEAN,
            pend : BOOLEAN, fin : BOOLEAN, werr : BOOLEAN]

\* Every variable has its type, no client sends more than its request has, and
\* the descriptor of an EPOLLOUT that is handled next has that event.
TypeOK ==
  /\ pc \in {"construct", "unlink", "bind", "listen", "setup", "loop", "drain",
             "destroy", "cleanup", "failed", "exited"}
  /\ config \in [mode : {"tcp", "uds"}, limit : Fd]
  /\ g_shutdown \in BOOLEAN /\ refusing \in BOOLEAN /\ robbed \in BOOLEAN
  /\ file \in {"none", "stale", "mine", "theirs"} /\ meddled \in 0..MaxMeddle
  /\ sock \in [Clients -> {"none", "backlog", "open", "closed"}]
  /\ req \in [Clients -> Requests]
  /\ \A c \in Clients : req[c].got <= req[c].sent /\ req[c].sent <= Pieces(c)
  /\ backlog \in Seq(Clients) /\ tasks \in Seq(Clients)
  /\ connections \in [Fd -> Entries]
  /\ batch \in Batches
  /\ cur \in 0..MaxFd /\ (cur # 0 => batch.fd[cur].ev = {"out"})
  /\ event_fd \in BOOLEAN
  /\ io \in [Clients -> Bridges]
  /\ job \in [Clients -> {"none", "queued", "body", "respond", "more", "finish",
                      "done"}]
  /\ answered \subseteq Clients

\* The connection table, the descriptors, the bridges and the queue agree: every
\* open connection has one entry, an entry is active exactly when its request was
\* submitted, each request is in the queue exactly while it is queued, and the
\* worker of a connection that is gone finds both error flags set, so that it
\* cannot wait for a loop that has forgotten it.
TableAgrees ==
  /\ \A c \in Clients :
       /\ Cardinality({f \in Fd : connections[f].client = c}) =
            (IF sock[c] = "open" THEN 1 ELSE 0)
       /\ Cardinality({i \in 1..Len(backlog) : backlog[i] = c}) =
            (IF sock[c] = "backlog" THEN 1 ELSE 0)
       /\ Cardinality({i \in 1..Len(tasks) : tasks[i] = c}) =
            (IF job[c] = "queued" THEN 1 ELSE 0)
       /\ sock[c] = "closed" /\ job[c] \notin {"none", "done"} =>
            io[c].rerr /\ io[c].werr
  /\ \A f \in Fd : connections[f] # NoConn =>
       (connections[f].active <=> job[connections[f].client] # "none")
  /\ \A f \in Fd : pc # "loop" => connections[f] = NoConn

\* One eventfd serves all workers, and the loop reads it once for all of them:
\* when the loop goes back to epoll_wait, whatever a worker has left for it
\* (data, the end, an error) has an event that will bring it back to that
\* connection.
NothingForgotten ==
  pc = "loop" /\ batch = NoBatch =>
    \A f \in Fd :
      LET k == connections[f]
          b == io[k.client]
      IN  k.active /\ (b.pend \/ b.fin \/ b.werr) =>
            event_fd \/ "out" \in k.epoll_events

\* A connection is closed for a reason of its own: answered, given up by its
\* worker, given up by its client, or shut down with the process.  Except that
\* HangUp may apply an event of an earlier connection to the one that took its
\* descriptor number (main.cpp:419 looks the number up and nothing else); that
\* one is new, and none of its own events has been handled.
ClosedForCause ==
  [][\A f \in Fd :
       LET c == connections[f].client IN
       connections[f] # NoConn /\ connections'[f] = NoConn =>
         \/ job[c] = "done" /\ (c \in answered' \/ io[c].werr)
         \/ req[c].quit # "no"
         \/ pc' = "drain"
         \/ batch.fd[f].client # c /\ connections[f] = NewConn(c)]_vars

\* The socket file is this instance's own while it serves, unless another
\* instance removed it; a file left by a killed instance never stops a start; and
\* no file of this instance is left when it has ended, on the failure paths too.
SocketFile ==
  config.mode = "uds" =>
    /\ pc \in {"listen", "setup", "loop", "drain"} /\ ~robbed => file = "mine"
    /\ pc = "bind" /\ meddled = 0 => file = "none"
    /\ pc \in {"cleanup", "exited"} => file # "mine"

\* A signal ends the process, in whatever state it arrives and whatever the
\* clients do: the loop is left, blocked workers are released, the pool is
\* drained.
StopsOnSignal == g_shutdown ~> pc = "exited"

\* If all clients that connect send their requests and read the response, however
\* late (there is no timeout: one that goes quiet in the middle of its body, or
\* that does not read, keeps its connection and its worker for ever), then after
\* any connection there comes a time when all have been answered or closed, also
\* when there are more connections than workers and more than descriptors.
ServedEventually ==
  (\A c \in Clients : WF_vars(ClientSend(c) \/ ClientRead(c))) =>
    (\E c \in Clients : sock[c] = "backlog") ~>
      (\A c \in Clients : sock[c] \in {"none", "closed"})
=============================================================================
