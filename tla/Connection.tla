------------------------------ MODULE Connection ------------------------------
(***************************************************************************)
(* One HTTP connection of lswasm: the ConnectionIO bridge of               *)
(* src/src/connection_io.h between the epoll loop, which owns the socket   *)
(* (HttpServer::accept_connections, src/src/main.cpp:244-585), and the     *)
(* worker thread that runs handle_request (main.cpp:723-883).              *)
(*                                                                         *)
(* Each critical section on read_mutex_ or write_mutex_ is one action, so  *)
(* the two threads interleave between any two calls on the bridge.  The    *)
(* condition variables are modelled: a thread whose predicate is false     *)
(* goes to sleep and runs again only when the code notifies it (or         *)
(* spuriously).  Bytes are numbered: byte i of the request body, and byte  *)
(* i of the response, is the number i, so that loss, duplication and       *)
(* reordering are visible.                                                 *)
(***************************************************************************)
EXTENDS Naturals, Sequences

CONSTANTS
  MaxHeader,   \* MAX_HEADER_SIZE
  RecvSize,    \* BUFFER_SIZE, the most one recv() returns
  ChunkSize,   \* BODY_CHUNK_SIZE
  MaxBody,     \* bound: the largest Content-Length a client announces
  MaxSurplus,  \* bound: bytes a client sends beyond its request
  MaxResponse  \* bound: the most bytes a worker writes

ASSUME SizeAssumption ==
  /\ MaxHeader \in Nat \ {0}
  /\ RecvSize \in Nat \ {0}
  /\ ChunkSize \in Nat \ {0}
  /\ MaxBody \in Nat
  /\ MaxSurplus \in Nat
  /\ MaxResponse \in Nat

VARIABLES
  (* the client, the kernel's socket and g_shutdown *)
  req,         \* what the client sends: header size, Content-Length, total
               \* number of bytes, and whether it half-closes afterwards
  arrived,     \* bytes that have reached the server's socket
  eos,         \* the client's FIN has reached the server's socket
  reset,       \* the connection is broken (EPOLLERR or EPOLLHUP)
  room,        \* the socket accepts response bytes (EPOLLOUT)
  delivered,   \* response bytes send() has accepted
  shutdown,    \* g_shutdown

  (* ConnCtx and the local variables of the epoll loop *)
  state,           \* ConnCtx::state, or "closed" once erased
  got,             \* bytes recv() has returned
  body_complete,   \* ConnCtx::body_complete
  epoll_events,    \* ConnCtx::epoll_events
  loop,            \* where the loop is
  batch_sig,       \* event_fd is in the part of events[] not handled yet
  batch_ev,        \* the client's events in that part
  view,            \* pending, then the bytes send() took of it
  signalled,       \* the counter of event_fd is not zero

  (* ConnectionIO, read side *)
  body_prefix,     \* size of body_prefix_
  read_chunk, body_bytes_fed, read_eof, read_error,

  (* ConnectionIO, write side *)
  write_buffer, write_cursor, write_pending, finished, write_error,

  (* the worker thread *)
  worker,      \* where the worker is
  stage,       \* the part of handle_request it has reached
  consumed,    \* the request body bytes passed to the filter
  local,       \* http_data.has_local_response
  chunk,       \* the argument of writeData
  produced,    \* the number of response bytes passed to writeData so far
  outcome      \* how handle_request ended, and why

netVars    == <<req, arrived, eos, reset, room, delivered, shutdown>>
ctxVars    == <<state, got, body_complete, epoll_events>>
loopVars   == <<loop, batch_sig, batch_ev, view>>
readVars   == <<body_prefix, read_chunk, body_bytes_fed, read_eof, read_error>>
writeVars  == <<write_buffer, write_cursor, write_pending, finished,
                write_error, signalled>>
taskVars   == <<stage, consumed, local, chunk, produced, outcome>>

vars == <<netVars, ctxVars, loopVars, readVars, writeVars, worker, taskVars>>

Min(a, b) == IF a <= b THEN a ELSE b

\* The bytes numbered from + 1 to from + n.
Bytes(from, n) == [i \in 1..n |-> from + i]

LoopStates ==
  {"dispatch", "scan_error", "scan_finished", "scan_drained", "scan_pending",
   "recv", "pending", "send", "advance", "out_pending", "out_finished",
   "close_feed", "close_write", "exited"}

WorkerStates ==
  {"none", "queued", "handling", "reading", "read_sleep", "writing",
   "write_sleep", "done"}

\* "finished": conn->finish(); the others are conn->setError() after
\* an exception, a failed parse or an unfinished streaming response, and
\* after the three body read failures of main.cpp:772-788.
Outcomes == {"none", "finished", "exception", "error", "truncated", "no_data"}

Requests ==
  {r \in [hlen : 1..(MaxHeader + 1), clen : 0..MaxBody,
          total : 0..(MaxHeader + 1 + MaxBody + MaxSurplus), fin : BOOLEAN] :
     r.total <= r.hlen + r.clen + MaxSurplus}

\* A connection that accept() has just returned (main.cpp:366-379).
Init ==
  /\ req \in Requests
  /\ arrived = 0 /\ eos = FALSE /\ reset = FALSE
  /\ room = TRUE /\ delivered = <<>> /\ shutdown = FALSE
  /\ state = "ReadingHeaders" /\ got = 0
  /\ body_complete = FALSE /\ epoll_events = {"IN"}
  /\ loop = "dispatch" /\ batch_sig = FALSE /\ batch_ev = {} /\ view = <<>>
  /\ signalled = FALSE
  /\ body_prefix = 0 /\ read_chunk = <<>> /\ body_bytes_fed = 0
  /\ read_eof = FALSE /\ read_error = FALSE
  /\ write_buffer = <<>> /\ write_cursor = 0 /\ write_pending = FALSE
  /\ finished = FALSE /\ write_error = FALSE
  /\ worker = "none" /\ stage = "headers" /\ consumed = <<>> /\ local = FALSE
  /\ chunk = <<>> /\ produced = 0 /\ outcome = "none"

----------------------------------------------------------------------------
(* The client, the kernel and the signal handler *)

NetStep ==
  /\ UNCHANGED <<req, delivered, ctxVars, loopVars, readVars, writeVars,
                 worker, taskVars>>

ClientSend ==
  /\ arrived < req.total
  /\ arrived' = arrived + 1
  /\ UNCHANGED <<eos, reset, room, shutdown>> /\ NetStep

ClientFin ==
  /\ arrived = req.total /\ req.fin /\ ~eos
  /\ eos' = TRUE
  /\ UNCHANGED <<arrived, reset, room, shutdown>> /\ NetStep

ClientReset ==
  /\ ~reset
  /\ reset' = TRUE
  /\ UNCHANGED <<arrived, eos, room, shutdown>> /\ NetStep

\* The client reads, so the socket accepts response bytes again.
ClientRead ==
  /\ ~room
  /\ room' = TRUE
  /\ UNCHANGED <<arrived, eos, reset, shutdown>> /\ NetStep

\* signal_handler, main.cpp:1013-1021.
Signal ==
  /\ ~shutdown
  /\ shutdown' = TRUE
  /\ UNCHANGED <<arrived, eos, reset, room>> /\ NetStep

----------------------------------------------------------------------------
(* ConnectionIO: what its methods do to the shared fields *)

\* connection_io.h:257-260; the faulty variant forgets the buffer.
isFinishedFlag == finished
isFinished == finished /\ write_buffer = <<>>

\* connection_io.h:285-291; the faulty variant does not write to event_fd.
signal_nobody == UNCHANGED signalled
signal_eventfd == signalled' = TRUE

\* read_cv_.notify_one(), connection_io.h:212 and 219.
WakeReader ==
  worker' = IF worker = "read_sleep" THEN "reading" ELSE worker

\* write_cv_.notify_one(), connection_io.h:227 and 246; the faulty variant
\* forgets it.
WakeNobody == UNCHANGED worker
WakeWriter ==
  worker' = IF worker = "write_sleep" THEN "writing" ELSE worker

\* connection_io.h:72-81: bytes beyond the Content-Length are cut off.  The
\* faulty variant keeps them.
setHeaderDataUncut(n) == body_prefix' = n /\ body_bytes_fed' = n
setHeaderData(n) ==
  /\ body_prefix' = Min(n, req.clen)
  /\ body_bytes_fed' = body_prefix'

\* connection_io.h:202-213.
feedBody(n, eof) ==
  /\ read_chunk' = read_chunk \o Bytes(body_bytes_fed, n)
  /\ body_bytes_fed' = body_bytes_fed + n
  /\ read_eof' = (read_eof \/ eof)
  /\ WakeReader
  /\ UNCHANGED <<body_prefix, read_error>>

\* connection_io.h:216-220; the faulty variant does not tell the reader.
feedErrorSilently == read_error' = TRUE /\ UNCHANGED worker
feedError == read_error' = TRUE /\ WakeReader

\* connection_io.h:223-228.
writeError ==
  /\ write_error' = TRUE
  /\ write_buffer' = <<>>
  /\ WakeWriter
  /\ UNCHANGED <<write_cursor, write_pending, finished, signalled>>

\* connection_io.h:186-194 (only the caller ever waits on write_cv_, so its
\* notify_all() wakes nobody).
setError ==
  /\ write_error' = TRUE
  /\ finished' = TRUE
  /\ signal_eventfd
  /\ UNCHANGED <<write_buffer, write_cursor, write_pending>>

----------------------------------------------------------------------------
(* The epoll loop *)

Handled == batch_ev = {} /\ ~batch_sig

\* A step of the loop that only tests something and goes on.
Goto(from, to) ==
  /\ loop = from
  /\ loop' = to
  /\ UNCHANGED <<netVars, ctxVars, batch_sig, batch_ev, view, readVars,
                 writeVars, worker, taskVars>>

\* What epoll reports for the client's descriptor (level-triggered; ERR and
\* HUP are reported for every registered descriptor).
ReadyEvents ==
  {e \in {"IN", "OUT", "ERR"} :
     /\ epoll_events # {}
     /\ e = "IN" => "IN" \in epoll_events /\ (arrived > got \/ eos)
     /\ e = "OUT" => "OUT" \in epoll_events /\ room
     /\ e = "ERR" => reset}

\* main.cpp:336-346: the test of g_shutdown and epoll_wait.  Between two
\* batches the loop is at "dispatch" with nothing left to handle.
EpollWait ==
  /\ loop = "dispatch" /\ Handled
  /\ ~shutdown
  /\ signalled \/ ReadyEvents # {}
  /\ batch_sig' = signalled
  /\ batch_ev' = ReadyEvents
  /\ UNCHANGED <<netVars, ctxVars, loop, view, readVars, writeVars, worker,
                 taskVars>>

\* main.cpp:383-392: consume the counter, then scan the Active connections.
ReadEventfd ==
  /\ loop = "dispatch" /\ batch_sig
  /\ batch_sig' = FALSE
  /\ signalled' = FALSE
  /\ loop' = IF state = "Active" THEN "scan_error" ELSE "dispatch"
  /\ UNCHANGED <<netVars, ctxVars, batch_ev, view, readVars, write_buffer,
                 write_cursor, write_pending, finished, write_error, worker,
                 taskVars>>

\* main.cpp:394, hasError().
ScanError ==
  Goto("scan_error", IF write_error THEN "close_feed" ELSE "scan_finished")

\* main.cpp:398, isFinished() && !isWritePending(), one lock each.
ScanFinished ==
  Goto("scan_finished", IF isFinished THEN "scan_drained" ELSE "scan_pending")

ScanDrained ==
  Goto("scan_drained", IF write_pending THEN "scan_pending" ELSE "close_feed")

\* main.cpp:403-404; the faulty variant keeps reading after the body.
WantedAlwaysIn == {"OUT", "IN"}
Wanted == {"OUT"} \cup (IF body_complete THEN {} ELSE {"IN"})

\* main.cpp:402-406: arm EPOLLOUT.
ScanPending ==
  /\ loop = "scan_pending"
  /\ loop' = "dispatch"
  /\ epoll_events' = IF write_pending THEN Wanted ELSE epoll_events
  /\ UNCHANGED <<netVars, state, got, body_complete, batch_sig, batch_ev, view,
                 readVars, writeVars, worker, taskVars>>

\* main.cpp:419-430 and 535-539: find the connection; ERR and HUP close it,
\* EPOLLIN is handled before EPOLLOUT of the same event.
DispatchClient ==
  /\ loop = "dispatch" /\ batch_ev # {}
  /\ \/ /\ state = "closed"
        /\ batch_ev' = {} /\ UNCHANGED loop
     \/ /\ state # "closed" /\ "ERR" \in batch_ev
        /\ batch_ev' = {} /\ loop' = "close_feed"
     \/ /\ state # "closed" /\ "ERR" \notin batch_ev /\ "IN" \in batch_ev
        /\ batch_ev' = batch_ev \ {"IN"} /\ loop' = "recv"
     \/ /\ state # "closed" /\ batch_ev = {"OUT"}
        /\ batch_ev' = {} /\ loop' = "pending"
  /\ UNCHANGED <<netVars, ctxVars, batch_sig, view, readVars, writeVars, worker,
                 taskVars>>

----------------------------------------------------------------------------
(* EPOLLIN *)

\* recv() has been handled: close, or go on to EPOLLOUT of the same event.
AfterIn(close) ==
  /\ loop' = IF close THEN "close_feed"
             ELSE IF batch_ev = {} THEN "dispatch" ELSE "pending"
  /\ batch_ev' = {}
  /\ UNCHANGED <<netVars, batch_sig, view, writeVars, taskVars>>

\* main.cpp:434-438: recv() fails.
RecvError ==
  /\ loop = "recv" /\ reset
  /\ AfterIn(TRUE)
  /\ UNCHANGED <<ctxVars, readVars, worker>>

\* main.cpp:440-454: recv() returns 0.  While headers are read the connection
\* is closed; otherwise feedBody(nullptr, 0, true) tells the worker.
RecvEof ==
  /\ loop = "recv" /\ got = arrived /\ eos
  /\ \/ /\ state = "ReadingHeaders"
        /\ AfterIn(TRUE)
        /\ UNCHANGED <<ctxVars, readVars, worker>>
     \/ /\ state = "Active"
        /\ IF body_complete THEN UNCHANGED <<readVars, worker>>
                            ELSE feedBody(0, TRUE)
        /\ body_complete' = TRUE
        /\ epoll_events' = epoll_events \ {"IN"}
        /\ AfterIn(FALSE)
        /\ UNCHANGED <<state, got>>

\* main.cpp:457-515: header bytes.  The size limit counts every byte received
\* so far, body bytes included; complete headers create the ConnectionIO and
\* submit the request to the pool.
RecvHeader(n) ==
  /\ loop = "recv" /\ state = "ReadingHeaders"
  /\ n <= arrived - got
  /\ got' = got + n
  /\ AfterIn(got' > MaxHeader)
  /\ \/ /\ got' > MaxHeader \/ got' < req.hlen
        /\ UNCHANGED <<state, body_complete, epoll_events, body_prefix,
                       body_bytes_fed, worker>>
     \/ /\ got' <= MaxHeader /\ got' >= req.hlen
        /\ state' = "Active"
        /\ setHeaderData(got' - req.hlen)
        /\ body_complete' = (body_bytes_fed' >= req.clen)
        /\ epoll_events' = IF body_complete' THEN {} ELSE epoll_events
        /\ worker' = "queued"
  /\ UNCHANGED <<read_chunk, read_eof, read_error>>

\* main.cpp:516-530: body bytes, at most what the Content-Length announced;
\* once the body is complete the bytes would be dropped.
RecvBody(n) ==
  /\ loop = "recv" /\ state = "Active"
  /\ n <= arrived - got
  /\ got' = got + n
  /\ \/ /\ body_complete
        /\ UNCHANGED <<body_complete, epoll_events, readVars, worker>>
     \/ /\ ~body_complete
        /\ LET remaining == req.clen - body_bytes_fed
               to_feed   == Min(n, remaining)
               eof       == to_feed >= remaining
           IN /\ feedBody(to_feed, eof)
              /\ body_complete' = eof
              /\ epoll_events' =
                   IF eof THEN epoll_events \ {"IN"} ELSE epoll_events
  /\ AfterIn(FALSE)
  /\ UNCHANGED state

----------------------------------------------------------------------------
(* EPOLLOUT *)

\* main.cpp:541, connection_io.h:231-235.
pendingWriteData ==
  /\ loop = "pending"
  /\ \/ /\ write_cursor >= Len(write_buffer)
        /\ loop' = "out_finished"
        /\ UNCHANGED view
     \/ /\ write_cursor < Len(write_buffer)
        /\ loop' = "send"
        /\ view' = SubSeq(write_buffer, write_cursor + 1, Len(write_buffer))
  /\ UNCHANGED <<netVars, ctxVars, batch_sig, batch_ev, readVars, writeVars,
                 worker, taskVars>>

\* main.cpp:553: send() reads the memory of write_buffer_ without the mutex
\* and takes some of the bytes.
Send(n) ==
  /\ loop = "send"
  /\ n <= Len(view)
  /\ delivered' = delivered \o
                  SubSeq(write_buffer, write_cursor + 1, write_cursor + n)
  /\ room' \in BOOLEAN
  /\ view' = SubSeq(view, 1, n)
  /\ loop' = "advance"
  /\ UNCHANGED <<req, arrived, eos, reset, shutdown, ctxVars, batch_sig,
                 batch_ev, readVars, writeVars, worker, taskVars>>

\* main.cpp:554-561: EAGAIN.
SendAgain ==
  /\ loop = "send"
  /\ room' = FALSE
  /\ view' = <<>>
  /\ loop' = "dispatch"
  /\ UNCHANGED <<req, arrived, eos, reset, delivered, shutdown, ctxVars,
                 batch_sig, batch_ev, readVars, writeVars, worker, taskVars>>

\* main.cpp:554-559: any other error.
SendError ==
  /\ loop = "send" /\ reset
  /\ writeError
  /\ view' = <<>>
  /\ loop' = "close_feed"
  /\ UNCHANGED <<netVars, ctxVars, batch_sig, batch_ev, readVars, taskVars>>

\* main.cpp:563, connection_io.h:239-248.
advanceWrite ==
  /\ loop = "advance"
  /\ \/ /\ write_cursor + Len(view) >= Len(write_buffer)
        /\ write_buffer' = <<>>
        /\ write_cursor' = 0
        /\ write_pending' = FALSE
        /\ WakeWriter
     \/ /\ write_cursor + Len(view) < Len(write_buffer)
        /\ write_cursor' = write_cursor + Len(view)
        /\ UNCHANGED <<write_buffer, write_pending, worker>>
  /\ view' = <<>>
  /\ loop' = "out_pending"
  /\ UNCHANGED <<netVars, ctxVars, batch_sig, batch_ev, readVars, finished,
                 write_error, signalled, taskVars>>

\* main.cpp:565, isWritePending().
OutPending ==
  Goto("out_pending", IF write_pending THEN "dispatch" ELSE "out_finished")

\* main.cpp:542-550 and 566-572: close when finished, else disarm EPOLLOUT.
OutFinished ==
  /\ loop = "out_finished"
  /\ \/ /\ isFinished
        /\ loop' = "close_feed"
        /\ UNCHANGED epoll_events
     \/ /\ ~isFinished
        /\ loop' = "dispatch"
        /\ epoll_events' = IF body_complete THEN {} ELSE {"IN"}
  /\ UNCHANGED <<netVars, state, got, body_complete, batch_sig, batch_ev, view,
                 readVars, writeVars, worker, taskVars>>

----------------------------------------------------------------------------
(* close_conn, main.cpp:322-332, and the end of the loop *)

\* EPOLL_CTL_DEL, then feedError(); without a ConnectionIO the descriptor is
\* closed at once.
CloseFeed ==
  /\ loop = "close_feed"
  /\ epoll_events' = {}
  /\ \/ /\ state = "Active"
        /\ feedError
        /\ loop' = "close_write"
        /\ UNCHANGED state
     \/ /\ state = "ReadingHeaders"
        /\ state' = "closed"
        /\ loop' = "dispatch"
        /\ UNCHANGED <<read_error, worker>>
  /\ UNCHANGED <<netVars, got, body_complete, batch_sig, batch_ev, view,
                 body_prefix, read_chunk, body_bytes_fed, read_eof, writeVars,
                 taskVars>>

\* writeError(), close(fd), connections.erase.
CloseWrite ==
  /\ loop = "close_write"
  /\ writeError
  /\ state' = "closed"
  /\ loop' = "dispatch"
  /\ UNCHANGED <<netVars, got, body_complete, epoll_events, batch_sig, batch_ev,
                 view, readVars, taskVars>>

\* main.cpp:336 and 578-584: g_shutdown ends the loop after a batch, and
\* every connection that is left is closed.
Exit ==
  /\ Handled /\ shutdown
  /\ Goto("dispatch", IF state = "closed" THEN "exited" ELSE "close_feed")

----------------------------------------------------------------------------
(* The worker: handle_request, main.cpp:723-883.  The filter callbacks run   *)
(* in stage "headers" (onRequestHeaders), "body" (onRequestBody and          *)
(* onRequestTrailers) and "response" (the response phases and the writes at  *)
(* the end); any of them may stream response bytes through the sink.        *)

\* A step of the worker that leaves the bridge and the loop alone.
WorkerOnly ==
  UNCHANGED <<netVars, ctxVars, loopVars, readVars, writeVars>>

\* The pool starts the task (main.cpp:503).
Start ==
  /\ worker = "queued"
  /\ worker' = "handling"
  /\ WorkerOnly /\ UNCHANGED taskVars

\* writeData() is called with the next n bytes of the response (an empty
\* argument returns at once, connection_io.h:149).
BeginWrite(n) ==
  /\ worker = "handling"
  /\ produced + n <= MaxResponse
  /\ chunk' = Bytes(produced, n)
  /\ produced' = produced + n
  /\ worker' = "writing"
  /\ WorkerOnly /\ UNCHANGED <<stage, consumed, local, outcome>>

\* The predicate of write_cv_.wait, connection_io.h:152-154 and 167-169; the
\* faulty variant does not wait.
WriteAtOnce == TRUE
WriteReady == write_buffer = <<>> \/ write_error

\* connection_io.h:148-175.
writeData ==
  /\ worker = "writing"
  /\ \/ /\ ~WriteReady
        /\ worker' = "write_sleep"
        /\ UNCHANGED <<writeVars, chunk>>
     \/ /\ WriteReady /\ write_error
        /\ worker' = "handling"
        /\ chunk' = <<>>
        /\ UNCHANGED writeVars
     \/ /\ WriteReady /\ ~write_error
        /\ worker' = "handling"
        /\ write_buffer' = chunk
        /\ write_cursor' = 0
        /\ write_pending' = TRUE
        /\ signal_eventfd
        /\ chunk' = <<>>
        /\ UNCHANGED <<finished, write_error>>
  /\ UNCHANGED <<netVars, ctxVars, loopVars, readVars, stage, consumed, local,
                 produced, outcome>>

\* A condition variable may wake the worker without a notification.
SpuriousWakeup ==
  /\ \/ worker = "read_sleep" /\ worker' = "reading"
     \/ worker = "write_sleep" /\ worker' = "writing"
  /\ WorkerOnly /\ UNCHANGED taskVars

\* main.cpp:743-765: onRequestHeaders has returned; either the filter set a
\* local response and the body is not read at all, or the body phase starts
\* with the prefix that came with the headers.
EndHeaders ==
  /\ worker = "handling" /\ stage = "headers"
  /\ \/ /\ stage' = "response"
        /\ local' = TRUE
        /\ UNCHANGED consumed
     \/ /\ stage' = "body"
        /\ consumed' = Bytes(0, body_prefix)
        /\ UNCHANGED local
  /\ WorkerOnly /\ UNCHANGED <<worker, chunk, produced, outcome>>

\* main.cpp:769: the loop condition, while no local response is set.
BeginRead ==
  /\ worker = "handling" /\ stage = "body"
  /\ Len(consumed) < req.clen
  /\ worker' = "reading"
  /\ WorkerOnly /\ UNCHANGED taskVars

\* main.cpp:770, the argument of readBodyChunk.
want == Min(req.clen - Len(consumed), ChunkSize)

\* connection_io.h:281-283.
bodyCompleteLocked == body_bytes_fed >= req.clen

\* The predicate of read_cv_.wait, connection_io.h:102-105.
ReadReady ==
  Len(read_chunk) >= want \/ bodyCompleteLocked \/ read_eof \/ read_error

\* What readBodyChunk leaves in read_chunk_, connection_io.h:118-126; the
\* faulty variant erases one byte too many.
ReadRestSkips == SubSeq(read_chunk, want + 2, Len(read_chunk))
ReadRest == SubSeq(read_chunk, want + 1, Len(read_chunk))

\* The status readBodyChunk returns, connection_io.h:107-116 and 132-141; the
\* faulty variant reports an error before completeness.
ReadStatusErrorFirst ==
  CASE ReadRest # <<>> -> "data"
    [] ReadRest = <<>> /\ read_error -> "error"
    [] ReadRest = <<>> /\ ~read_error /\ bodyCompleteLocked -> "complete"
    [] OTHER -> IF read_eof THEN "truncated" ELSE "data"
ReadStatus ==
  CASE ReadRest # <<>> -> "data"
    [] ReadRest = <<>> /\ bodyCompleteLocked -> "complete"
    [] ReadRest = <<>> /\ ~bodyCompleteLocked /\ read_error -> "error"
    [] OTHER -> IF read_eof THEN "truncated" ELSE "data"

\* connection_io.h:100-144, and the checks of its result in main.cpp:771-793.
readBodyChunk ==
  /\ worker = "reading"
  /\ \/ /\ ~ReadReady
        /\ worker' = "read_sleep"
        /\ UNCHANGED <<read_chunk, writeVars, consumed, outcome>>
     \/ /\ ReadReady /\ ReadStatus \in {"error", "truncated"}
        /\ read_chunk' = ReadRest
        /\ setError
        /\ outcome' = ReadStatus
        /\ worker' = "done"
        /\ UNCHANGED consumed
     \/ /\ ReadReady /\ ReadStatus \in {"data", "complete"}
        /\ read_chunk = <<>>
        /\ setError
        /\ outcome' = "no_data"
        /\ worker' = "done"
        /\ UNCHANGED <<read_chunk, consumed>>
     \/ /\ ReadReady /\ ReadStatus \in {"data", "complete"}
        /\ read_chunk # <<>>
        /\ read_chunk' = ReadRest
        /\ consumed' = consumed \o
                       SubSeq(read_chunk, 1, Min(want, Len(read_chunk)))
        /\ worker' = "handling"
        /\ UNCHANGED <<writeVars, outcome>>
  /\ UNCHANGED <<netVars, ctxVars, loopVars, body_prefix, body_bytes_fed,
                 read_eof, read_error, stage, local, chunk, produced>>

\* main.cpp:769 and 796-806: the body is complete, or the filter set a local
\* response (in onRequestBody, or in onRequestTrailers when there is no body)
\* and the rest of it is not read.
EndBody ==
  /\ worker = "handling" /\ stage = "body"
  /\ stage' = "response"
  /\ \/ Len(consumed) >= req.clen /\ UNCHANGED local
     \/ (consumed # <<>> \/ req.clen = 0) /\ local' = TRUE
  /\ WorkerOnly /\ UNCHANGED <<worker, consumed, chunk, produced, outcome>>

\* conn->finish(), connection_io.h:178-182.
Finish ==
  /\ worker = "handling" /\ stage = "response"
  /\ finished' = TRUE
  /\ signal_eventfd
  /\ worker' = "done"
  /\ outcome' = "finished"
  /\ UNCHANGED <<netVars, ctxVars, loopVars, readVars, write_buffer,
                 write_cursor, write_pending, write_error, stage, consumed,
                 local, chunk, produced>>

\* setError() for any reason but the body: a failed parse (main.cpp:726-729),
\* an unfinished streaming response (811-815, 840-845, 854-858), or an
\* exception (504-512).
Abort ==
  /\ worker = "handling"
  /\ setError
  /\ worker' = "done"
  /\ outcome' = "exception"
  /\ UNCHANGED <<netVars, ctxVars, loopVars, readVars, stage, consumed, local,
                 chunk, produced>>

----------------------------------------------------------------------------

Client == ClientSend \/ ClientFin \/ ClientReset \/ ClientRead

Loop ==
  \/ EpollWait \/ DispatchClient
  \/ ReadEventfd \/ ScanError \/ ScanFinished \/ ScanDrained \/ ScanPending
  \/ RecvError \/ RecvEof
  \/ \E n \in 1..RecvSize : RecvHeader(n) \/ RecvBody(n)
  \/ pendingWriteData
  \/ \E n \in 1..MaxResponse : Send(n)
  \/ SendAgain \/ SendError \/ advanceWrite \/ OutPending \/ OutFinished
  \/ CloseFeed \/ CloseWrite \/ Exit

Worker ==
  \/ Start \/ EndHeaders \/ EndBody \/ Finish \/ Abort
  \/ \E n \in 1..MaxResponse : BeginWrite(n)
  \/ writeData \/ BeginRead \/ readBodyChunk

Next == Client \/ Signal \/ Loop \/ Worker \/ SpuriousWakeup

SafeSpec == Init /\ [][Next]_vars

\* The client sends its whole request, or closes its side.
ClientConcludes == req.fin \/ req.total >= req.hlen + req.clen

\* Both threads are scheduled: a thread that is not blocked keeps running.
\* What a client has to send arrives.  A client that concludes its request
\* also keeps reading, so that the socket keeps taking bytes; one that goes
\* quiet in the middle of its request owes nothing more.
Fairness ==
  /\ WF_vars(Loop) /\ WF_vars(Worker)
  /\ WF_vars(ClientSend) /\ WF_vars(ClientFin)
  /\ WF_vars(ClientConcludes /\ ClientRead)
  /\ SF_vars(ClientConcludes /\ \E n \in 1..MaxResponse : Send(n))

Spec == SafeSpec /\ Fairness

----------------------------------------------------------------------------
(* Properties *)

FlagsOK ==
  /\ eos \in BOOLEAN /\ reset \in BOOLEAN /\ room \in BOOLEAN
  /\ shutdown \in BOOLEAN /\ body_complete \in BOOLEAN
  /\ batch_sig \in BOOLEAN /\ signalled \in BOOLEAN
  /\ read_eof \in BOOLEAN /\ read_error \in BOOLEAN
  /\ write_pending \in BOOLEAN /\ finished \in BOOLEAN
  /\ write_error \in BOOLEAN /\ local \in BOOLEAN

\* Every variable has its type, and the byte counts stay within the
\* Content-Length, so that the unsigned differences of main.cpp:520 and 770
\* do not wrap around.
TypeOK ==
  /\ FlagsOK
  /\ req \in Requests
  /\ arrived \in Nat
  /\ delivered \in Seq(Nat)
  /\ state \in {"ReadingHeaders", "Active", "closed"}
  /\ got \in Nat
  /\ epoll_events \subseteq {"IN", "OUT"}
  /\ loop \in LoopStates
  /\ batch_ev \subseteq {"IN", "OUT", "ERR"}
  /\ view \in Seq(Nat)
  /\ body_prefix \in 0..req.clen
  /\ read_chunk \in Seq(Nat)
  /\ body_bytes_fed \in 0..req.clen
  /\ write_buffer \in Seq(Nat)
  /\ write_cursor \in Nat
  /\ worker \in WorkerStates
  /\ stage \in {"headers", "body", "response"}
  /\ consumed \in Seq(Nat)
  /\ chunk \in Seq(Nat)
  /\ produced \in Nat
  /\ outcome \in Outcomes

\* The filter sees the request body as the client sent it: the bytes handed
\* over so far are bytes 1, 2, ... in order, none of them lost between prefix,
\* read_chunk_ and the worker and none beyond the Content-Length, and a
\* request that goes on to its response without a local response has been
\* given the whole body.
BodyIntact ==
  /\ consumed = Bytes(0, Len(consumed))
  /\ Len(consumed) <= req.clen
  /\ stage = "body" /\ worker # "done" =>
       consumed \o read_chunk = Bytes(0, body_bytes_fed)
  /\ stage = "response" /\ ~local => Len(consumed) = req.clen

\* handle_request gives up on a body only for a reason: the "returned no data
\* before completion" branch (main.cpp:784) is never taken, "truncated" means
\* that the client closed its side before it sent the whole body, and "error"
\* means that the connection broke, or the server is shutting down, before
\* the whole body had been fed.
NoFalseAbort ==
  /\ outcome # "no_data"
  /\ outcome = "truncated" => eos /\ req.total < req.hlen + req.clen
  /\ outcome = "error" => (reset \/ shutdown) /\ body_bytes_fed < req.clen

\* pendingWriteData() returns a view of write_buffer_ that send() reads after
\* the mutex is released: until advanceWrite() neither the buffer nor the
\* cursor may change under it.
ViewStable ==
  /\ loop = "send" =>
       view = SubSeq(write_buffer, write_cursor + 1, Len(write_buffer))
  /\ loop = "advance" =>
       view = SubSeq(write_buffer, write_cursor + 1, write_cursor + Len(view))

\* The client receives the response bytes in the order they were written,
\* without gaps; and when the worker ended with finish(), the connection is
\* closed only after every byte was sent, unless the connection broke or the
\* server is shutting down.
ResponseDelivered ==
  /\ delivered = Bytes(0, Len(delivered))
  /\ state = "closed" /\ outcome = "finished" /\ ~reset /\ ~shutdown =>
       Len(delivered) = produced

\* No lost wakeup between the threads.  When the loop goes back to
\* epoll_wait(), pending response bytes have EPOLLOUT armed or the eventfd
\* signalled, and an error or a finished response that is fully sent has the
\* eventfd signalled.  A worker sleeps only while its predicate is false.
NoLostWakeup ==
  /\ loop = "dispatch" /\ Handled /\ state = "Active" =>
       /\ write_pending => "OUT" \in epoll_events \/ signalled
       /\ write_error => signalled
       /\ isFinished => signalled
  /\ worker = "read_sleep" => ~ReadReady
  /\ worker = "write_sleep" => write_buffer # <<>> /\ ~write_error

\* EPOLLIN is handled on an Active connection only while body bytes are
\* missing, so recv() never takes bytes that main.cpp:516 would throw away.
RecvOnlyForBody ==
  loop = "recv" /\ state = "Active" =>
    ~body_complete /\ body_bytes_fed < req.clen

\* With a client that cooperates every request ends: the worker leaves
\* handle_request and the loop closes the connection.
RequestEnds ==
  worker = "queued" /\ ClientConcludes ~> worker = "done" /\ state = "closed"

\* Shutdown needs nothing from the client: a worker blocked in readBodyChunk()
\* or writeData() for a client that has gone quiet is released, and the loop
\* exits, so pool.shutdown() (main.cpp:1491) can join.
ShutdownReleases ==
  shutdown ~> loop = "exited" /\ worker \in {"none", "done"}

(* What the code's own comments say, and the model refutes *)

\* "64 KB limit for request headers" (main.cpp:69, applied under "Guard
\* against oversized headers", main.cpp:460): a connection is dropped before
\* its request was handed to a worker only if the client broke it off, the
\* server is shutting down, or the headers exceed MAX_HEADER_SIZE.
OnlyOversizedRejected ==
  state = "closed" /\ worker = "none" =>
    reset \/ eos \/ shutdown \/ req.hlen > MaxHeader

\* "Drain the thread pool - all in-flight requests finish" (main.cpp:1489; and
\* README.md:581-582): a shutdown costs no request its response.  When the
\* worker ended with finish() and the connection did not break, the client was
\* sent the whole response.
InFlightFinish ==
  state = "closed" /\ outcome = "finished" /\ ~reset =>
    Len(delivered) = produced
=============================================================================
