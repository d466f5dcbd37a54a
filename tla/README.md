# Verification of lswasm

lswasm is an HTTP and LSAPI server that runs proxy-wasm filters. This directory
holds TLA+ modules translated from its source, TLC configurations that check
them on small instances, and proofs checked by TLAPS. `PROJECT.json` maps every
definition to the lines it models and lists runs, mutants, hazards, findings and
theorems.

Run everything from this directory:

    tlc -config HttpServer.cfg HttpServer
    tlc -config ModuleManager.cfg ModuleManager
    tlc -config Connection.cfg Connection          (and the other Connection*.cfg)
    tlc -config SampleFilters.cfg SampleFilters
    tlc -config FilterHead.cfg FilterChain
    tlc -config LsapiRequest.cfg LsapiRequest      (and LsapiUnread.cfg)
    tlc -config LsapiPrefork.cfg LsapiPreforkMC    (and LsapiPreforkLive.cfg)
    tlapm HttpServerProofs.tla                     (and the other *Proofs.tla)

## Inventory

All paths are below `src/src/`, those of the samples below `src/samples/`.

| Part | State | Operations | Interacts with |
|---|---|---|---|
| Thread pool (`thread_pool.h`) | `tasks_`, `stop_`, one mutex, one condition variable, the workers | `submit`, `shutdown`, `worker_loop` | the loop submits requests, `main` shuts it down |
| ConnectionIO (`connection_io.h`) | read side: prefix, `read_chunk_`, byte counter, eof and error flags; write side: buffer, cursor, pending, finished and error flags; a mutex and a condition variable each | worker: `readBodyChunk`, `writeData`, `finish`, `setError`; loop: `feedBody`, `feedError`, `writeError`, `pendingWriteData`, `advanceWrite`, the queries | shared by the loop and one worker; the worker wakes the loop through an eventfd |
| HTTP event loop (`main.cpp:244-585`) | the connection table (`ConnCtx`), epoll registrations, the batch of events | accept, eventfd scan, EPOLLIN, EPOLLOUT, close, exit | owns every socket; submits to the pool |
| HTTP request handling (`main.cpp:723-1003`) | `HttpData`, the filter context, the sink | headers, body, trailers, response phases, local and streaming responses | runs in a worker, blocks in ConnectionIO |
| Filter chain and sinks (`http_filter.h`, `*_response_sink.h`) | streaming state, local response | one callback per phase; `sendHeaders`, `writeBody`, `finishBody` | called by both request handlers |
| Module manager (`wasm_module_manager.*`) | loaded modules, a WASM instance per request scope, metrics | `loadModule`, `createRequestScope`, metric operations | shared by all workers |
| LSAPI request I/O (`lsapilib.c`) | request buffer, response buffer, iovec, request state bits | `readReq`, `ReadReqBody`, `Write`, `Flush`, `Finish`, `End_Response` | one connection per child process |
| LSAPI prefork server (`lsapilib.c`) | child table and counters in shared memory, limits, signal flags | fork on demand, SIGCHLD, check of children, idle exit | parent and children share memory and the listen socket |
| LSAPI request handling (`main.cpp:1040-1296`) | one request, the module loaded flag | `run_lsapi_loop`, `lsapi_handle_request` | LSAPI library, filter chain |
| Sample filters (`sample_filter/`, `send_recv_all/`, `send_recv_stream/`) | preamble, accumulated body, whether streaming is supported | request callbacks that answer locally or stream an echo | run as filters of the chain |
| Listeners and start (`main.cpp:602-711, 1304-1512`) | the listen socket, the socket file | `start_tcp`, `start_uds`, cleanup, shutdown sequence | everything above |

What is hard here: two threads per connection that share buffers and wake each
other through two condition variables and one eventfd; data handed from one
mutex to another, and read outside both; half-closes, resets and shutdown at any
moment; unsigned byte counters; and, on the LSAPI side, processes that share
counters and die at any point. Around all this, one loop, one eventfd and one
queue serve many connections whose descriptor numbers are used again, instances
of the program share a socket path, and all workers share the module manager and
its metrics. `hazards` in `PROJECT.json` lists each of these at
its line.

What makes each part correct:

- thread pool: FIFO, each accepted task once, no wakeup lost, `shutdown()`
  drains and returns;
- bridge and loop: body and response bytes complete and in order, no request
  given up without a reason, no wakeup lost, a closed connection only when
  nothing is left to do, every request ends;
- the process: table, descriptors and queue agree, no connection is forgotten or
  closed without cause, a signal always ends the process, the socket file is there
  while the server listens and gone when it has left;
- module manager: it outlives every task that uses it, and metric values are what
  the calls of all workers add up to;
- filter chain: one response head per request, no write after the end of the
  response, callbacks in phase order;
- samples: the echo holds the whole request, also when the host refuses to stream;
- LSAPI I/O: packets well formed whatever the sizes, requests on one connection
  do not bleed into each other;
- prefork: limits kept, counters equal to what they count, no signal to a
  process that is gone.

## Modules

**TaskQueue** is what the pool promises its callers (`thread_pool.h:28-34,
57-61, 72-75`), without threads: tasks are accepted while the pool is open,
start in FIFO order, end, and the pool is drained once nothing is left.

**ThreadPool** models `thread_pool.h`. `tasks` and `stop` are the fields,
`worker` and `caller` say where each thread is, `current` is the worker's local
variable; `offered`, `accepted` and `runs` are history. A critical section on
`mutex_` is one action (`Submit`, `Shutdown`, `Block`, `Exit`, `Take`); the
notifications, sent after the mutex is released, are actions of their own
(`NotifyOne`, `NotifyAll`), and so are the task (`Run`) and the end of the join
loop (`Join`). A condition variable may also wake up spuriously. The refinement
mapping to TaskQueue hides the workers: the running tasks are the abstract
`active`, the executed ones `ended`, a caller past its join loop is `drained`.

**ModuleManager** extends ThreadPool: what was one step there, the task, is spelt
out (`CreateRequestScope` or `NoScope`, the calls of the filter, `EndTask`), and
`main()` gets the steps that concern the manager: the stages of `loadModule`, each
of which may fail, its publication, and `ResetManager` after the pool is drained
(`main.cpp:1510`). The metric store is a map from id to name, type and value with
one counter of ids per kind; there are `IdSpace` ids and the counters wrap. Metric functions are
called only from a filter's code, so only while a scope is open. The VM of a thread
is external; it may live on after the request, and with it the ids its filter was
given (`known`). `due` is history: the value each name should have.

**Connection** models one connection: `connection_io.h`, what
`accept_connections` does for one descriptor, and the control of
`handle_request`. Three actors interleave.

- The client and the kernel: `req` is chosen once (header size, Content-Length,
  how many bytes are really sent, whether the client half-closes), `ClientSend`
  and `ClientFin` make bytes and the FIN arrive, `ClientReset` breaks the
  connection at any moment, `ClientRead` makes room in the socket. These are
  external, modelled from how the loop uses the socket.
- The loop: `EpollWait` collects a batch (the eventfd and the client's events,
  level-triggered) and the batch is handled in any order, as the kernel may
  report it in any order. `ReadEventfd` and the `Scan...` actions are the eventfd
  branch (one action per lock), `Recv...` the EPOLLIN branch, `pendingWriteData`,
  `Send`, `SendAgain`, `SendError`, `advanceWrite`, `OutPending` and `OutFinished`
  the EPOLLOUT branch, `CloseFeed` and `CloseWrite` are `close_conn`, `Exit` the
  end of the loop at shutdown. An empty `epoll_events` is a descriptor that is
  not registered (`update_epoll`).
- The worker: `Start`, then stages `headers`, `body` and `response`. In each the
  filter may write response bytes (`BeginWrite`, `writeData`). `BeginRead` and
  `readBodyChunk` are the body loop, `Finish` and `Abort` the ends. In `reading`
  and `writing` the worker is about to evaluate the predicate of a wait; in
  `read_sleep` and `write_sleep` it is blocked and runs again only when the code
  notifies it (or spuriously).

Bytes are numbers: byte *i* of the body, and of the response, is *i*. What they
contain does not matter to any property; that none is lost, repeated or moved
does. Header bytes are only counted. The 431 answer (`main.cpp:462-465`) is sent
outside the bridge and is not counted as a response of the worker.
`bytes delivered` are bytes `send()` took. The destructor of the filter
context, which may call the filter once more after `finish()`, is in FilterChain.

The modules named after a model with **Proofs** at the end (ThreadPoolProofs,
ModuleManagerProofs, ConnectionProofs, ConnectionDeliveryProofs, HttpServerProofs,
FilterChainProofs, LsapiRequestProofs, LsapiPreforkProofs) extend it with its
inductive invariant and the theorems; they are described under Proofs.

**HttpServer** models the process: start of the listener, the loop over all
connections, the pool behind it, signal and shutdown. Its grain is coarser than
Connection's: a request is headers and perhaps a body, a response is one call of
`writeData` or two, and the eventfd scan over all connections (lock by lock in
Connection) and each branch for a client is one action. `send()` takes what was
written (`OutSend`), takes a part or nothing because the client does not read
(`OutBlocked`, for the clients in `Slow`, until `ClientRead`), or fails
(`OutError`); the second `writeData` waits for the first to be sent. What is detailed is
what connections do to each other: `EpollWait` collects a batch over all
descriptors; `Accept` takes the lowest free descriptor, or fails at the limit;
events in the batch may belong to a connection that was closed since, and then meet
the one that got its number (`batch` remembers whose they were); `event_fd` and
`tasks` are shared. `AcceptUnwatched` is an `epoll_ctl` that fails, `EpollFails` an
`epoll_wait` that does. The steps of `start_tcp` and `start_uds` (`Construct`,
`RemoveStale`, `Bind`, `Listen`) may each fail (`StartFails`). `OtherUnlink` and
`OtherBind` are what another instance does to the socket file, up to `MaxMeddle`
times and only before the first client; the clients of the runs use the UNIX socket,
and the TCP listener is modelled without clients, as the loop does not tell them
apart. Clients connect, send, read, half-close and reset at will.

**FilterChain** models one request from the first callback to the last, over
either transport (`sink`): `handle_request` and `lsapi_handle_request` of
`main.cpp`, the phases of `http_filter.h`, the streaming calls and
`sendLocalResponse` of `wasm_module_manager.h`, and the two sinks. `phase` and
the position in the list of filters say which callback runs; in a callback a
filter may start, continue and finish a streaming response, answer locally, or
throw. A module whose scope cannot be created takes no part in the request. The
end of each phase is one action with the decisions the host makes there
(`EndRequestHeaders`, `EndRequestBody`, ...), the response the host writes is
`RespondHead`, `RespondBody`, `RespondFinish`, and the filters' last callback is
`Done`. Headers and bodies are reduced to what was sent and how often; header
fields added after the LSAPI head was put together are kept apart
(`stray_headers`), since they change the head that is still in the iovec. Over HTTP
the handler ends with `finish()` or `setError()` (`outcome`). The LSAPI handler
only returns: it discards the results of the sink (`main.cpp:1144, 1176, 1219,
1246`), and `LSAPI_Finish_r` ends the response on every path.

**SampleFilters** extends FilterChain: each module of the chain is one of the three
samples or a filter that may do anything. A sample's callback is the list of calls it
makes (`todo`), taken one by one so that each may fail; its text is a sequence of
pieces, 0 for the preamble and *i* for the *i*-th piece of the body. The host ignores
the status a callback returns (`http_filter.h:143-240`), so the samples'
`StopIteration` has no effect and is left out.

**LsapiRequest** models a child process: `run_lsapi_loop` of `main.cpp` and, from
`lsapilib.c`, `LSAPI_Prefork_Accept_r` in a child, `readReq`,
`LSAPI_ReadReqBody_r`, `LSAPI_Write_r`, `LSAPI_Flush_r`, `lsapi_writev` and
`LSAPI_Finish_r`. Bytes carry their identity: byte *i* of request *r* on the way
in; the number of the response byte, or the packet length announced, on the way
out. The iovec holds references, and memory is read only when `writev()` is
called, so that a buffer or a packet header used again too early shows. The web
server (external) sends whole requests, one at a time, closes at any moment, and
takes any part of what is written. It is assumed that bytes from the middle of a
packet or of a body do not look like a packet header. Buffers that grow
(`allocateBuf`) have their final size from the start; `LSAPI_ACCEPT_NOTIFY` is off.
The handler uses the sink as its contract says; what happens when it does not is
FilterChain's question.

**LsapiPrefork** models the parent, `lsapi_sigchild` and the children around the
shared table (`lsapilib.c:2763-3365, 3572-3746`). Each access of a child to
shared memory is an action (`SetConnected` and `CountBusy`, `Announce` and
`CountAccepting`, ...), so that it can die in between; `ChildDies` may happen at
any point. The check of the children proceeds slot by slot, and `kill()` is an
action of its own because the table may change before it: the child may have been
replaced by 0 (`KillGroup`), or be gone by the time of the call (`KillGone`,
ESRCH). `Exit` is the stop flag at the top of the loop or an `accept()` that fails
for good. Time is a choice.
Process ids are used again. **LsapiPreforkMC** adds the symmetry of process ids.

Each mutant named in `PROJECT.json` is a *faulty variant* defined next to the
definition it replaces; no specification uses it.

## Runs

| Run | Question | Bounds |
|---|---|---|
| `http_server` | `TypeOK`, `TableAgrees`, `NothingForgotten`, `SocketFile`, `ClosedForCause`, `StopsOnSignal`, `ServedEventually` | 2 clients, one with a body, the other may stop reading once, 1 or 2 descriptors, 1 worker, 2 calls of other instances |
| `pool_and_manager` | `ManagerTypeOK`, `NoLostWakeup`, `DrainedOnReturn`, `ManagerOutlivesTasks`, `MetricsExact`, refinement of TaskQueue with its liveness, `ShutdownReturns` | 2 workers, 2 callers, 3 tasks, 3 metrics of 2 types, eight ids, 3 metric calls |
| `connection` | all safety properties of one connection | header limit 2, recv 2, chunk 1, body up to 2, 1 surplus byte, response up to 2 |
| `connection_live` | `RequestEnds`, `ShutdownReleases` | sizes 1, response up to 2 |
| `header_limit` | refutes `OnlyOversizedRejected` | header limit 2, recv 2, body up to 2 |
| `shutdown_in_flight` | refutes `InFlightFinish` | one response byte |
| `filter_chain` | order of callbacks, local and streaming responses, one LSAPI response, the samples' echo | 2 filters, both transports, a body of up to 2 chunks, 10 calls to the host, 3 of them by filters that do anything |
| `double_head` | refutes `HeadOnce` | 1 filter |
| `lsapi_requests` | `TypeOK`, `ResponseInOrder`, `TotalIsLength`, `Framed`, `InStep`, `BodyInOrder` | 2 requests, bodies up to 3 read by 2, packet header 2, packet 3, buffer 4; a first request without a body may be answered by 7 bytes, buffer 2, packets of 3, 3 packet headers |
| `unread_body` | refutes `NextRequestFollows` | 2 requests, no response body |
| `lsapi_prefork` | `TypeOK`, `ChildrenTracked`, `RoomForChild`, `CountersExact` | 2 children, 3 process ids, backlog 1, one death between two updates |
| `lsapi_prefork_live` | `ConnectionAccepted` | 2 children, backlog 1 |

Why the bounds are enough. Pool: one task more than workers, so that a worker
takes a second task while the other sleeps; two callers, so that `submit()`
races `shutdown()` and a second `shutdown()`. Manager: one worker defines a metric the
other is about to define or adds to; three names of one type go round the
eight ids. Three metric calls are not enough for both workers to define and then
update one metric (a fourth takes TLC past what a run may cost); `MetricsAreExact`
covers any number of calls. Server: with one descriptor the second client waits in the backlog until the
first has gone; with two, a batch holds events of both and of the listener,
so that one is closed and its number given away while its event waits; one worker
makes the second request queue behind a request whose body does not come, or behind a
second `writeData` that waits for a client to read; two calls of
another instance are enough to remove a file and put another one. Filters: two, so that
one may answer before the other is called; a streaming response is three calls, two
streaming samples with their fallback make ten. Connection: headers may exceed the
limit by one; a `recv()` may end in the headers, at their end, in the body, at
its end or beyond it; a body of two one-byte chunks makes `read_chunk_` hold
less than, as much as, and more than is asked for; two response bytes can be one
write sent in two pieces or two writes of which the second must wait. LSAPI
response: seven bytes in one write are three packets, one more than may be queued
before a flush (the code: four of five), and buffered bytes may go in front.
LSAPI requests: a `read()` may end within a packet header, within the packet, at its
end, or one byte into the body; a chunk of two bytes may then come from the buffer
and the stream, and a body of three takes a second, shorter one. Prefork: one child may be
anywhere while the other one dies and is replaced; a third process id shows one
child too many. With two children neither `idle` nor `m_iCurChildren` exceeds its
limit in the check, so the request to leave comes from the idle time alone there;
it has the same effect. What grows
with larger bounds is the number of repetitions of the same steps; the theorems
below cover all sizes for the properties they state.

Deadlock checking is off: a connection whose client stops is allowed to stop,
and so are a pool nobody uses, a request that has ended, and processes that have
exited.

What the runs show:

- `TableAgrees`: one entry per open connection and one queue entry per waiting
  request, whatever is closed, refused or accepted within a batch; the worker of a
  connection that is gone finds both error flags set.
- `NothingForgotten`: one eventfd is enough for all workers: what any of them left has
  an event that brings the loop back to that connection.
- `ClosedForCause`: a connection is closed because it was answered or given up by
  its worker, because its client left, or at the end of the loop; the one
  exception is a stale event of the previous owner of its descriptor (see below).
- `SocketFile`: the file is this instance's while it listens and is removed when it
  exits, unless another instance interfered.
- `StopsOnSignal`: a signal at any moment ends the process, whatever its clients do,
  also when a worker waits for a body that does not come or for a client that does
  not read.
- `ServedEventually`: a connection in the backlog or open is dealt with in the end, if
  the clients send the requests they began and read the responses, however late;
  without that, one silent client occupies a worker for ever, since there is no timeout
  (`main.cpp:771`, `connection_io.h:152`). It rests on EPOLLOUT staying armed when
  `send()` took less than all.
- `ManagerOutlivesTasks`: no task holds a scope once the manager is released.
- `MetricsExact`: no update of two workers is lost, up to the first id that wraps.
- `EchoComplete`: what a sample that answers alone has sent is at every moment a
  beginning of its echo (preamble and every piece of the body, in order), streamed or
  not and whichever calls fail. It is the whole echo if the request ends with
  `finish()`; over LSAPI, if no call of the sink failed and the body was read.
- `NoLostWakeup` (pool): a non-empty queue never waits for sleeping workers only.
- `DrainedOnReturn`, `ImplementsTaskQueue`: accepted means executed once, in
  FIFO start order, before `shutdown()` returns.
- `BodyIntact`: the filter sees exactly the bytes announced, in order.
- `NoFalseAbort`: the "no data" branch of `main.cpp:784` is dead, and the other
  two error branches are taken only for a client that stopped early, a broken
  connection or a shutdown. It rests on `readBodyChunk` testing completeness
  before the error flag.
- `ViewStable`: the memory `send()` reads without a lock is not touched.
- `ResponseDelivered`: in order, and complete before the connection is closed.
- `NoLostWakeup` (connection): whenever the loop goes back to `epoll_wait`,
  whatever the worker left for it has an event that will bring it back.
- `RecvOnlyForBody`: EPOLLIN is not handled once the body is complete.
- `RequestEnds`, `ShutdownReleases`: see below.
- `CallbackOrder`: each filter sees the phases in order, and exactly one end of
  stream. `LocalStopsChain`: no later filter is called once one has answered.
- `AnsweredOnce`: a request that succeeds was answered by exactly the response the
  filters asked for, whole. Over HTTP success is `finish()`. The LSAPI handler reports
  none; there it is claimed when no call of the sink failed, the body was read, and
  what was streamed was finished. In the other cases the code ends a response that was
  cut like a whole one, unless it was the connection that failed.
- `LsapiOneResponse`: the web server gets one head and one end, also when the
  handler gave up before it wrote anything.
- `ResponseInOrder`, `TotalIsLength`, `Framed`: what the web server reads is the
  response in well-formed packets, whatever the sizes of the writes and however
  `writev()` cuts them.
- `InStep`, `BodyInOrder`: requests on one connection do not bleed into each
  other, except after a `read()` shorter than a packet header (`lsapilib.c:1388`
  then reads to the start of the buffer again) and after a body that was not read
  to the end; the history variable `excuse` records both.
- `ChildrenTracked`, `RoomForChild`: the blocked section around `fork()` is enough
  for the table to agree with the processes there are.
- `CountersExact`: the shared counters are right up to the children that died
  between two updates, each of which leaves its counter one too low for ever. They
  are never too high.
- `ConnectionAccepted`: parent and children do not leave a connection to each
  other for ever.

### Fairness

Pool and manager: weak fairness for each thread inside the pool; tasks return, and
so do the filters' callbacks they consist of. Nobody has to call `submit()` or
`shutdown()`.

Server: weak fairness of the main thread (one condition for start, loop and end) and
of each worker.
Clients, signals and other instances are free, and `epoll_wait` need not fail.
`ServedEventually` states its assumption on the clients, weak fairness of
`ClientSend` and `ClientRead`, within the property; `StopsOnSignal` needs none.

Connection: weak fairness of the loop and of the worker (two threads the
operating system schedules), and of the arrival of what the client sends. The
worker's weak fairness includes that a filter does not write for ever, which the
bound `MaxResponse` states, and that its callbacks return. A client that
concludes its request (sends it all, or half-closes) is also assumed to keep
reading, and `send()` to take bytes again and again while it does (strong
fairness of `Send`: without it EAGAIN could be the answer for ever).
`ShutdownReleases` needs none of the client's fairness: it is stated for every
client.

Prefork: weak fairness of the parent, of each child and of the delivery of
SIGCHLD; the web server closes a connection sooner or later, however often it is
used (strong fairness of `CloseCount`), since at the limit nobody else can give
way. Children may die or leave whenever they like.

FilterChain, SampleFilters and LsapiRequest are checked for safety only.

## Findings

Four statements in the code's comments are refuted by runs of their own.

1. `header_limit`: `main.cpp:461` compares everything received so far with
   `MAX_HEADER_SIZE`, before it looks for the end of the headers. A request with
   small headers is answered 431 when its headers arrive in two pieces and the
   second `recv()` also returns enough body bytes.
2. `shutdown_in_flight`: the loop closes all connections (`main.cpp:579`) before
   `main` drains the pool (`main.cpp:1491`), so "all in-flight requests finish"
   (`main.cpp:1489`) holds for the workers and not for the clients.
3. `double_head`: a filter that starts a streaming response and then answers
   locally in a request phase makes the host write a second head
   (`main.cpp:748`, `main.cpp:1139`), which the sink's contract excludes
   (`response_sink.h:44`). Only the response phases test for it.
4. `unread_body`: `LSAPI_Finish_r` begins with "finish req body"
   (`lsapilib.c:1612`) and leaves what the handler did not read. On a kept
   connection the next request is read from the middle of the old body and
   refused.

Met while modelling, without a statement to hold it against: `kill()` reads
`m_pid` again after the test (`lsapilib.c:3047, 3094`), and when the runaway child
ends in between the parent signals its own process group and stops (`KillGroup`
of LsapiPrefork); `feedBody` appends without a limit. In the server:

- an event of a connection that was closed earlier in the batch is applied to the
  connection that got its descriptor number; a stale EPOLLHUP closes a new and healthy
  connection (`main.cpp:419`). `ClosedForCause` has this exception and no other;
- `start_uds` removes whatever is at the path, the file of a running instance
  included, and so does the destructor of the temporary server at construction; failed
  starts close `server_socket_` in `start_*` and again in the destructor;
- `loadModule` tests the name and publishes the module in two separate lock sections
  (the program loads once, so nothing comes of it);
- a metric id that wraps names an old entry: `emplace` keeps it, and the new metric's
  updates go to the old one. With ids of 32 bits this takes 2^30 metrics;
- after a failed `sendResponseHeaders` over LSAPI the fallback of `send_recv_stream` to
  a local response cannot succeed either, since the sink's error is sticky: its body is
  dropped, the handler does not look at the result, and the web server gets a response
  that ends normally and lacks the echo;
- the log line at `main.cpp:1281` promises a 500 when the module cannot be loaded; the
  child finishes the request without a response of its own and leaves.

## Proofs

Every theorem holds for all values of the constants that satisfy the `ASSUME` of
its module, and so for every number of workers, clients, descriptors, process ids,
modules and bytes:

| Assumption | Says |
|---|---|
| `PoolAssumption` | there is a worker (`thread_pool.h` starts at least one); `NoTask` is no task |
| `MetricAssumption` | metric types are numbers, there are at least four ids (the code has 2^32), calls are bounded by a number |
| `SizeAssumption` | header limit, recv size and chunk size are positive |
| `ServerAssumption` | at least one descriptor and one worker; `NoClient` is no client; bodies and slow readers are those of clients, stalls are bounded by a number |
| `ChainAssumption`, `SampleAssumption` | the bounds are numbers |
| `LsapiAssumption` | all sizes are positive; a request packet is longer than a packet header and fits into the request buffer; the response buffer is shorter than a packet may be (`lsapidef.h`, `lsapilib.h`); there are two packet headers or more, and the iovec has two slots for each and one more |
| `PreforkAssumption` | finitely many process ids, at least as many as children allowed, neither 0 nor -1 among them; more than one child; positive limits |

The theorems are stated for `SafeSpec`, the specification without fairness (for
`MSpec` in ModuleManager), so they hold whatever the scheduler does. In each proof
module the invariant is a conjunction of named parts, the proof of a step has one
case per action, and each action is proved for each part it can disturb. TLC checked
each invariant on the bounds of its run before it was proved.

| Module | Theorems | Invariant |
|---|---|---|
| ThreadPoolProofs | `PoolTypeCorrect`, `PoolWakesUp`, `PoolDrains`, `PoolRefinesQueue` | `PoolInv` |
| ModuleManagerProofs | `ManagerTypeCorrect`, `ManagerOutlives`, `MetricsAreExact`; `ProcessWakesUp`, `ProcessDrains`, `ProcessRefinesQueue` | `ManagerInv` |
| ConnectionProofs | `TypeCorrect`, `ViewIsStable`, `BodyIsIntact` | `Base`, `BodyInv` |
| ConnectionDeliveryProofs | `AbortHasCause`, `ResponseIsDelivered`, `ConnectionWakesUp`, `ReceivesOnlyBody` | `DeliveryInv` |
| HttpServerProofs | `ServerTypeCorrect`, `TablesAgree`, `NothingIsForgotten`, `SocketFileKept`, `ClosesForCause` | `ServerInv` |
| FilterChainProofs | `FilterTypeCorrect`, `CallbacksInOrder`, `LocalResponseStopsChain`, `SuccessIsAnswered`, `LsapiAnswersOnce`, `SamplesAreFilters`, `EchoHasNoHole`, `EchoIsComplete` | `FilterInv`, `EchoInv`, `BeginsInv` |
| LsapiRequestProofs | `TypesCorrect`, `TotalCorrect`, `ResponseCorrect`, `FramedCorrect`, `InStepCorrect`, `BodyCorrect` | `TypeInv`, `FreshInv`, `WireInv`, `StepInv` |
| LsapiPreforkProofs | `PreforkTypeCorrect`, `PreforkTracksChildren`, `PreforkHasRoom`, `PreforkCounts` | `PreforkInv` |

Why the properties are not inductive as they stand, and what the invariants add:

**Thread pool.** `DrainedOnReturn` speaks of the end only. `QueueInv`, `CarryInv` and
`TaskInv` say at every moment where an accepted task is: in the queue once, with one
worker, or executed once. `ExitInv` says that a worker leaves only an empty and
stopped pool, and that a caller is past its join loop only when all workers left.
`PoolRefinesQueue` shows `SafeSpec => Abstract!SafeSpec`: `Submit`, `Take`, `Run` and
`Join` are steps of TaskQueue, the other actions leave its state alone.
ModuleManager's actions are actions of the pool or leave its state alone, which
carries the theorems over to the process (`ProcessWakesUp`, `ProcessDrains`,
`ProcessRefinesQueue`).

**Module manager.** `LifeInv` ties the manager to the pool: no task before the module is
loaded, and the manager released only after a `shutdown()` has returned. With
`DrainedOnReturn` this gives `ManagerOutlivesTasks`. `FreshIds` is what makes
`MetricsExact` inductive: until a counter has gone round, ids in use are below the
counter of their residue class, so that a new id meets no old entry.

**Connection, request side.** `ViewInv` adds to `ViewStable` that a view is not empty
and lies within the buffer, since `writeData` is excluded only by a buffer that is not
empty. `ReadInv` says that the worker asks for a chunk only while bytes are missing,
without which the type of `want` (an unsigned difference) is not kept. `BodyBytes`
gives, element by element, the number of each byte in `read_chunk_` and in what the
filter got, `BodyStages` how many there are in each stage, `BodyWhole` that a response
that is not a local one comes after the whole body. `BodyInvImplies` turns the element-wise facts
into the equalities of sequences that `BodyIntact` states.

**Connection, response side.** `RecvInv` accounts for the bytes received until the body
is complete. `EndInv` says why a flag may be set and why a connection may be closed;
`NoFalseAbort` and the second half of `ResponseDelivered` follow from it. `OutBytes` and
`OutCount` say where each response byte is (taken by `send()`, in the buffer, in the
argument of `writeData`) also between `send()` and `advanceWrite`, when the cursor lags
behind. `WakeInv` says, in the middle of a batch too, what is on its way to the loop;
`NoLostWakeup` is its consequence where the loop goes back to sleep.

**HTTP server.** `TableInv`, `BacklogInv` and `QueueInv` describe table, backlog and queue
as lists without repetition of exactly the connections in that state; `BridgeInv` says
what the worker has done to the bridge of a connection that is open, and that both
error flags are set for one that is closed. `AnnouncedInv` is `NothingForgotten` inside
a batch. `BatchInv` says whose a stale event may be: it is applied to the connection
it belongs to, or to one that has just taken its number and is still as `Accept` left
it. From this follows the action property `ClosedForCause`. The proof first puts the steps into
five kinds, described connection by connection, and then treats each part of the
invariant once per kind.

**Filter chain.** `CallbackOrder` is a statement about recorded callbacks. `OrderInv`
bounds them by the phase and the position of the loop; `EosInv` says when a module has
been told that the body is complete; `ChainInv` that modules that have not answered
have seen equally many callbacks up to that position, which gives `LocalStopsChain`.
`WireInv` and `LsapiInv` describe the bytes on the wire in each phase, for `AnsweredOnce`
and `LsapiOneResponse`. `SamplesAreFilters` shows `SSpec => SafeSpec`: the samples do
only what FilterChain lets an arbitrary filter do, so all of this holds of them.

**Samples.** `EchoComplete` says what is complete only of the end of a request. `EchoInv` follows a sample for
as long as no other module has answered (`Alone`) and the handler has not given the
request up (`Hopeful`). `Got` counts the pieces it was given, which inside the loop of a phase
differ from `body_consumed` for the modules not yet called. `Keeps` says that the text of
a sample that answers locally is the echo of those pieces. `Streams` relates the calls a
streaming callback has yet to make to what was sent: together they are the echo, unless
the sink has failed. `BeginsInv` is the part of `EchoComplete` about every moment; it is
kept because each text a step may send is a beginning of the echo (`PartBegins`), and
because a failed sink stays failed (`ErrorStays`) and takes nothing more, so that what is
sent after a failed call leaves no hole. `EchoIsComplete` adds the end: `finish()`
over HTTP, or a sink that has not failed over LSAPI, leaves only the case of `EchoInv`
in which the whole echo was sent.

**LSAPI request.** What the iovec refers to is a concatenation, defined by the recursive
function `Joined`. Its lemmas (`JoinedIs`, `JoinedAgree`, `JoinedShift`, `JoinedSkip`)
are proved by a smallest counterexample, since the induction theorems of the library
cannot be used. `Advances` shows that a partial `writev()` takes exactly the bytes that
were written off the vector; `HeaderQueued`, `BufQueued`, `PacketQueued` and `EndQueued`
show that each function that queues adds one whole packet. `EarlyInv` and `QueueInv` say
what the request side and the response side look like at each place of the process, for
instance how many slots of the iovec are in use when `LSAPI_Write_r` has used so many packet
headers, which is what keeps it inside the iovec. `Flow` is the heart of the second part: wire
and vector together are a sequence of packets that has not ended, and their bytes followed
by those in the buffer are the bytes given so far. Moving bytes from the vector to the
wire does not change it (`FullMoved`, `FlowSame`), and queueing a packet keeps it
(`FlowAdds`). `WireInv` applies it to the places of the process. The web server may begin its
next request, and look at an empty wire, when it has seen an end; `FreshInv` says that it
does so between two requests only, and the two invariants need each other
(`WireInvariant`). `StepInv` says which byte of which request is next on the stream, in the
buffer and for the filter, as long as nothing happened that `excuse` records. In step, a
body that was read to the end leaves nothing behind (`StepDone`), which carries the
invariant from one request to the next.

**Prefork.** `ChildrenTracked` is broken within `fork()` unless one knows where the child is
that is not on the books: `ParentInv` says which slot is reserved and that there is
room, `SlotInv` that children and slots belong to each other in both directions,
`RangeInv` that no slot in use lies beyond `m_pChildrenStatusCur`. `CurInv` equates
`m_iCurChildren` with the children on the books, `StateInv` the state in the table with
where the child is, for `CountersExact`.

Only model-checked:

- liveness: `StopsOnSignal`, `ServedEventually`, `ShutdownReturns`, `RequestEnds`,
  `ShutdownReleases`, `ConnectionAccepted`, and the fairness of TaskQueue in
  `ImplementsTaskQueue`. The proof system has no rules for `WF`, `SF` and `ENABLED`.

## Not modelled, and the plan

Still to do: that HttpServer's step of one connection is implemented by
Connection's.

Left out for good: the WASM runtime and the proxy-wasm host (third party); the
parsing and formatting of requests, responses, log lines and arguments (pure
functions of strings, whose results the models take as given); `unloadModule`,
`hasModule` and a second `loadModule`, which nothing calls; what happens inside the
stages of `loadModule` (each is a step that may fail) and metric calls a filter makes
while its VM is started and configured; children
stopped by job control, the parts of the LSAPI library lswasm does not call
(`LSAPI_Accept_Before_Fork`, sendfile, LVE and suEXEC), and `hash_shim.cc`.
