----------------------------- MODULE LsapiRequest -----------------------------
(***************************************************************************)
(* The LSAPI side of a child process: run_lsapi_loop (src/src/main.cpp:    *)
(* 1256-1296) and the request I/O of the LSAPI library (src/src/           *)
(* lsapilib.c): reading requests from a connection that is kept, reading   *)
(* their bodies, and the buffer, the packet headers and the iovec a        *)
(* response goes through.                                                  *)
(*                                                                         *)
(* The process is single-threaded; the web server at the other end is the  *)
(* second actor.  Byte i of request r is <<r, i>>, bytes 1..ReqLen are its *)
(* packet.  On the way out a byte is a pair: the kind of the piece it      *)
(* belongs to, and the packet length announced in it (in the first byte of *)
(* a packet header) or the number of the response byte.  The iovec refers  *)
(* to memory, which is only looked at when writev() is called.             *)
(***************************************************************************)
EXTENDS Naturals, Sequences

CONSTANTS
  PktHdr,       \* LSAPI_PACKET_HEADER_LEN
  ReqLen,       \* the length of a request packet
  ReqBufSize,   \* m_reqBufSize
  ChunkSize,    \* BODY_CHUNK_SIZE
  RespHdr,      \* sizeof(struct lsapi_resp_header)
  RespBufSize,  \* LSAPI_RESP_BUF_SIZE
  MaxPacket,    \* LSAPI_MAX_DATA_PACKET_LEN
  PktHeaders,   \* the length of m_respPktHeader
  IovecSize,    \* the length of m_pIovec
  MaxRequests,  \* bound: requests the web server sends
  MaxBody,      \* bound: the length of a request body
  MaxHeaders,   \* bound: response headers
  MaxResponse,  \* bound: response bytes of a request
  MaxLong       \* bound: the same, of a first request without a body

ASSUME LsapiAssumption ==
  /\ {PktHdr, ReqLen, ReqBufSize, ChunkSize, RespHdr, RespBufSize, MaxPacket,
      PktHeaders, IovecSize} \subseteq Nat \ {0}
  /\ {MaxRequests, MaxBody, MaxHeaders, MaxResponse, MaxLong} \subseteq Nat
  /\ PktHdr < ReqLen /\ ReqLen <= ReqBufSize
  /\ RespBufSize < MaxPacket
  /\ PktHeaders >= 2
  /\ 2 * PktHeaders + 1 <= IovecSize

VARIABLES
  \* the web server and the connection
  sreq,         \* the request of the server: number, body length, bytes sent,
                \* whether its packet is malformed, and whether the server
                \* waits for the end of a response
  peer_closed,  \* the server has closed the connection
  stream,       \* bytes on their way to the process
  wire,         \* what was written since the server began its request
  \* LSAPI_Request
  fd,           \* m_fd is not -1
  buffer,       \* the memory m_pReqBuf, and what lies behind it
  bufRead, bufProcessed, bodyLen, bodyRead,
  out,          \* the response side, see NoResponse
  \* the process
  pc,           \* where it is
  ret,          \* the caller of LSAPI_Flush_r
  todo, slot,   \* LSAPI_Write_r: bytes not yet queued, pHeader
  left,         \* lsapi_writev: bytes not yet written
  stage,        \* the life cycle of the sink (response_sink.h:43-47)
  sink_error,   \* error_ of the sink
  written,      \* response bytes given to LSAPI_Write_r
  given,        \* history: body bytes returned by LSAPI_ReadReqBody_r
  notified,     \* s_notified_pid: the parent's notice stands for the first ack
  module_loaded,
  leaving,      \* the loop is left after LSAPI_Finish_r
  shutdown,     \* g_shutdown
  excuse        \* history: why the connection may be out of step

netVars   == <<sreq, peer_closed, stream>>
readVars  == <<buffer, bufRead, bufProcessed, bodyLen, bodyRead>>
writeVars == <<ret, todo, slot, left>>
taskVars  == <<stage, sink_error, written, given>>
loopVars  == <<notified, module_loaded, leaving, shutdown>>

vars == <<netVars, wire, fd, readVars, out, pc, writeVars, taskVars, loopVars,
          excuse>>

Slots == 0..(IovecSize - 1)
NoEntry == [ref |-> "none", i |-> 0, off |-> 0, len |-> 0]

\* The response side of a request that begins: the iovec, the slots
\* m_pIovecCur and m_pIovecToWrite, m_totalLen, the memory m_pRespBuf and
\* m_pRespBufPos, the lengths in m_respPktHeader and in m_respHeader, the
\* header count, the bytes in m_pRespHeaderBuf, and two bits of m_reqState.
NoResponse ==
  [iov |-> [s \in Slots |-> NoEntry], cur |-> 1, towrite |-> 1, total |-> 0,
   mem |-> <<>>, pos |-> 0, pkt |-> [s \in 0..(PktHeaders - 1) |-> 0],
   hdrpkt |-> 0, cnt |-> 0, names |-> 0,
   RESP_HEADER |-> FALSE, RESP_BODY |-> FALSE]

\* A process without a parent, which accepts its connections itself, or a
\* forked child, which begins with a connection and a notice of its process id
\* (lsapilib.c:3323-3327).
Init ==
  /\ notified \in BOOLEAN
  /\ sreq = [num |-> 0, body |-> 0, sent |-> ReqLen, bad |-> FALSE,
             wait |-> FALSE]
  /\ peer_closed = FALSE
  /\ stream = <<>> /\ wire = <<>>
  /\ fd = notified
  /\ buffer = [i \in 1..(ReqBufSize + PktHdr) |-> <<0, 0>>]
  /\ bufRead = 0 /\ bufProcessed = 0
  /\ bodyLen = 0 /\ bodyRead = 0
  /\ out = NoResponse
  /\ pc = IF notified THEN "wait" ELSE "entry"
  /\ ret = "none" /\ todo = 0 /\ slot = 0 /\ left = 0
  /\ stage = "idle" /\ sink_error = FALSE /\ written = 0 /\ given = <<>>
  /\ module_loaded = FALSE /\ leaving = FALSE /\ shutdown = FALSE
  /\ excuse = {}

Least(a, b) == IF a <= b THEN a ELSE b

\* A packet header of n bytes that announces the packet length len.
PacketHeader(kind, n, len) ==
  [k \in 1..n |-> <<kind, IF k = 1 THEN len ELSE 0>>]

\* bytes stored in memory from offset off on
Store(memory, off, bytes) ==
  SubSeq(memory, 1, off) \o bytes \o
  SubSeq(memory, off + Len(bytes) + 1, Len(memory))

----------------------------------------------------------------------------
(* The web server.  It has one request at a time on a connection and sends   *)
(* all of it.                                                                *)

ReqBytes == ReqLen + sreq.body

Answered ==
  Len(wire) >= PktHdr /\ wire[Len(wire) - PktHdr + 1] = <<"end", PktHdr>>

ServerRequest ==
  /\ fd /\ ~peer_closed
  /\ sreq.num < MaxRequests
  /\ sreq.sent = ReqBytes
  /\ sreq.wait => Answered
  /\ \E body \in 0..MaxBody, bad \in BOOLEAN :
       sreq' = [num |-> sreq.num + 1, body |-> body, sent |-> 0, bad |-> bad,
                wait |-> TRUE]
  /\ wire' = <<>>
  /\ UNCHANGED <<peer_closed, stream, fd, readVars, out, pc, writeVars,
                 taskVars, loopVars, excuse>>

ServerSend ==
  /\ fd /\ ~peer_closed
  /\ \E n \in 1..(ReqBytes - sreq.sent) :
       /\ stream' = stream \o
                      [k \in 1..n |-> <<sreq.num, sreq.sent + k>>]
       /\ sreq' = [sreq EXCEPT !.sent = @ + n]
  /\ UNCHANGED <<peer_closed, wire, fd, readVars, out, pc, writeVars, taskVars,
                 loopVars, excuse>>

ServerClose ==
  /\ fd /\ ~peer_closed
  /\ peer_closed' = TRUE
  /\ UNCHANGED <<sreq, stream, wire, fd, readVars, out, pc, writeVars,
                 taskVars, loopVars, excuse>>

----------------------------------------------------------------------------
(* Waiting for a request: LSAPI_Prefork_Accept_r in a child,                 *)
(* lsapilib.c:3572-3746                                                      *)

\* lsapi_close_connection, lsapilib.c:420-430.
lsapi_close_connection == fd' = FALSE

\* The process ends, and its connection with it.
Leave ==
  /\ pc' = "exit"
  /\ lsapi_close_connection
  /\ UNCHANGED <<netVars, wire, readVars, out, writeVars, taskVars, loopVars,
                 excuse>>

\* lsapilib.c:3591-3602: a kept connection is closed, with a notice, when too
\* many workers are busy, and the process leaves when it has handled its share
\* of requests.
Entry ==
  /\ pc = "entry"
  /\ \/ /\ pc' = "wait"
        /\ UNCHANGED <<wire, fd>>
     \/ /\ fd
        /\ pc' = "wait"
        /\ wire' = wire \o PacketHeader("close", PktHdr, PktHdr)
        /\ lsapi_close_connection
  /\ UNCHANGED <<netVars, readVars, out, writeVars, taskVars, loopVars, excuse>>

EntryLeave == pc = "entry" /\ Leave

\* lsapilib.c:3691-3714.
AcceptConnection ==
  /\ pc = "wait" /\ ~fd
  /\ fd' = TRUE
  /\ peer_closed' = FALSE /\ stream' = <<>> /\ wire' = <<>>
  /\ sreq' = [sreq EXCEPT !.sent = ReqBytes, !.wait = FALSE]
  /\ excuse' = {}
  /\ UNCHANGED <<readVars, out, pc, writeVars, taskVars, loopVars>>

\* lsapilib.c:3686-3690, 3723-3724: the kept connection is readable.
Readable ==
  /\ pc = "wait" /\ fd
  /\ stream # <<>> \/ peer_closed
  /\ pc' = "head"
  /\ UNCHANGED <<netVars, wire, fd, readVars, out, writeVars, taskVars,
                 loopVars, excuse>>

\* lsapilib.c:3625-3629, 3652-3690: stopped, asked to leave (even after a
\* request was reported), or idle for too long.
WaitLeave == pc = "wait" /\ Leave

\* LSAPI_Reset_r, lsapilib.c:1675-1683.  The memory of the request buffer is
\* kept.  The faulty variant forgets m_bufRead.
ResetKeepsBufRead ==
  /\ out' = NoResponse
  /\ bufProcessed' = 0 /\ bodyLen' = 0 /\ bodyRead' = 0
  /\ UNCHANGED <<buffer, bufRead>>
LSAPI_Reset_r ==
  /\ out' = NoResponse
  /\ bufRead' = 0 /\ bufProcessed' = 0 /\ bodyLen' = 0 /\ bodyRead' = 0
  /\ UNCHANGED buffer

\* lsapilib.c:3741-3742: readReq() has failed.
Refuse ==
  /\ lsapi_close_connection
  /\ LSAPI_Reset_r
  /\ pc' = "wait"

----------------------------------------------------------------------------
(* readReq, lsapilib.c:1374-1443 *)

\* lsapilib.c:1386-1392: each read() goes to the start of the buffer.
ReadHead ==
  /\ pc = "head"
  /\ \/ LET n == Least(Len(stream), ReqBufSize) IN
        /\ stream # <<>>
        /\ buffer' = Store(buffer, 0, SubSeq(stream, 1, n))
        /\ stream' = SubSeq(stream, n + 1, Len(stream))
        /\ bufRead' = bufRead + n
        /\ pc' = IF bufRead + n < PktHdr THEN "head" ELSE "verify"
        /\ excuse' = IF bufRead + n < PktHdr THEN excuse \cup {"short_head"}
                                             ELSE excuse
        /\ UNCHANGED <<fd, out, bufProcessed, bodyLen, bodyRead>>
     \/ /\ stream = <<>> /\ peer_closed
        /\ Refuse
        /\ UNCHANGED <<stream, excuse>>
  /\ UNCHANGED <<sreq, peer_closed, wire, writeVars, taskVars, loopVars>>

\* The first n bytes of the buffer are those of a request packet.
Holds(n) == \A i \in 1..n : buffer[i] = <<buffer[1][1], i>>

\* verifyHeader, lsapilib.c:573-590, 1395-1405.  Bytes that are not at the
\* start of a packet are not taken for a packet header.
Verify ==
  /\ pc = "verify"
  /\ \/ /\ Holds(PktHdr)
        /\ pc' = "rest"
        /\ UNCHANGED <<fd, out, readVars>>
     \/ /\ ~Holds(PktHdr)
        /\ Refuse
  /\ UNCHANGED <<netVars, wire, writeVars, taskVars, loopVars, excuse>>

\* lsapilib.c:1412-1418.
ReadRest ==
  /\ pc = "rest" /\ bufRead < ReqLen
  /\ \/ LET n == Least(Len(stream), ReqLen - bufRead) IN
        /\ stream # <<>>
        /\ buffer' = Store(buffer, bufRead, SubSeq(stream, 1, n))
        /\ stream' = SubSeq(stream, n + 1, Len(stream))
        /\ bufRead' = bufRead + n
        /\ UNCHANGED <<fd, out, bufProcessed, bodyLen, bodyRead, pc>>
     \/ /\ stream = <<>> /\ peer_closed
        /\ Refuse
        /\ UNCHANGED stream
  /\ UNCHANGED <<sreq, peer_closed, wire, writeVars, taskVars, loopVars, excuse>>

\* What parseEnv, the change of byte order and validateHeaders (lsapilib.c:
\* 627-755) accept: a whole packet, all of one request, whose offsets and
\* lengths lie within it.
WellFormed == Holds(ReqLen) /\ ~sreq.bad

\* parseRequest (lsapilib.c:1192-1271) and the notification (1436-1442), which
\* is the first thing written.
Parse ==
  /\ pc = "rest" /\ bufRead >= ReqLen
  /\ \/ /\ WellFormed
        /\ bodyLen' = sreq.body
        /\ bufProcessed' = ReqLen
        /\ out' = [out EXCEPT !.RESP_HEADER = TRUE]
        /\ wire' = IF notified THEN wire
                   ELSE wire \o PacketHeader("ack", PktHdr, PktHdr)
        /\ notified' = FALSE
        /\ pc' = "accepted"
        /\ stage' = "idle" /\ sink_error' = FALSE
        /\ written' = 0 /\ given' = <<>>
        /\ UNCHANGED <<fd, buffer, bufRead, bodyRead>>
     \/ \* malformed, or the notification cannot be written
        /\ Refuse
        /\ UNCHANGED <<wire, notified, taskVars>>
  /\ UNCHANGED <<netVars, writeVars, module_loaded, leaving, shutdown, excuse>>

----------------------------------------------------------------------------
(* Queueing a response *)

\* An entry of the iovec: len bytes at offset off of the memory ref (of packet
\* header i, or after byte i of the response).
Put(o, ref, i, len) ==
  [o EXCEPT !.iov[o.cur] = [ref |-> ref, i |-> i, off |-> 0, len |-> len],
            !.cur = @ + 1]

Count(o, n) == [o EXCEPT !.total = @ + n]

\* lsapilib.c:2479-2503.  A header name and value count as one byte, and so
\* does the length of it.
LSAPI_FinalizeRespHeaders_r(o) ==
  IF ~o.RESP_HEADER THEN o
  ELSE LET named == IF o.names > 0
                    THEN Count(Put(o, "names", 0, o.names), o.names) ELSE o
           size == RespHdr + o.cnt
       IN [named EXCEPT
             !.RESP_HEADER = FALSE,
             !.iov[0] = [ref |-> "header", i |-> 0, off |-> 0, len |-> size],
             !.towrite = 0,
             !.total = @ + size,
             !.hdrpkt = named.total + size]

\* lsapilib.c:2070-2091, called when m_pRespBufPos is not at the start.
Flush_RespBuf_r(o) ==
  [Count(Put(Put(o, "pkt", 0, PktHdr), "buf", 0, o.pos), o.pos + PktHdr) EXCEPT
     !.RESP_BODY = TRUE,
     !.pkt[0] = o.pos + PktHdr,
     !.pos = 0]

FlushBuf(o) == IF o.pos # 0 THEN Flush_RespBuf_r(o) ELSE o

\* One round of the loop of LSAPI_Write_r, lsapilib.c:1895-1924: one packet
\* with what is in the buffer and as much of the data as fits.  The faulty
\* variant leaves the buffered bytes out of the limit.
PacketLenUncut(o) == Least(todo, MaxPacket) + o.pos
PacketLen(o) == Least(todo + o.pos, MaxPacket)

QueuePacket(o) ==
  LET packetLen == PacketLen(o)
      head == Put(o, "pkt", slot, PktHdr)
      buffered == IF o.pos > 0 THEN Put(head, "buf", 0, o.pos) ELSE head
  IN [Count(Put(buffered, "data", written - todo, packetLen - o.pos),
            packetLen + PktHdr) EXCEPT
        !.pkt[slot] = packetLen + PktHdr,
        !.pos = 0]

----------------------------------------------------------------------------
(* lsapi_writev, lsapilib.c:469-515, and the rest of LSAPI_Flush_r *)

\* The k-th byte of the memory an entry refers to, as it is now.
Byte(o, e, k) ==
  CASE e.ref = "header" -> <<"header", IF k = 1 THEN o.hdrpkt ELSE 0>>
    [] e.ref = "names"  -> <<"name", 0>>
    [] e.ref = "pkt"    -> <<"stream", IF k = 1 THEN o.pkt[e.i] ELSE 0>>
    [] e.ref = "buf"    -> <<"byte", o.mem[k]>>
    [] e.ref = "data"   -> <<"byte", e.i + k>>
    [] e.ref = "end"    -> <<"end", IF k = 1 THEN PktHdr ELSE 0>>

Content(o, e) == [k \in 1..e.len |-> Byte(o, e, e.off + k)]

\* The first j of n sequences, joined, for every j.
Joined(C, n) ==
  LET v[j \in 0..n] == IF j = 0 THEN <<>> ELSE v[j - 1] \o C[j] IN v

\* What the first j entries from m_pIovecToWrite on refer to.
Vector(o) ==
  LET n == o.cur - o.towrite IN
  Joined([j \in 1..n |-> Content(o, o.iov[o.towrite + j - 1])], n)
Pending(o) == Vector(o)[o.cur - o.towrite]

\* lsapilib.c:486-499: n bytes of the vector are written, the rest stays.  The
\* faulty variant writes an entry that was begun from its start again.
Skip(o, n) ==
  CHOOSE k \in 0..(o.cur - o.towrite - 1) :
    Len(Vector(o)[k]) <= n /\ n < Len(Vector(o)[k + 1])
AdvanceWholeEntries(o, n) == [o EXCEPT !.towrite = @ + Skip(o, n)]
Advance(o, n) ==
  LET k == Skip(o, n)
      rest == n - Len(Vector(o)[k])
  IN [o EXCEPT !.towrite = @ + k,
               !.iov[o.towrite + k].off = @ + rest,
               !.iov[o.towrite + k].len = @ - rest]

\* lsapilib.c:2130-2131; the faulty variant forgets m_totalLen.
FlushedKeepsTotal(o) == [o EXCEPT !.cur = 0, !.towrite = 0]
Flushed(o) == [o EXCEPT !.total = 0, !.cur = 0, !.towrite = 0]

\* LSAPI_Flush_r with something to write, lsapilib.c:2110-2124: the header is
\* finalized, the buffer becomes a packet, and writev() is called.
Flush(o, caller) ==
  LET q == FlushBuf(LSAPI_FinalizeRespHeaders_r(o)) IN
  /\ out' = q
  /\ left' = q.total
  /\ ret' = caller
  /\ pc' = "flush"

\* LSAPI_Finish_r, lsapilib.c:1610-1637.
LSAPI_Finish_r ==
  /\ excuse' = IF bodyRead < bodyLen THEN excuse \cup {"body_left"}
                                     ELSE excuse
  /\ \/ /\ fd
        /\ LET q == FlushBuf(LSAPI_FinalizeRespHeaders_r(out)) IN
           Flush(Count(Put(q, "end", 0, PktHdr), PktHdr), "finish")
        /\ UNCHANGED readVars
     \/ /\ ~fd
        /\ LSAPI_Reset_r
        /\ pc' = IF leaving' THEN "exit" ELSE "entry"
        /\ UNCHANGED <<ret, left>>
  /\ UNCHANGED <<netVars, wire, fd, todo, slot, taskVars, notified,
                 module_loaded, shutdown>>

\* The return from LSAPI_Flush_r to its caller.
FlushReturns(ok) ==
  /\ sink_error' = (sink_error \/ (~ok /\ ret # "finish"))
  /\ stage' = IF ok /\ ret = "body" THEN "finished" ELSE stage
  /\ slot' = IF ret = "packet" THEN 0 ELSE slot
  /\ \/ /\ ret = "finish"
        /\ LSAPI_Reset_r
        /\ pc' = IF leaving THEN "exit" ELSE "entry"
        /\ UNCHANGED todo
     \/ /\ ret # "finish"
        /\ out' = Flushed(out)
        /\ pc' = IF ok /\ ret = "packet" THEN "write" ELSE "handle"
        /\ todo' = IF ok THEN todo ELSE 0
        /\ UNCHANGED readVars
  /\ UNCHANGED <<netVars, ret, written, given, loopVars, excuse>>

\* lsapilib.c:480-485: everything was written.
WritevDone ==
  /\ pc = "flush"
  /\ wire' = wire \o Pending(out)
  /\ left' = 0
  /\ FlushReturns(TRUE)
  /\ UNCHANGED fd

\* lsapilib.c:481-500: some of it.
WritevSome ==
  /\ pc = "flush"
  /\ \E n \in 1..(left - 1) :
       /\ wire' = wire \o SubSeq(Pending(out), 1, n)
       /\ left' = left - n
       /\ out' = Advance(out, n)
  /\ UNCHANGED <<netVars, fd, readVars, pc, ret, todo, slot, taskVars, loopVars,
                 excuse>>

\* lsapilib.c:501-514, 2125-2129: an error, EAGAIN, or the process is stopped.
WritevFails ==
  /\ pc = "flush"
  /\ lsapi_close_connection
  /\ left' = 0
  /\ FlushReturns(FALSE)
  /\ UNCHANGED wire

----------------------------------------------------------------------------
(* run_lsapi_loop, main.cpp:1268-1291 *)

\* main.cpp:1269: the request that was accepted is dropped.
ShutdownBreak ==
  /\ pc = "accepted" /\ shutdown
  /\ Leave

\* main.cpp:1273-1289.
Loaded ==
  /\ pc = "accepted" /\ ~shutdown
  /\ module_loaded' = TRUE
  /\ pc' = "handle"
  /\ UNCHANGED <<netVars, wire, fd, readVars, out, writeVars, taskVars, notified,
                 leaving, shutdown, excuse>>

\* main.cpp:1280-1283.
LoadFails ==
  /\ pc = "accepted" /\ ~shutdown
  /\ ~module_loaded
  /\ leaving' = TRUE
  /\ LSAPI_Finish_r

\* main.cpp:1013-1021.
Signal ==
  /\ pc # "exit" /\ ~shutdown
  /\ shutdown' = TRUE
  /\ UNCHANGED <<netVars, wire, fd, readVars, out, pc, writeVars, taskVars,
                 notified, module_loaded, leaving, excuse>>

\* main.cpp:1290.
Return ==
  /\ pc = "handle"
  /\ UNCHANGED leaving
  /\ LSAPI_Finish_r

----------------------------------------------------------------------------
(* lsapi_handle_request, main.cpp:1075-1247: it reads the body, entirely or   *)
(* in part, and uses the sink as response_sink.h:43-47 says; a filter that    *)
(* streams may do so between two reads.                                       *)

\* LSAPI_ReadReqBody_r, lsapilib.c:1801-1847, from main.cpp:1152-1164.  It
\* waits for all that it was asked for.  The faulty variant forgets the bytes
\* that came with the request packet.
FromBufferNothing == 0
FromBuffer ==
  Least(bufRead - bufProcessed, Least(bodyLen - bodyRead, ChunkSize))

LSAPI_ReadReqBody_r ==
  LET want == Least(bodyLen - bodyRead, ChunkSize)
      need == want - Least(FromBuffer, want)
      got  == SubSeq(buffer, bufProcessed + 1, bufProcessed + FromBuffer) \o
              SubSeq(stream, 1, Least(need, Len(stream)))
  IN
  /\ pc = "handle" /\ fd
  /\ bodyRead < bodyLen
  /\ need <= Len(stream) \/ peer_closed
  /\ \/ /\ got # <<>>
        /\ given' = given \o got
        /\ bufProcessed' = bufProcessed + FromBuffer
        /\ bodyRead' = bodyRead + Len(got)
        /\ stream' = SubSeq(stream, Least(need, Len(stream)) + 1, Len(stream))
        /\ UNCHANGED <<sreq, peer_closed, wire, fd, buffer, bufRead, bodyLen,
                       out, pc, writeVars, stage, sink_error, written, loopVars,
                       excuse>>
     \/ /\ got = <<>>
        /\ Return

\* lsapi_response_sink.h:43-78; a header that is refused leaves the others.
sendHeaders ==
  /\ pc = "handle" /\ stage = "idle"
  /\ \E k \in 0..(MaxHeaders - out.cnt), ok \in BOOLEAN :
       LET appended == [out EXCEPT !.cnt = @ + k, !.names = @ + k] IN
       \/ /\ ok
          /\ out' = LSAPI_FinalizeRespHeaders_r(appended)
          /\ stage' = "headers"
          /\ UNCHANGED sink_error
       \/ /\ ~ok
          /\ out' = appended
          /\ sink_error' = TRUE
          /\ UNCHANGED stage
  /\ UNCHANGED <<netVars, wire, fd, readVars, pc, writeVars, written, given,
                 loopVars, excuse>>

\* lsapi_response_sink.h:80-92 and LSAPI_Write_r, lsapilib.c:1850-1887: the
\* data is buffered, or the loop below is entered.
Fits(len) == len < RespBufSize - out.pos

\* The bound on the response: a first request without a body may be answered at
\* length.
ResponseBound ==
  IF sreq.num = 1 /\ sreq.body = 0 THEN MaxLong ELSE MaxResponse

LSAPI_Write_r ==
  /\ pc = "handle" /\ stage = "headers"
  /\ fd /\ ~sink_error
  /\ \E len \in 1..(ResponseBound - written) :
       LET o == [LSAPI_FinalizeRespHeaders_r(out) EXCEPT !.RESP_BODY = TRUE]
           bytes == [k \in 1..len |-> written + k]
       IN
       /\ written' = written + len
       /\ \/ /\ Fits(len)
             /\ out' = [o EXCEPT !.mem = Store(o.mem, o.pos, bytes),
                                 !.pos = @ + len]
             /\ UNCHANGED <<pc, todo, slot>>
          \/ /\ ~Fits(len)
             /\ out' = o
             /\ pc' = "write"
             /\ todo' = len /\ slot' = 0
  /\ UNCHANGED <<netVars, wire, fd, readVars, ret, left, stage, sink_error, given,
                 loopVars, excuse>>

\* lsapilib.c:1895-1932: a packet, and a flush when the headers are used up.
\* The faulty variant uses one header too many.
LastHeaderOneMore == slot + 1 >= PktHeaders + 1
LastHeader == slot + 1 >= PktHeaders - 1

WritePacket ==
  /\ pc = "write" /\ todo > 0
  /\ todo' = todo - (PacketLen(out) - out.pos)
  /\ slot' = slot + 1
  /\ IF LastHeader
     THEN Flush(QueuePacket(out), "packet")
     ELSE /\ out' = QueuePacket(out)
          /\ UNCHANGED <<pc, ret, left>>
  /\ UNCHANGED <<netVars, wire, fd, readVars, taskVars, loopVars, excuse>>

\* lsapilib.c:1933-1936.
WriteEnd ==
  /\ pc = "write" /\ todo = 0
  /\ IF slot # 0
     THEN Flush(out, "write")
     ELSE /\ pc' = "handle"
          /\ UNCHANGED <<out, ret, left>>
  /\ UNCHANGED <<netVars, wire, fd, readVars, todo, slot, taskVars, loopVars,
                 excuse>>

\* lsapi_response_sink.h:94-103, LSAPI_Flush_r, lsapilib.c:2100-2102.  (When m_fd
\* is -1 a flush has failed, and error_ is set.)
finishBody ==
  /\ pc = "handle" /\ stage = "headers"
  /\ fd /\ ~sink_error
  /\ \/ /\ out.cur = out.towrite /\ out.pos = 0
        /\ stage' = "finished"
        /\ UNCHANGED <<out, pc, ret, left>>
     \/ /\ out.cur # out.towrite \/ out.pos # 0
        /\ Flush(out, "body")
        /\ UNCHANGED stage
  /\ UNCHANGED <<netVars, wire, fd, readVars, todo, slot, sink_error, written,
                 given, loopVars, excuse>>

----------------------------------------------------------------------------

Server == ServerRequest \/ ServerSend \/ ServerClose

Process ==
  \/ Entry \/ EntryLeave \/ AcceptConnection \/ Readable \/ WaitLeave
  \/ ReadHead \/ Verify \/ ReadRest \/ Parse
  \/ ShutdownBreak \/ Loaded \/ LoadFails
  \/ LSAPI_ReadReqBody_r \/ sendHeaders \/ LSAPI_Write_r \/ WritePacket
  \/ WriteEnd \/ finishBody \/ Return
  \/ WritevDone \/ WritevSome \/ WritevFails

Next == Server \/ Process \/ Signal

SafeSpec == Init /\ [][Next]_vars

----------------------------------------------------------------------------
(* Properties *)

Pairs == Nat \X Nat
Cells == {"close", "ack", "header", "name", "stream", "byte", "end"} \X Nat

Requests ==
  [num : Nat, body : Nat, sent : Nat, bad : BOOLEAN, wait : BOOLEAN]
Entries ==
  [ref : {"none", "header", "names", "pkt", "buf", "data", "end"},
   i : Nat, off : Nat, len : Nat]
Responses ==
  [iov : [Slots -> Entries], cur : Nat, towrite : Nat, total : Nat,
   mem : Seq(Nat), pos : Nat, pkt : [0..(PktHeaders - 1) -> Nat],
   hdrpkt : Nat, cnt : Nat, names : Nat,
   RESP_HEADER : BOOLEAN, RESP_BODY : BOOLEAN]

\* No slot beyond the iovec, no packet header beyond m_respPktHeader and no byte
\* beyond m_pRespBuf is used.
WithinBounds(o) ==
  /\ o.towrite <= o.cur /\ o.cur <= IovecSize
  /\ o.pos <= RespBufSize /\ o.pos <= Len(o.mem)
  /\ \A s \in o.towrite..(o.cur - 1) :
       /\ o.iov[s].ref # "none" /\ o.iov[s].len > 0
       /\ o.iov[s].ref = "pkt" => o.iov[s].i < PktHeaders
       /\ o.iov[s].ref = "buf" => o.iov[s].off + o.iov[s].len <= Len(o.mem)

\* Every variable has its type, and the response side stays within its memory.
TypeOK ==
  /\ sreq \in Requests /\ sreq.sent <= ReqBytes
  /\ fd \in BOOLEAN /\ peer_closed \in BOOLEAN
  /\ stream \in Seq(Pairs) /\ wire \in Seq(Cells)
  /\ buffer \in [1..(ReqBufSize + PktHdr) -> Pairs]
  /\ bufRead \in 0..(ReqBufSize + PktHdr)
  /\ bufProcessed \in 0..bufRead
  /\ bodyLen \in Nat /\ bodyRead \in 0..bodyLen
  /\ out \in Responses /\ WithinBounds(out)
  /\ pc \in {"entry", "wait", "head", "verify", "rest", "accepted", "handle",
             "write", "flush", "exit"}
  /\ ret \in {"none", "packet", "write", "body", "finish"}
  /\ written \in Nat /\ todo \in 0..written
  /\ slot \in 0..(PktHeaders - 1)
  /\ left \in Nat
  /\ stage \in {"idle", "headers", "finished"} /\ sink_error \in BOOLEAN
  /\ given \in Seq(Pairs)
  /\ {notified, module_loaded, leaving, shutdown} \subseteq BOOLEAN
  /\ excuse \subseteq {"short_head", "body_left"}

\* The response bytes of a sequence of cells.
Bytes(s) ==
  Joined([i \in 1..Len(s) |-> IF s[i][1] = "byte" THEN <<s[i]>> ELSE <<>>],
         Len(s))[Len(s)]
Numbers(n) == [i \in 1..n |-> <<"byte", i>>]

\* The response bytes are where they belong at every moment: what is on the
\* wire, then what the iovec still refers to, then the buffer, are the bytes
\* given to LSAPI_Write_r, in order, none missing and none twice, also after
\* writev() has taken a part of the vector.
ResponseInOrder ==
  fd /\ pc \in {"handle", "write", "flush"} =>
    Bytes(wire \o Pending(out)) \o
      [k \in 1..out.pos |-> <<"byte", out.mem[k]>>] = Numbers(written - todo)

\* m_totalLen, and what lsapi_writev() has left, are the length of what the
\* iovec refers to: otherwise a flush stops early or takes a full write for a
\* failed one.
TotalIsLength ==
  /\ pc \in {"handle", "write"} => out.total = Len(Pending(out))
  /\ pc = "flush" => left = Len(Pending(out))

\* The positions of the first bytes of packets.
Heads(s) == {i \in 1..Len(s) : s[i][1] # "byte" /\ s[i][2] > 0}

\* The position of the response header.
First(s) == IF s # <<>> /\ s[1][1] = "ack" THEN PktHdr + 1 ELSE 1

\* A sequence of packets: each is as long as it announces, none is longer than
\* the protocol allows, and they are the notification (unless the parent gave
\* notice), the response header, data, and the end.
Packets(s) ==
  /\ s # <<>> => 1 \in Heads(s)
  /\ \A i \in Heads(s) :
       /\ i + s[i][2] \in Heads(s) \cup {Len(s) + 1}
       /\ \A j \in Heads(s) : j <= i \/ j >= i + s[i][2]
       /\ (i < First(s)) <=> (s[i][1] = "ack")
       /\ (i = First(s)) <=> (s[i][1] = "header")
       /\ s[i][1] = "end" => i + PktHdr = Len(s) + 1
       /\ s[i][1] = "stream" => s[i][2] <= MaxPacket + PktHdr

\* What the web server reads is a sequence of packets, and when it has got the
\* end, it has got the whole response.
Framed ==
  fd /\ pc \in {"entry", "wait", "handle", "write"} =>
    /\ Packets(wire)
    /\ pc \in {"entry", "wait"} /\ Answered => Bytes(wire) = Numbers(written)

\* A well-formed request that arrives on a connection in step is recognised.
\* The connection is out of step only after a read() that returned less than a
\* packet header, or a request whose body was not read to the end.
InStep == pc = "verify" /\ excuse = {} => Holds(PktHdr)

\* The filter gets the bytes of the request's own body, in order, on every
\* connection in step, whatever part of them came with the request packet.
BodyInOrder ==
  pc = "handle" /\ excuse = {} =>
    given = [i \in 1..bodyRead |-> <<sreq.num, ReqLen + i>>]

(* What a comment of the code says, and the model refutes *)

\* "finish req body" (lsapilib.c:1612): after LSAPI_Finish_r the next thing on
\* the connection is the next request.
NextRequestFollows ==
  pc = "verify" /\ "short_head" \notin excuse => Holds(PktHdr)
=============================================================================
