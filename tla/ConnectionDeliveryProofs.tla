---------------------- MODULE ConnectionDeliveryProofs ----------------------
(***************************************************************************)
(* Proofs about the response side of one connection: that its bytes reach  *)
(* the client in order and completely, that neither thread misses a        *)
(* wakeup, and that handle_request gives up on a body only for a reason.   *)
(***************************************************************************)
EXTENDS ConnectionProofs

----------------------------------------------------------------------------
(* The inductive invariant *)

Closing  == {"close_feed", "close_write"}
Scanning == {"scan_error", "scan_finished", "scan_drained", "scan_pending"}
Serving  == {"recv", "pending", "send", "advance", "out_pending",
             "out_finished"}

\* Before the headers are complete there is neither a worker nor a response.
QuietInv ==
  state = "ReadingHeaders" =>
    /\ worker = "none"
    /\ write_buffer = <<>> /\ ~write_pending /\ ~write_error
    /\ ~body_complete /\ ~read_eof /\ ~read_error

\* Until the body is complete the bytes received are the headers and what was
\* fed, and only until then does the loop read; the end of the stream is
\* passed on before the body is complete only if the client left bytes out.
RecvInv ==
  /\ got <= arrived
  /\ eos => arrived = req.total
  /\ state = "Active" /\ ~body_complete =>
       /\ got = req.hlen + body_bytes_fed
       /\ body_bytes_fed < req.clen
       /\ ~read_eof
  /\ state = "Active" /\ body_complete =>
       "IN" \notin epoll_events /\ "IN" \notin batch_ev /\ loop # "recv"
  /\ read_eof /\ body_bytes_fed < req.clen =>
       eos /\ req.total < req.hlen + req.clen

\* Who ends a request, and why a connection is closed.
EndInv ==
  /\ finished <=> worker = "done"
  /\ outcome # "none" <=> worker = "done"
  /\ "ERR" \in batch_ev => reset
  /\ loop \in Serving \cup Scanning => state # "closed"
  /\ loop = "scan_drained" => finished /\ write_buffer = <<>>
  /\ write_error =>
       \/ reset \/ shutdown \/ state = "closed"
       \/ worker = "done" /\ outcome # "finished"
  /\ read_error =>
       /\ state = "closed" \/ loop = "close_write"
       /\ reset \/ shutdown \/ worker = "done"
  /\ outcome = "error" => read_error
  /\ loop = "close_write" => state = "Active"
  /\ state = "closed" \/ (state = "Active" /\ loop \in Closing) =>
       \/ reset \/ shutdown \/ worker = "none"
       \/ /\ worker = "done"
          /\ outcome = "finished" =>
               write_buffer = <<>> /\ Len(delivered) = produced

\* How many bytes of write_buffer_ send() has taken.
SentUpTo ==
  IF loop = "advance" THEN write_cursor + Len(view) ELSE write_cursor

\* Where each byte of the response is: taken by send(), in write_buffer_, or
\* in the argument of writeData().  After an error bytes may be dropped.
OutBytes ==
  /\ \A i \in 1..Len(delivered) : delivered[i] = i
  /\ \A i \in 1..Len(write_buffer) :
       write_buffer[i] = (Len(delivered) - SentUpTo) + i
  /\ \A i \in 1..Len(chunk) : chunk[i] = (produced - Len(chunk)) + i

\* How many there are of them.
OutCount ==
  /\ chunk # <<>> <=> worker \in {"writing", "write_sleep"}
  /\ write_buffer # <<>> => write_cursor < Len(write_buffer)
  /\ ~write_error =>
       produced = Len(delivered) + Len(chunk)
                    + (IF write_buffer = <<>> THEN 0
                       ELSE Len(write_buffer) - SentUpTo)

\* What brings the loop to a connection that needs it.
Noticed == signalled \/ batch_sig \/ loop \in Closing

\* The loop is on its way to every connection that has something to send, to
\* close or to report, and a worker sleeps only for a reason.
WakeInv ==
  /\ state = "Active" =>
       /\ write_pending =>
            \/ Noticed \/ loop \in Scanning
            \/ "OUT" \in epoll_events /\ loop # "out_finished"
       /\ write_error => Noticed \/ loop = "scan_error"
       /\ isFinished =>
            \/ Noticed
            \/ loop \in {"scan_error", "scan_finished", "scan_drained",
                         "out_pending", "out_finished"}
       /\ write_pending /\ loop \notin Closing => write_buffer # <<>>

SleepInv ==
  /\ worker = "read_sleep" => ~ReadReady
  /\ worker = "write_sleep" => write_buffer # <<>> /\ ~write_error

DeliveryInv ==
  /\ QuietInv /\ RecvInv /\ EndInv /\ NoFalseAbort
  /\ OutBytes /\ OutCount /\ WakeInv /\ SleepInv

----------------------------------------------------------------------------
(* What the three outcomes of recv() do, in the terms of the invariant *)

\* recv() returns 0: what RecvEof does.
LEMMA EofFacts ==
  ASSUME TypeOK, RecvInv, RecvEof
  PROVE  /\ loop = "recv" /\ got = arrived /\ eos /\ batch_ev' = {}
         /\ UNCHANGED <<netVars, state, got, batch_sig, view, writeVars,
                        taskVars, body_prefix, read_error, body_bytes_fed>>
         /\ \/ /\ state = "ReadingHeaders" /\ loop' = "close_feed"
               /\ UNCHANGED <<body_complete, epoll_events, readVars, worker>>
            \/ /\ state = "Active" /\ ~body_complete /\ body_complete'
               /\ loop' \in {"dispatch", "pending"}
               /\ epoll_events' = epoll_events \ {"IN"}
               /\ read_eof' /\ WakeReader
  <1>1. /\ loop = "recv" /\ got = arrived /\ eos /\ batch_ev' = {}
        /\ UNCHANGED <<netVars, state, got, batch_sig, view, writeVars,
                       taskVars>>
    BY Zenon DEF RecvEof, AfterIn, ctxVars
  <1>2. CASE state = "ReadingHeaders"
    BY <1>1, <1>2 DEF RecvEof, AfterIn, ctxVars, readVars
  <1>3. CASE state = "Active"
    <2>1. /\ body_complete' = TRUE /\ ~body_complete
          /\ loop' \in {"dispatch", "pending"}
          /\ epoll_events' = epoll_events \ {"IN"}
      BY <1>1, <1>3 DEF RecvEof, AfterIn, RecvInv
    <2>2. feedBody(0, TRUE)
      BY <1>1, <1>3, <2>1, Zenon DEF RecvEof
    <2>3. read_eof' /\ WakeReader /\ UNCHANGED <<body_prefix, read_error>>
      BY <2>2, Zenon DEF feedBody
    <2>4. UNCHANGED body_bytes_fed
      <3>1. body_bytes_fed' = body_bytes_fed + 0 /\ body_bytes_fed \in Nat
        BY <2>2, RequestType DEF feedBody, TypeOK
      <3> QED
        BY <3>1
    <2> QED
      BY <1>1, <1>3, <2>1, <2>3, <2>4
  <1> QED
    BY <1>2, <1>3, Zenon DEF RecvEof

\* recv() returns bytes while the headers are read: what RecvHeader does.
LEMMA HeaderFacts ==
  ASSUME TypeOK, NEW n \in 1..RecvSize, RecvHeader(n)
  PROVE  /\ loop = "recv" /\ state = "ReadingHeaders" /\ batch_ev' = {}
         /\ got' = got + n /\ n \in Nat /\ n <= arrived - got
         /\ UNCHANGED <<netVars, batch_sig, view, writeVars, taskVars,
                        read_chunk, read_eof, read_error>>
         /\ \/ /\ loop' \in {"close_feed", "dispatch", "pending"}
               /\ UNCHANGED <<state, body_complete, epoll_events, body_prefix,
                              body_bytes_fed, worker>>
            \/ /\ loop' \in {"dispatch", "pending"}
               /\ state' = "Active" /\ worker' = "queued"
               /\ body_complete' <=> body_bytes_fed' = req.clen
               /\ body_complete' => epoll_events' = {}
               /\ ~body_complete' =>
                    /\ got' = req.hlen + body_bytes_fed'
                    /\ body_bytes_fed' < req.clen
                    /\ UNCHANGED epoll_events
  <1>1. /\ req.clen \in Nat /\ req.hlen \in Nat /\ got \in Nat /\ n \in Nat
    BY RequestType, SizeAssumption DEF TypeOK
  <1>2. /\ loop = "recv" /\ state = "ReadingHeaders" /\ batch_ev' = {}
        /\ got' = got + n /\ n <= arrived - got
        /\ UNCHANGED <<netVars, batch_sig, view, writeVars, taskVars,
                       read_chunk, read_eof, read_error>>
    BY Zenon DEF RecvHeader, AfterIn
  <1>3. CASE got' > MaxHeader \/ got' < req.hlen
    <2>1. UNCHANGED <<state, body_complete, epoll_events, body_prefix,
                      body_bytes_fed, worker>>
      BY <1>1, <1>2, <1>3, SizeAssumption DEF RecvHeader
    <2>2. loop' \in {"close_feed", "dispatch", "pending"}
      BY DEF RecvHeader, AfterIn
    <2> QED
      BY <1>1, <1>2, <2>1, <2>2, Zenon
  <1>4. CASE got' <= MaxHeader /\ got' >= req.hlen
    <2>1. /\ state' = "Active" /\ worker' = "queued"
          /\ body_complete' = (body_bytes_fed' >= req.clen)
          /\ epoll_events' = IF body_complete' THEN {} ELSE epoll_events
          /\ setHeaderData(got' - req.hlen)
      BY <1>1, <1>2, <1>4, SizeAssumption DEF RecvHeader
    <2>2. body_bytes_fed' = Min(got' - req.hlen, req.clen)
      BY <2>1 DEF setHeaderData
    <2>3. loop' \in {"dispatch", "pending"}
      BY <1>1, <1>2, <1>4, SizeAssumption DEF RecvHeader, AfterIn
    <2>4. got' - req.hlen \in Nat
      BY <1>1, <1>2, <1>4
    <2>5. /\ body_bytes_fed' >= req.clen <=> body_bytes_fed' = req.clen
          /\ ~(body_bytes_fed' >= req.clen) =>
               got' = req.hlen + body_bytes_fed' /\ body_bytes_fed' < req.clen
      BY <1>1, <1>2, <2>2, <2>4 DEF Min
    <2> QED
      BY <1>1, <1>2, <2>1, <2>3, <2>5
  <1> QED
    BY <1>1, <1>2, <1>3, <1>4, SizeAssumption

\* recv() returns bytes of the body: what RecvBody does.
LEMMA FeedFacts ==
  ASSUME TypeOK, RecvInv, NEW n \in 1..RecvSize, RecvBody(n)
  PROVE  /\ loop = "recv" /\ state = "Active" /\ ~body_complete
         /\ batch_ev' = {} /\ loop' \in {"dispatch", "pending"}
         /\ got' = got + n /\ n \in Nat /\ n <= arrived - got
         /\ UNCHANGED <<netVars, state, batch_sig, view, writeVars, taskVars,
                        body_prefix, read_error>>
         /\ WakeReader
         /\ \/ /\ body_bytes_fed' = req.clen /\ body_complete' /\ read_eof'
               /\ epoll_events' = epoll_events \ {"IN"}
            \/ /\ body_bytes_fed' = body_bytes_fed + n
               /\ body_bytes_fed' < req.clen
               /\ ~body_complete' /\ ~read_eof' /\ UNCHANGED epoll_events
  <1>1. /\ req.clen \in Nat /\ got \in Nat /\ n \in Nat
        /\ body_bytes_fed \in Nat
    BY RequestType, SizeAssumption DEF TypeOK
  <1>2. /\ loop = "recv" /\ state = "Active" /\ batch_ev' = {}
        /\ loop' \in {"dispatch", "pending"}
        /\ got' = got + n /\ n <= arrived - got
        /\ UNCHANGED <<netVars, state, batch_sig, view, writeVars, taskVars>>
    BY DEF RecvBody, AfterIn
  <1>3. ~body_complete /\ ~read_eof /\ body_bytes_fed < req.clen
    BY <1>2 DEF RecvInv
  <1> DEFINE remaining == req.clen - body_bytes_fed
             to_feed   == Min(n, remaining)
             eof       == to_feed >= remaining
  <1>4. /\ feedBody(to_feed, eof) /\ body_complete' = eof
        /\ epoll_events' = IF eof THEN epoll_events \ {"IN"} ELSE epoll_events
    BY <1>3, Zenon DEF RecvBody
  <1>5. /\ body_bytes_fed' = body_bytes_fed + to_feed
        /\ read_eof' = (read_eof \/ eof) /\ WakeReader
        /\ UNCHANGED <<body_prefix, read_error>>
    BY <1>4, Zenon DEF feedBody
  <1>6. \/ eof /\ body_bytes_fed + to_feed = req.clen
        \/ /\ ~eof /\ body_bytes_fed + to_feed = body_bytes_fed + n
           /\ body_bytes_fed + to_feed < req.clen
    BY <1>1, <1>3 DEF Min
  <1> HIDE DEF to_feed, eof
  <1> QED
    BY <1>1, <1>2, <1>3, <1>4, <1>5, <1>6, Zenon

\* A step that leaves the headers incomplete starts nothing.
LEMMA QuietInvStep ==
  ASSUME Base, BodyInv, DeliveryInv, [Next]_vars
  PROVE  QuietInv'
  <1> USE DEF netVars, ctxVars, loopVars, readVars, writeVars, taskVars
  <1> TypeOK /\ TypeOK' /\ ViewInv /\ ReadInv /\ BodyStages
    BY TypeStep DEF Base, BodyInv
  <1> /\ QuietInv /\ RecvInv /\ EndInv /\ NoFalseAbort
      /\ OutBytes /\ OutCount /\ WakeInv /\ SleepInv
    BY DEF DeliveryInv
  <1> /\ req.clen \in Nat /\ req.hlen \in Nat /\ req.total \in Nat
      /\ arrived \in Nat /\ got \in Nat /\ body_bytes_fed \in Nat
      /\ body_bytes_fed <= req.clen
    BY RequestType DEF TypeOK
  <1>1. CASE ClientSend
    BY <1>1 DEF ClientSend, NetStep, QuietInv, BodyStages
  <1>2. CASE ClientFin
    BY <1>2 DEF ClientFin, NetStep, QuietInv, BodyStages
  <1>3. CASE ClientReset
    BY <1>3 DEF ClientReset, NetStep, QuietInv, BodyStages
  <1>4. CASE ClientRead
    BY <1>4 DEF ClientRead, NetStep, QuietInv, BodyStages
  <1>5. CASE Signal
    BY <1>5 DEF Signal, NetStep, QuietInv, BodyStages
  <1>6. CASE EpollWait
    BY <1>6 DEF EpollWait, ReadyEvents, Handled, QuietInv, BodyStages
  <1>7. CASE ReadEventfd
    BY <1>7 DEF ReadEventfd, QuietInv, BodyStages
  <1>8. CASE ScanError
    BY <1>8 DEF ScanError, Goto, QuietInv, BodyStages
  <1>9. CASE ScanFinished
    BY <1>9 DEF ScanFinished, Goto, isFinished, QuietInv, BodyStages
  <1>10. CASE ScanDrained
    BY <1>10 DEF ScanDrained, Goto, QuietInv, BodyStages
  <1>11. CASE ScanPending
    BY <1>11 DEF ScanPending, Wanted, QuietInv, BodyStages
  <1>12. CASE DispatchClient
    BY <1>12 DEF DispatchClient, QuietInv, BodyStages
  <1>13. CASE RecvError
    BY <1>13 DEF RecvError, AfterIn, QuietInv, BodyStages
  <1>14. CASE RecvEof
    BY <1>14, EofFacts DEF QuietInv, BodyStages, WakeReader
  <1>15. ASSUME NEW n \in 1..RecvSize, RecvHeader(n) PROVE QuietInv'
    BY <1>15, HeaderFacts DEF QuietInv, BodyStages
  <1>16. ASSUME NEW n \in 1..RecvSize, RecvBody(n) PROVE QuietInv'
    BY <1>16, FeedFacts DEF QuietInv, BodyStages, WakeReader
  <1>17. CASE pendingWriteData
    BY <1>17 DEF pendingWriteData, QuietInv, BodyStages
  <1>18. ASSUME NEW n \in 1..MaxResponse, Send(n) PROVE QuietInv'
    BY <1>18, SizeAssumption DEF Send, QuietInv, BodyStages
  <1>19. CASE SendAgain
    BY <1>19 DEF SendAgain, QuietInv, BodyStages
  <1>20. CASE SendError
    <2>1. loop = "send" /\ UNCHANGED state
      BY <1>20 DEF SendError
    <2>2. Len(view) > 0 /\ Len(view) <= Len(write_buffer)
      BY <2>1 DEF ViewInv, TypeOK
    <2>3. write_buffer # <<>>
      BY <2>2
    <2> QED
      BY <2>1, <2>3 DEF QuietInv
  <1>21. CASE advanceWrite
    BY <1>21 DEF advanceWrite, WakeWriter, QuietInv, BodyStages
  <1>22. CASE OutPending
    BY <1>22 DEF OutPending, Goto, QuietInv, BodyStages
  <1>23. CASE OutFinished
    BY <1>23 DEF OutFinished, isFinished, QuietInv, BodyStages
  <1>24. CASE CloseFeed
    BY <1>24 DEF CloseFeed, feedError, WakeReader, QuietInv, BodyStages
  <1>25. CASE CloseWrite
    BY <1>25 DEF CloseWrite, writeError, WakeWriter, QuietInv, BodyStages
  <1>26. CASE Exit
    BY <1>26 DEF Exit, Goto, Handled, QuietInv, BodyStages
  <1>27. CASE Start
    BY <1>27 DEF Start, WorkerOnly, QuietInv, BodyStages
  <1>28. ASSUME NEW n \in 1..MaxResponse, BeginWrite(n) PROVE QuietInv'
    BY <1>28, SizeAssumption DEF BeginWrite, WorkerOnly, QuietInv, BodyStages
  <1>29. CASE writeData
    BY <1>29 DEF writeData, signal_eventfd, WriteReady, QuietInv, BodyStages
  <1>30. CASE SpuriousWakeup
    BY <1>30 DEF SpuriousWakeup, WorkerOnly, QuietInv, BodyStages
  <1>31. CASE EndHeaders
    BY <1>31 DEF EndHeaders, WorkerOnly, QuietInv, BodyStages
  <1>32. CASE BeginRead
    BY <1>32 DEF BeginRead, WorkerOnly, QuietInv, BodyStages
  <1>33. CASE readBodyChunk
    BY <1>33 DEF readBodyChunk, setError, signal_eventfd, QuietInv, BodyStages
  <1>34. CASE EndBody
    BY <1>34 DEF EndBody, WorkerOnly, QuietInv, BodyStages
  <1>35. CASE Finish
    BY <1>35 DEF Finish, signal_eventfd, QuietInv, BodyStages
  <1>36. CASE Abort
    BY <1>36 DEF Abort, setError, signal_eventfd, QuietInv, BodyStages
  <1>37. CASE UNCHANGED vars
    BY <1>37 DEF vars, QuietInv, BodyStages
  <1> QED
    BY <1>1, <1>2, <1>3, <1>4, <1>5, <1>6, <1>7, <1>8, <1>9, <1>10, <1>11,
       <1>12, <1>13, <1>14, <1>15, <1>16, <1>17, <1>18, <1>19, <1>20, <1>21,
       <1>22, <1>23, <1>24, <1>25, <1>26, <1>27, <1>28, <1>29, <1>30, <1>31,
       <1>32, <1>33, <1>34, <1>35, <1>36, <1>37, Zenon DEF Next, Client, Loop,
       Worker

\* Every step keeps the account of the bytes received.
LEMMA RecvInvStep ==
  ASSUME Base, BodyInv, DeliveryInv, [Next]_vars
  PROVE  RecvInv'
  <1> USE DEF netVars, ctxVars, loopVars, readVars, writeVars, taskVars
  <1> TypeOK /\ TypeOK' /\ ViewInv /\ ReadInv /\ BodyStages
    BY TypeStep DEF Base, BodyInv
  <1> /\ QuietInv /\ RecvInv /\ EndInv /\ NoFalseAbort
      /\ OutBytes /\ OutCount /\ WakeInv /\ SleepInv
    BY DEF DeliveryInv
  <1> /\ req.clen \in Nat /\ req.hlen \in Nat /\ req.total \in Nat
      /\ arrived \in Nat /\ got \in Nat /\ body_bytes_fed \in Nat
      /\ body_bytes_fed <= req.clen
    BY RequestType DEF TypeOK
  <1>1. CASE ClientSend
    BY <1>1 DEF ClientSend, NetStep, RecvInv, QuietInv, BodyStages
  <1>2. CASE ClientFin
    BY <1>2 DEF ClientFin, NetStep, RecvInv, QuietInv, BodyStages
  <1>3. CASE ClientReset
    BY <1>3 DEF ClientReset, NetStep, RecvInv, QuietInv, BodyStages
  <1>4. CASE ClientRead
    BY <1>4 DEF ClientRead, NetStep, RecvInv, QuietInv, BodyStages
  <1>5. CASE Signal
    BY <1>5 DEF Signal, NetStep, RecvInv, QuietInv, BodyStages
  <1>6. CASE EpollWait
    BY <1>6 DEF EpollWait, ReadyEvents, Handled, RecvInv, QuietInv, BodyStages
  <1>7. CASE ReadEventfd
    BY <1>7 DEF ReadEventfd, RecvInv, QuietInv, BodyStages
  <1>8. CASE ScanError
    BY <1>8 DEF ScanError, Goto, RecvInv, QuietInv, BodyStages
  <1>9. CASE ScanFinished
    BY <1>9 DEF ScanFinished, Goto, isFinished, RecvInv, QuietInv, BodyStages
  <1>10. CASE ScanDrained
    BY <1>10 DEF ScanDrained, Goto, RecvInv, QuietInv, BodyStages
  <1>11. CASE ScanPending
    BY <1>11 DEF ScanPending, Wanted, RecvInv, QuietInv, BodyStages
  <1>12. CASE DispatchClient
    BY <1>12 DEF DispatchClient, RecvInv, QuietInv, BodyStages
  <1>13. CASE RecvError
    BY <1>13 DEF RecvError, AfterIn, RecvInv, QuietInv, BodyStages
  <1>14. CASE RecvEof
    BY <1>14, EofFacts DEF RecvInv, QuietInv, BodyStages, WakeReader
  <1>15. ASSUME NEW n \in 1..RecvSize, RecvHeader(n) PROVE RecvInv'
    BY <1>15, HeaderFacts DEF RecvInv, QuietInv, BodyStages
  <1>16. ASSUME NEW n \in 1..RecvSize, RecvBody(n) PROVE RecvInv'
    <2>1. got' \in Nat /\ got' <= arrived' /\ UNCHANGED <<req, arrived, eos>>
      BY <1>16, FeedFacts DEF RecvInv
    <2>2. \/ /\ body_bytes_fed' = req.clen /\ body_complete'
             /\ "IN" \notin epoll_events' /\ "IN" \notin batch_ev'
             /\ loop' # "recv"
          \/ /\ got' = req.hlen + body_bytes_fed' /\ body_bytes_fed' < req.clen
             /\ ~body_complete' /\ ~read_eof'
      BY <1>16, FeedFacts DEF RecvInv
    <2>3. body_bytes_fed' = req.clen => ~(body_bytes_fed' < req.clen)
      OBVIOUS
    <2> QED
      BY <2>1, <2>2, <2>3 DEF RecvInv
  <1>17. CASE pendingWriteData
    BY <1>17 DEF pendingWriteData, RecvInv, QuietInv, BodyStages
  <1>18. ASSUME NEW n \in 1..MaxResponse, Send(n) PROVE RecvInv'
    BY <1>18, SizeAssumption DEF Send, RecvInv, QuietInv, BodyStages
  <1>19. CASE SendAgain
    BY <1>19 DEF SendAgain, RecvInv, QuietInv, BodyStages
  <1>20. CASE SendError
    BY <1>20 DEF SendError, writeError, WakeWriter, RecvInv, QuietInv,
       BodyStages
  <1>21. CASE advanceWrite
    BY <1>21 DEF advanceWrite, WakeWriter, RecvInv, QuietInv, BodyStages
  <1>22. CASE OutPending
    BY <1>22 DEF OutPending, Goto, RecvInv, QuietInv, BodyStages
  <1>23. CASE OutFinished
    BY <1>23 DEF OutFinished, isFinished, RecvInv, QuietInv, BodyStages
  <1>24. CASE CloseFeed
    BY <1>24 DEF CloseFeed, feedError, WakeReader, RecvInv, QuietInv,
       BodyStages
  <1>25. CASE CloseWrite
    BY <1>25 DEF CloseWrite, writeError, WakeWriter, RecvInv, QuietInv,
       BodyStages
  <1>26. CASE Exit
    BY <1>26 DEF Exit, Goto, Handled, RecvInv, QuietInv, BodyStages
  <1>27. CASE Start
    BY <1>27 DEF Start, WorkerOnly, RecvInv, QuietInv, BodyStages
  <1>28. ASSUME NEW n \in 1..MaxResponse, BeginWrite(n) PROVE RecvInv'
    BY <1>28, SizeAssumption DEF BeginWrite, WorkerOnly, RecvInv, QuietInv,
       BodyStages
  <1>29. CASE writeData
    BY <1>29 DEF writeData, signal_eventfd, WriteReady, RecvInv, QuietInv,
       BodyStages
  <1>30. CASE SpuriousWakeup
    BY <1>30 DEF SpuriousWakeup, WorkerOnly, RecvInv, QuietInv, BodyStages
  <1>31. CASE EndHeaders
    BY <1>31 DEF EndHeaders, WorkerOnly, RecvInv, QuietInv, BodyStages
  <1>32. CASE BeginRead
    BY <1>32 DEF BeginRead, WorkerOnly, RecvInv, QuietInv, BodyStages
  <1>33. CASE readBodyChunk
    BY <1>33 DEF readBodyChunk, setError, signal_eventfd, RecvInv, QuietInv,
       BodyStages
  <1>34. CASE EndBody
    BY <1>34 DEF EndBody, WorkerOnly, RecvInv, QuietInv, BodyStages
  <1>35. CASE Finish
    BY <1>35 DEF Finish, signal_eventfd, RecvInv, QuietInv, BodyStages
  <1>36. CASE Abort
    BY <1>36 DEF Abort, setError, signal_eventfd, RecvInv, QuietInv, BodyStages
  <1>37. CASE UNCHANGED vars
    BY <1>37 DEF vars, RecvInv, QuietInv, BodyStages
  <1> QED
    BY <1>1, <1>2, <1>3, <1>4, <1>5, <1>6, <1>7, <1>8, <1>9, <1>10, <1>11,
       <1>12, <1>13, <1>14, <1>15, <1>16, <1>17, <1>18, <1>19, <1>20, <1>21,
       <1>22, <1>23, <1>24, <1>25, <1>26, <1>27, <1>28, <1>29, <1>30, <1>31,
       <1>32, <1>33, <1>34, <1>35, <1>36, <1>37, Zenon DEF Next, Client, Loop,
       Worker

\* Every step that ends a request or closes a connection has its reason.
LEMMA EndInvStep ==
  ASSUME Base, BodyInv, DeliveryInv, [Next]_vars
  PROVE  EndInv'
  <1> USE DEF netVars, ctxVars, loopVars, readVars, writeVars, taskVars
  <1> TypeOK /\ TypeOK' /\ ViewInv /\ ReadInv /\ BodyStages
    BY TypeStep DEF Base, BodyInv
  <1> /\ QuietInv /\ RecvInv /\ EndInv /\ NoFalseAbort
      /\ OutBytes /\ OutCount /\ WakeInv /\ SleepInv
    BY DEF DeliveryInv
  <1> /\ req.clen \in Nat /\ req.hlen \in Nat /\ req.total \in Nat
      /\ arrived \in Nat /\ got \in Nat /\ body_bytes_fed \in Nat
      /\ body_bytes_fed <= req.clen
    BY RequestType DEF TypeOK
  <1>1. CASE ClientSend
    BY <1>1 DEF ClientSend, NetStep, EndInv, QuietInv, BodyStages, OutCount,
       WakeInv, Closing, Serving, Scanning
  <1>2. CASE ClientFin
    BY <1>2 DEF ClientFin, NetStep, EndInv, QuietInv, BodyStages, OutCount,
       WakeInv, Closing, Serving, Scanning
  <1>3. CASE ClientReset
    BY <1>3 DEF ClientReset, NetStep, EndInv, QuietInv, BodyStages, OutCount,
       WakeInv, Closing, Serving, Scanning
  <1>4. CASE ClientRead
    BY <1>4 DEF ClientRead, NetStep, EndInv, QuietInv, BodyStages, OutCount,
       WakeInv, Closing, Serving, Scanning
  <1>5. CASE Signal
    BY <1>5 DEF Signal, NetStep, EndInv, QuietInv, BodyStages, OutCount,
       WakeInv, Closing, Serving, Scanning
  <1>6. CASE EpollWait
    BY <1>6 DEF EpollWait, ReadyEvents, Handled, EndInv, QuietInv, BodyStages,
       OutCount, WakeInv, Closing, Serving, Scanning
  <1>7. CASE ReadEventfd
    BY <1>7 DEF ReadEventfd, EndInv, QuietInv, BodyStages, OutCount, WakeInv,
       Closing, Serving, Scanning
  <1>8. CASE ScanError
    BY <1>8 DEF ScanError, Goto, EndInv, QuietInv, BodyStages, OutCount,
       WakeInv, Closing, Serving, Scanning
  <1>9. CASE ScanFinished
    BY <1>9 DEF ScanFinished, Goto, isFinished, EndInv, QuietInv, BodyStages,
       OutCount, WakeInv, Closing, Serving, Scanning
  <1>10. CASE ScanDrained
    BY <1>10 DEF ScanDrained, Goto, EndInv, QuietInv, BodyStages, OutCount,
       WakeInv, Closing, Serving, Scanning
  <1>11. CASE ScanPending
    BY <1>11 DEF ScanPending, Wanted, EndInv, QuietInv, BodyStages, OutCount,
       WakeInv, Closing, Serving, Scanning
  <1>12. CASE DispatchClient
    BY <1>12 DEF DispatchClient, EndInv, QuietInv, BodyStages, OutCount,
       WakeInv, Closing, Serving, Scanning
  <1>13. CASE RecvError
    BY <1>13 DEF RecvError, AfterIn, EndInv, QuietInv, BodyStages, OutCount,
       WakeInv, Closing, Serving, Scanning
  <1>14. CASE RecvEof
    BY <1>14, EofFacts DEF EndInv, QuietInv, BodyStages, OutCount, WakeInv,
       Closing, Serving, Scanning, WakeReader
  <1>15. ASSUME NEW n \in 1..RecvSize, RecvHeader(n) PROVE EndInv'
    BY <1>15, HeaderFacts DEF EndInv, QuietInv, BodyStages, OutCount, WakeInv,
       Closing, Serving, Scanning
  <1>16. ASSUME NEW n \in 1..RecvSize, RecvBody(n) PROVE EndInv'
    BY <1>16, FeedFacts DEF EndInv, QuietInv, BodyStages, OutCount, WakeInv,
       Closing, Serving, Scanning, WakeReader
  <1>17. CASE pendingWriteData
    BY <1>17 DEF pendingWriteData, EndInv, QuietInv, BodyStages, OutCount,
       WakeInv, Closing, Serving, Scanning
  <1>18. ASSUME NEW n \in 1..MaxResponse, Send(n) PROVE EndInv'
    BY <1>18, SizeAssumption DEF Send, EndInv, QuietInv, BodyStages, OutCount,
       WakeInv, Closing, Serving, Scanning
  <1>19. CASE SendAgain
    BY <1>19 DEF SendAgain, EndInv, QuietInv, BodyStages, OutCount, WakeInv,
       Closing, Serving, Scanning
  <1>20. CASE SendError
    BY <1>20 DEF SendError, writeError, WakeWriter, EndInv, QuietInv,
       BodyStages, OutCount, WakeInv, Closing, Serving, Scanning
  <1>21. CASE advanceWrite
    BY <1>21 DEF advanceWrite, WakeWriter, EndInv, QuietInv, BodyStages,
       OutCount, WakeInv, Closing, Serving, Scanning
  <1>22. CASE OutPending
    BY <1>22 DEF OutPending, Goto, EndInv, QuietInv, BodyStages, OutCount,
       WakeInv, Closing, Serving, Scanning
  <1>23. CASE OutFinished
    BY <1>23 DEF OutFinished, isFinished, EndInv, QuietInv, BodyStages,
       OutCount, WakeInv, Closing, Serving, Scanning
  <1>24. CASE CloseFeed
    BY <1>24 DEF CloseFeed, feedError, WakeReader, EndInv, QuietInv,
       BodyStages, OutCount, WakeInv, Closing, Serving, Scanning
  <1>25. CASE CloseWrite
    BY <1>25 DEF CloseWrite, writeError, WakeWriter, EndInv, QuietInv,
       BodyStages, OutCount, WakeInv, Closing, Serving, Scanning
  <1>26. CASE Exit
    BY <1>26 DEF Exit, Goto, Handled, EndInv, QuietInv, BodyStages, OutCount,
       WakeInv, Closing, Serving, Scanning
  <1>27. CASE Start
    BY <1>27 DEF Start, WorkerOnly, EndInv, QuietInv, BodyStages, OutCount,
       WakeInv, Closing, Serving, Scanning
  <1>28. ASSUME NEW n \in 1..MaxResponse, BeginWrite(n) PROVE EndInv'
    BY <1>28, SizeAssumption DEF BeginWrite, WorkerOnly, EndInv, QuietInv,
       BodyStages, OutCount, WakeInv, Closing, Serving, Scanning
  <1>29. CASE writeData
    BY <1>29 DEF writeData, signal_eventfd, WriteReady, EndInv, QuietInv,
       BodyStages, OutCount, WakeInv, Closing, Serving, Scanning
  <1>30. CASE SpuriousWakeup
    BY <1>30 DEF SpuriousWakeup, WorkerOnly, EndInv, QuietInv, BodyStages,
       OutCount, WakeInv, Closing, Serving, Scanning
  <1>31. CASE EndHeaders
    BY <1>31 DEF EndHeaders, WorkerOnly, EndInv, QuietInv, BodyStages,
       OutCount, WakeInv, Closing, Serving, Scanning
  <1>32. CASE BeginRead
    BY <1>32 DEF BeginRead, WorkerOnly, EndInv, QuietInv, BodyStages,
       OutCount, WakeInv, Closing, Serving, Scanning
  <1>33. CASE readBodyChunk
    <2>1. ReadStatus = "error" => read_error
      BY DEF ReadStatus
    <2>2. outcome' = "error" => outcome = "error" \/ ReadStatus = "error"
      BY <1>33 DEF readBodyChunk
    <2>3. ReadStatus \in {"error", "truncated"} => ReadStatus # "finished"
      OBVIOUS
    <2> QED
      BY <1>33, <2>1, <2>2, <2>3 DEF readBodyChunk, setError, signal_eventfd,
         EndInv, BodyStages, Closing, Serving, Scanning
  <1>34. CASE EndBody
    BY <1>34 DEF EndBody, WorkerOnly, EndInv, QuietInv, BodyStages, OutCount,
       WakeInv, Closing, Serving, Scanning
  <1>35. CASE Finish
    BY <1>35 DEF Finish, signal_eventfd, EndInv, QuietInv, BodyStages,
       OutCount, WakeInv, Closing, Serving, Scanning
  <1>36. CASE Abort
    BY <1>36 DEF Abort, setError, signal_eventfd, EndInv, QuietInv,
       BodyStages, OutCount, WakeInv, Closing, Serving, Scanning
  <1>37. CASE UNCHANGED vars
    BY <1>37 DEF vars, EndInv, QuietInv, BodyStages, OutCount, WakeInv,
       Closing, Serving, Scanning
  <1> QED
    BY <1>1, <1>2, <1>3, <1>4, <1>5, <1>6, <1>7, <1>8, <1>9, <1>10, <1>11,
       <1>12, <1>13, <1>14, <1>15, <1>16, <1>17, <1>18, <1>19, <1>20, <1>21,
       <1>22, <1>23, <1>24, <1>25, <1>26, <1>27, <1>28, <1>29, <1>30, <1>31,
       <1>32, <1>33, <1>34, <1>35, <1>36, <1>37, Zenon DEF Next, Client, Loop,
       Worker

\* readBodyChunk() fails only for a reason.
LEMMA NoFalseAbortStep ==
  ASSUME Base, BodyInv, DeliveryInv, [Next]_vars
  PROVE  NoFalseAbort'
  <1> USE DEF netVars, ctxVars, loopVars, readVars, writeVars, taskVars
  <1> TypeOK /\ TypeOK' /\ ViewInv /\ ReadInv /\ BodyStages
    BY TypeStep DEF Base, BodyInv
  <1> /\ QuietInv /\ RecvInv /\ EndInv /\ NoFalseAbort
      /\ OutBytes /\ OutCount /\ WakeInv /\ SleepInv
    BY DEF DeliveryInv
  <1> /\ req.clen \in Nat /\ req.hlen \in Nat /\ req.total \in Nat
      /\ arrived \in Nat /\ got \in Nat /\ body_bytes_fed \in Nat
      /\ body_bytes_fed <= req.clen
    BY RequestType DEF TypeOK
  <1>1. CASE ClientSend
    BY <1>1 DEF ClientSend, NetStep, NoFalseAbort, RecvInv, EndInv
  <1>2. CASE ClientFin
    BY <1>2 DEF ClientFin, NetStep, NoFalseAbort, RecvInv, EndInv
  <1>3. CASE ClientReset
    BY <1>3 DEF ClientReset, NetStep, NoFalseAbort, RecvInv, EndInv
  <1>4. CASE ClientRead
    BY <1>4 DEF ClientRead, NetStep, NoFalseAbort, RecvInv, EndInv
  <1>5. CASE Signal
    BY <1>5 DEF Signal, NetStep, NoFalseAbort, RecvInv, EndInv
  <1>6. CASE EpollWait
    BY <1>6 DEF EpollWait, ReadyEvents, Handled, NoFalseAbort, RecvInv, EndInv
  <1>7. CASE ReadEventfd
    BY <1>7 DEF ReadEventfd, NoFalseAbort, RecvInv, EndInv
  <1>8. CASE ScanError
    BY <1>8 DEF ScanError, Goto, NoFalseAbort, RecvInv, EndInv
  <1>9. CASE ScanFinished
    BY <1>9 DEF ScanFinished, Goto, isFinished, NoFalseAbort, RecvInv, EndInv
  <1>10. CASE ScanDrained
    BY <1>10 DEF ScanDrained, Goto, NoFalseAbort, RecvInv, EndInv
  <1>11. CASE ScanPending
    BY <1>11 DEF ScanPending, Wanted, NoFalseAbort, RecvInv, EndInv
  <1>12. CASE DispatchClient
    BY <1>12 DEF DispatchClient, NoFalseAbort, RecvInv, EndInv
  <1>13. CASE RecvError
    BY <1>13 DEF RecvError, AfterIn, NoFalseAbort, RecvInv, EndInv
  <1>14. CASE RecvEof
    BY <1>14, EofFacts DEF NoFalseAbort, RecvInv, EndInv, WakeReader
  <1>15. ASSUME NEW n \in 1..RecvSize, RecvHeader(n) PROVE NoFalseAbort'
    BY <1>15, HeaderFacts DEF NoFalseAbort, EndInv, BodyStages
  <1>16. ASSUME NEW n \in 1..RecvSize, RecvBody(n) PROVE NoFalseAbort'
    BY <1>16, FeedFacts DEF NoFalseAbort, RecvInv, EndInv, WakeReader
  <1>17. CASE pendingWriteData
    BY <1>17 DEF pendingWriteData, NoFalseAbort, RecvInv, EndInv
  <1>18. ASSUME NEW n \in 1..MaxResponse, Send(n) PROVE NoFalseAbort'
    BY <1>18, SizeAssumption DEF Send, NoFalseAbort, RecvInv, EndInv
  <1>19. CASE SendAgain
    BY <1>19 DEF SendAgain, NoFalseAbort, RecvInv, EndInv
  <1>20. CASE SendError
    BY <1>20 DEF SendError, writeError, WakeWriter, NoFalseAbort, RecvInv,
       EndInv
  <1>21. CASE advanceWrite
    BY <1>21 DEF advanceWrite, WakeWriter, NoFalseAbort, RecvInv, EndInv
  <1>22. CASE OutPending
    BY <1>22 DEF OutPending, Goto, NoFalseAbort, RecvInv, EndInv
  <1>23. CASE OutFinished
    BY <1>23 DEF OutFinished, isFinished, NoFalseAbort, RecvInv, EndInv
  <1>24. CASE CloseFeed
    BY <1>24 DEF CloseFeed, feedError, WakeReader, NoFalseAbort, RecvInv,
       EndInv
  <1>25. CASE CloseWrite
    BY <1>25 DEF CloseWrite, writeError, WakeWriter, NoFalseAbort, RecvInv,
       EndInv
  <1>26. CASE Exit
    BY <1>26 DEF Exit, Goto, Handled, NoFalseAbort, RecvInv, EndInv
  <1>27. CASE Start
    BY <1>27 DEF Start, WorkerOnly, NoFalseAbort, RecvInv, EndInv
  <1>28. ASSUME NEW n \in 1..MaxResponse, BeginWrite(n) PROVE NoFalseAbort'
    BY <1>28, SizeAssumption DEF BeginWrite, WorkerOnly, NoFalseAbort,
       RecvInv, EndInv
  <1>29. CASE writeData
    BY <1>29 DEF writeData, signal_eventfd, WriteReady, NoFalseAbort, RecvInv,
       EndInv
  <1>30. CASE SpuriousWakeup
    BY <1>30 DEF SpuriousWakeup, WorkerOnly, NoFalseAbort, RecvInv, EndInv
  <1>31. CASE EndHeaders
    BY <1>31 DEF EndHeaders, WorkerOnly, NoFalseAbort, RecvInv, EndInv
  <1>32. CASE BeginRead
    BY <1>32 DEF BeginRead, WorkerOnly, NoFalseAbort, RecvInv, EndInv
  <1>33. CASE readBodyChunk
    <2>1. /\ worker = "reading" /\ outcome = "none"
          /\ UNCHANGED <<req, eos, reset, shutdown, body_bytes_fed>>
      BY <1>33 DEF readBodyChunk, EndInv
    <2>2. /\ want \in Nat /\ want > 0 /\ stage = "body"
          /\ Len(consumed) + Len(read_chunk) = body_bytes_fed
          /\ Len(consumed) < req.clen /\ Len(consumed) \in Nat
      <3>1. want \in Nat /\ want > 0
        BY <2>1, WantType
      <3> QED
        BY <2>1, <3>1 DEF BodyStages, ReadInv, TypeOK
    <2>3. ASSUME outcome' = "error" PROVE NoFalseAbort'
      <3>1. ReadStatus = "error"
        BY <1>33, <2>1, <2>3 DEF readBodyChunk
      <3>2. read_error /\ ~bodyCompleteLocked
        BY <3>1 DEF ReadStatus
      <3>3. (reset \/ shutdown) /\ body_bytes_fed < req.clen
        BY <2>1, <3>2 DEF EndInv, bodyCompleteLocked
      <3> QED
        BY <2>1, <2>3, <3>3 DEF NoFalseAbort
    <2>4. ASSUME outcome' = "truncated" PROVE NoFalseAbort'
      <3>1. ReadStatus = "truncated"
        BY <1>33, <2>1, <2>4 DEF readBodyChunk
      <3>2. read_eof /\ ~bodyCompleteLocked
        BY <3>1 DEF ReadStatus
      <3>3. body_bytes_fed < req.clen
        BY <3>2 DEF bodyCompleteLocked
      <3>4. eos /\ req.total < req.hlen + req.clen
        BY <3>2, <3>3 DEF RecvInv
      <3> QED
        BY <2>1, <2>4, <3>4 DEF NoFalseAbort
    <2>5. outcome' # "no_data"
      <3> SUFFICES ASSUME outcome' = "no_data" PROVE FALSE
        OBVIOUS
      <3>1. ReadReady /\ ReadStatus \in {"data", "complete"} /\ read_chunk = <<>>
        BY <1>33, <2>1 DEF readBodyChunk, ReadStatus
      <3>2. ~bodyCompleteLocked
        BY <2>2, <3>1 DEF bodyCompleteLocked
      <3>3. ReadRest = <<>>
        BY <2>2, <3>1, SubSeqEmpty DEF ReadRest
      <3>4. read_eof \/ read_error
        BY <2>2, <3>1, <3>2 DEF ReadReady
      <3> QED
        BY <3>1, <3>2, <3>3, <3>4 DEF ReadStatus
    <2>6. outcome' \in {"none", "error", "truncated", "no_data"}
      BY <1>33, <2>1 DEF readBodyChunk, ReadStatus
    <2> QED
      BY <2>3, <2>4, <2>5, <2>6 DEF NoFalseAbort
  <1>34. CASE EndBody
    BY <1>34 DEF EndBody, WorkerOnly, NoFalseAbort, RecvInv, EndInv
  <1>35. CASE Finish
    BY <1>35 DEF Finish, signal_eventfd, NoFalseAbort, RecvInv, EndInv
  <1>36. CASE Abort
    BY <1>36 DEF Abort, setError, signal_eventfd, NoFalseAbort, RecvInv, EndInv
  <1>37. CASE UNCHANGED vars
    BY <1>37 DEF vars, NoFalseAbort, RecvInv, EndInv
  <1> QED
    BY <1>1, <1>2, <1>3, <1>4, <1>5, <1>6, <1>7, <1>8, <1>9, <1>10, <1>11,
       <1>12, <1>13, <1>14, <1>15, <1>16, <1>17, <1>18, <1>19, <1>20, <1>21,
       <1>22, <1>23, <1>24, <1>25, <1>26, <1>27, <1>28, <1>29, <1>30, <1>31,
       <1>32, <1>33, <1>34, <1>35, <1>36, <1>37, Zenon DEF Next, Client, Loop,
       Worker

\* No step leaves the loop without something that brings it back.
LEMMA WakeInvStep ==
  ASSUME Base, BodyInv, DeliveryInv, [Next]_vars
  PROVE  WakeInv'
  <1> USE DEF netVars, ctxVars, loopVars, readVars, writeVars, taskVars
  <1> TypeOK /\ TypeOK' /\ ViewInv /\ ReadInv /\ BodyStages
    BY TypeStep DEF Base, BodyInv
  <1> /\ QuietInv /\ RecvInv /\ EndInv /\ NoFalseAbort
      /\ OutBytes /\ OutCount /\ WakeInv /\ SleepInv
    BY DEF DeliveryInv
  <1> /\ req.clen \in Nat /\ req.hlen \in Nat /\ req.total \in Nat
      /\ arrived \in Nat /\ got \in Nat /\ body_bytes_fed \in Nat
      /\ body_bytes_fed <= req.clen
    BY RequestType DEF TypeOK
  <1>1. CASE ClientSend
    BY <1>1 DEF ClientSend, NetStep, WakeInv, Noticed, Closing, Scanning,
       isFinished, OutCount, EndInv, QuietInv
  <1>2. CASE ClientFin
    BY <1>2 DEF ClientFin, NetStep, WakeInv, Noticed, Closing, Scanning,
       isFinished, OutCount, EndInv, QuietInv
  <1>3. CASE ClientReset
    BY <1>3 DEF ClientReset, NetStep, WakeInv, Noticed, Closing, Scanning,
       isFinished, OutCount, EndInv, QuietInv
  <1>4. CASE ClientRead
    BY <1>4 DEF ClientRead, NetStep, WakeInv, Noticed, Closing, Scanning,
       isFinished, OutCount, EndInv, QuietInv
  <1>5. CASE Signal
    BY <1>5 DEF Signal, NetStep, WakeInv, Noticed, Closing, Scanning,
       isFinished, OutCount, EndInv, QuietInv
  <1>6. CASE EpollWait
    BY <1>6 DEF EpollWait, ReadyEvents, Handled, WakeInv, Noticed, Closing,
       Scanning, isFinished, OutCount, EndInv, QuietInv
  <1>7. CASE ReadEventfd
    BY <1>7 DEF ReadEventfd, WakeInv, Noticed, Closing, Scanning, isFinished,
       OutCount, EndInv, QuietInv
  <1>8. CASE ScanError
    BY <1>8 DEF ScanError, Goto, WakeInv, Noticed, Closing, Scanning,
       isFinished, OutCount, EndInv, QuietInv
  <1>9. CASE ScanFinished
    BY <1>9 DEF ScanFinished, Goto, isFinished, WakeInv, Noticed, Closing,
       Scanning, OutCount, EndInv, QuietInv
  <1>10. CASE ScanDrained
    BY <1>10 DEF ScanDrained, Goto, WakeInv, Noticed, Closing, Scanning,
       isFinished, OutCount, EndInv, QuietInv
  <1>11. CASE ScanPending
    BY <1>11 DEF ScanPending, Wanted, WakeInv, Noticed, Closing, Scanning,
       isFinished, OutCount, EndInv, QuietInv
  <1>12. CASE DispatchClient
    BY <1>12 DEF DispatchClient, WakeInv, Noticed, Closing, Scanning,
       isFinished, OutCount, EndInv, QuietInv
  <1>13. CASE RecvError
    BY <1>13 DEF RecvError, AfterIn, WakeInv, Noticed, Closing, Scanning,
       isFinished, OutCount, EndInv, QuietInv
  <1>14. CASE RecvEof
    BY <1>14, EofFacts DEF WakeInv, Noticed, Closing, Scanning, isFinished,
       OutCount, EndInv, QuietInv, WakeReader
  <1>15. ASSUME NEW n \in 1..RecvSize, RecvHeader(n) PROVE WakeInv'
    BY <1>15, HeaderFacts DEF WakeInv, Noticed, Closing, Scanning, isFinished,
       OutCount, EndInv, QuietInv
  <1>16. ASSUME NEW n \in 1..RecvSize, RecvBody(n) PROVE WakeInv'
    BY <1>16, FeedFacts DEF WakeInv, Noticed, Closing, Scanning, isFinished,
       OutCount, EndInv, QuietInv, WakeReader
  <1>17. CASE pendingWriteData
    <2>1. write_cursor >= Len(write_buffer) => write_buffer = <<>>
      BY DEF OutCount, TypeOK
    <2> QED
      BY <1>17, <2>1 DEF pendingWriteData, WakeInv, Noticed, Closing,
         Scanning, isFinished
  <1>18. ASSUME NEW n \in 1..MaxResponse, Send(n) PROVE WakeInv'
    BY <1>18, SizeAssumption DEF Send, WakeInv, Noticed, Closing, Scanning,
       isFinished, OutCount, EndInv, QuietInv
  <1>19. CASE SendAgain
    BY <1>19 DEF SendAgain, WakeInv, Noticed, Closing, Scanning, isFinished,
       OutCount, EndInv, QuietInv
  <1>20. CASE SendError
    BY <1>20 DEF SendError, writeError, WakeWriter, WakeInv, Noticed, Closing,
       Scanning, isFinished, OutCount, EndInv, QuietInv
  <1>21. CASE advanceWrite
    BY <1>21 DEF advanceWrite, WakeWriter, WakeInv, Noticed, Closing,
       Scanning, isFinished, OutCount, EndInv, QuietInv
  <1>22. CASE OutPending
    BY <1>22 DEF OutPending, Goto, WakeInv, Noticed, Closing, Scanning,
       isFinished, OutCount, EndInv, QuietInv
  <1>23. CASE OutFinished
    BY <1>23 DEF OutFinished, isFinished, WakeInv, Noticed, Closing, Scanning,
       OutCount, EndInv, QuietInv
  <1>24. CASE CloseFeed
    BY <1>24 DEF CloseFeed, feedError, WakeReader, WakeInv, Noticed, Closing,
       Scanning, isFinished, OutCount, EndInv, QuietInv
  <1>25. CASE CloseWrite
    BY <1>25 DEF CloseWrite, writeError, WakeWriter, WakeInv, Noticed,
       Closing, Scanning, isFinished, OutCount, EndInv, QuietInv
  <1>26. CASE Exit
    BY <1>26 DEF Exit, Goto, Handled, WakeInv, Noticed, Closing, Scanning,
       isFinished, OutCount, EndInv, QuietInv
  <1>27. CASE Start
    BY <1>27 DEF Start, WorkerOnly, WakeInv, Noticed, Closing, Scanning,
       isFinished, OutCount, EndInv, QuietInv
  <1>28. ASSUME NEW n \in 1..MaxResponse, BeginWrite(n) PROVE WakeInv'
    BY <1>28, SizeAssumption DEF BeginWrite, WorkerOnly, WakeInv, Noticed,
       Closing, Scanning, isFinished, OutCount, EndInv, QuietInv
  <1>29. CASE writeData
    BY <1>29 DEF writeData, signal_eventfd, WriteReady, WakeInv, Noticed,
       Closing, Scanning, isFinished, OutCount, EndInv, QuietInv
  <1>30. CASE SpuriousWakeup
    BY <1>30 DEF SpuriousWakeup, WorkerOnly, WakeInv, Noticed, Closing,
       Scanning, isFinished, OutCount, EndInv, QuietInv
  <1>31. CASE EndHeaders
    BY <1>31 DEF EndHeaders, WorkerOnly, WakeInv, Noticed, Closing, Scanning,
       isFinished, OutCount, EndInv, QuietInv
  <1>32. CASE BeginRead
    BY <1>32 DEF BeginRead, WorkerOnly, WakeInv, Noticed, Closing, Scanning,
       isFinished, OutCount, EndInv, QuietInv
  <1>33. CASE readBodyChunk
    BY <1>33 DEF readBodyChunk, setError, signal_eventfd, WakeInv, Noticed,
       Closing, Scanning, isFinished, OutCount, EndInv, QuietInv
  <1>34. CASE EndBody
    BY <1>34 DEF EndBody, WorkerOnly, WakeInv, Noticed, Closing, Scanning,
       isFinished, OutCount, EndInv, QuietInv
  <1>35. CASE Finish
    BY <1>35 DEF Finish, signal_eventfd, WakeInv, Noticed, Closing, Scanning,
       isFinished, OutCount, EndInv, QuietInv
  <1>36. CASE Abort
    BY <1>36 DEF Abort, setError, signal_eventfd, WakeInv, Noticed, Closing,
       Scanning, isFinished, OutCount, EndInv, QuietInv
  <1>37. CASE UNCHANGED vars
    BY <1>37 DEF vars, WakeInv, Noticed, Closing, Scanning, isFinished,
       OutCount, EndInv, QuietInv
  <1> QED
    BY <1>1, <1>2, <1>3, <1>4, <1>5, <1>6, <1>7, <1>8, <1>9, <1>10, <1>11,
       <1>12, <1>13, <1>14, <1>15, <1>16, <1>17, <1>18, <1>19, <1>20, <1>21,
       <1>22, <1>23, <1>24, <1>25, <1>26, <1>27, <1>28, <1>29, <1>30, <1>31,
       <1>32, <1>33, <1>34, <1>35, <1>36, <1>37, Zenon DEF Next, Client, Loop,
       Worker

\* Every step that makes a predicate true wakes the thread that waits for it.
LEMMA SleepInvStep ==
  ASSUME Base, BodyInv, DeliveryInv, [Next]_vars
  PROVE  SleepInv'
  <1> USE DEF netVars, ctxVars, loopVars, readVars, writeVars, taskVars
  <1> TypeOK /\ TypeOK' /\ ViewInv /\ ReadInv /\ BodyStages
    BY TypeStep DEF Base, BodyInv
  <1> /\ QuietInv /\ RecvInv /\ EndInv /\ NoFalseAbort
      /\ OutBytes /\ OutCount /\ WakeInv /\ SleepInv
    BY DEF DeliveryInv
  <1> /\ req.clen \in Nat /\ req.hlen \in Nat /\ req.total \in Nat
      /\ arrived \in Nat /\ got \in Nat /\ body_bytes_fed \in Nat
      /\ body_bytes_fed <= req.clen
    BY RequestType DEF TypeOK
  <1>1. CASE ClientSend
    BY <1>1 DEF ClientSend, NetStep, SleepInv, ReadReady, want,
       bodyCompleteLocked
  <1>2. CASE ClientFin
    BY <1>2 DEF ClientFin, NetStep, SleepInv, ReadReady, want,
       bodyCompleteLocked
  <1>3. CASE ClientReset
    BY <1>3 DEF ClientReset, NetStep, SleepInv, ReadReady, want,
       bodyCompleteLocked
  <1>4. CASE ClientRead
    BY <1>4 DEF ClientRead, NetStep, SleepInv, ReadReady, want,
       bodyCompleteLocked
  <1>5. CASE Signal
    BY <1>5 DEF Signal, NetStep, SleepInv, ReadReady, want, bodyCompleteLocked
  <1>6. CASE EpollWait
    BY <1>6 DEF EpollWait, ReadyEvents, Handled, SleepInv, ReadReady, want,
       bodyCompleteLocked
  <1>7. CASE ReadEventfd
    BY <1>7 DEF ReadEventfd, SleepInv, ReadReady, want, bodyCompleteLocked
  <1>8. CASE ScanError
    BY <1>8 DEF ScanError, Goto, SleepInv, ReadReady, want, bodyCompleteLocked
  <1>9. CASE ScanFinished
    BY <1>9 DEF ScanFinished, Goto, isFinished, SleepInv, ReadReady, want,
       bodyCompleteLocked
  <1>10. CASE ScanDrained
    BY <1>10 DEF ScanDrained, Goto, SleepInv, ReadReady, want,
       bodyCompleteLocked
  <1>11. CASE ScanPending
    BY <1>11 DEF ScanPending, Wanted, SleepInv, ReadReady, want,
       bodyCompleteLocked
  <1>12. CASE DispatchClient
    BY <1>12 DEF DispatchClient, SleepInv, ReadReady, want, bodyCompleteLocked
  <1>13. CASE RecvError
    BY <1>13 DEF RecvError, AfterIn, SleepInv, ReadReady, want,
       bodyCompleteLocked
  <1>14. CASE RecvEof
    BY <1>14, EofFacts DEF SleepInv, ReadReady, want, bodyCompleteLocked,
       WakeReader
  <1>15. ASSUME NEW n \in 1..RecvSize, RecvHeader(n) PROVE SleepInv'
    BY <1>15, HeaderFacts DEF SleepInv, ReadReady, want, bodyCompleteLocked
  <1>16. ASSUME NEW n \in 1..RecvSize, RecvBody(n) PROVE SleepInv'
    BY <1>16, FeedFacts DEF SleepInv, ReadReady, want, bodyCompleteLocked,
       WakeReader
  <1>17. CASE pendingWriteData
    BY <1>17 DEF pendingWriteData, SleepInv, ReadReady, want,
       bodyCompleteLocked
  <1>18. ASSUME NEW n \in 1..MaxResponse, Send(n) PROVE SleepInv'
    BY <1>18, SizeAssumption DEF Send, SleepInv, ReadReady, want,
       bodyCompleteLocked
  <1>19. CASE SendAgain
    BY <1>19 DEF SendAgain, SleepInv, ReadReady, want, bodyCompleteLocked
  <1>20. CASE SendError
    BY <1>20 DEF SendError, writeError, WakeWriter, SleepInv, ReadReady, want,
       bodyCompleteLocked
  <1>21. CASE advanceWrite
    BY <1>21 DEF advanceWrite, WakeWriter, SleepInv, ReadReady, want,
       bodyCompleteLocked
  <1>22. CASE OutPending
    BY <1>22 DEF OutPending, Goto, SleepInv, ReadReady, want,
       bodyCompleteLocked
  <1>23. CASE OutFinished
    BY <1>23 DEF OutFinished, isFinished, SleepInv, ReadReady, want,
       bodyCompleteLocked
  <1>24. CASE CloseFeed
    BY <1>24 DEF CloseFeed, feedError, WakeReader, SleepInv, ReadReady, want,
       bodyCompleteLocked
  <1>25. CASE CloseWrite
    BY <1>25 DEF CloseWrite, writeError, WakeWriter, SleepInv, ReadReady,
       want, bodyCompleteLocked
  <1>26. CASE Exit
    BY <1>26 DEF Exit, Goto, Handled, SleepInv, ReadReady, want,
       bodyCompleteLocked
  <1>27. CASE Start
    BY <1>27 DEF Start, WorkerOnly, SleepInv, ReadReady, want,
       bodyCompleteLocked
  <1>28. ASSUME NEW n \in 1..MaxResponse, BeginWrite(n) PROVE SleepInv'
    BY <1>28, SizeAssumption DEF BeginWrite, WorkerOnly, SleepInv, ReadReady,
       want, bodyCompleteLocked
  <1>29. CASE writeData
    BY <1>29 DEF writeData, signal_eventfd, WriteReady, SleepInv, ReadReady,
       want, bodyCompleteLocked
  <1>30. CASE SpuriousWakeup
    BY <1>30 DEF SpuriousWakeup, WorkerOnly, SleepInv, ReadReady, want,
       bodyCompleteLocked
  <1>31. CASE EndHeaders
    BY <1>31 DEF EndHeaders, WorkerOnly, SleepInv, ReadReady, want,
       bodyCompleteLocked
  <1>32. CASE BeginRead
    BY <1>32 DEF BeginRead, WorkerOnly, SleepInv, ReadReady, want,
       bodyCompleteLocked
  <1>33. CASE readBodyChunk
    BY <1>33 DEF readBodyChunk, setError, signal_eventfd, SleepInv, ReadReady,
       want, bodyCompleteLocked
  <1>34. CASE EndBody
    BY <1>34 DEF EndBody, WorkerOnly, SleepInv, ReadReady, want,
       bodyCompleteLocked
  <1>35. CASE Finish
    BY <1>35 DEF Finish, signal_eventfd, SleepInv, ReadReady, want,
       bodyCompleteLocked
  <1>36. CASE Abort
    BY <1>36 DEF Abort, setError, signal_eventfd, SleepInv, ReadReady, want,
       bodyCompleteLocked
  <1>37. CASE UNCHANGED vars
    BY <1>37 DEF vars, SleepInv, ReadReady, want, bodyCompleteLocked
  <1> QED
    BY <1>1, <1>2, <1>3, <1>4, <1>5, <1>6, <1>7, <1>8, <1>9, <1>10, <1>11,
       <1>12, <1>13, <1>14, <1>15, <1>16, <1>17, <1>18, <1>19, <1>20, <1>21,
       <1>22, <1>23, <1>24, <1>25, <1>26, <1>27, <1>28, <1>29, <1>30, <1>31,
       <1>32, <1>33, <1>34, <1>35, <1>36, <1>37, Zenon DEF Next, Client, Loop,
       Worker

----------------------------------------------------------------------------
(* The bytes of the response *)

\* The part of the state OutBytes and OutCount speak of is left alone.
OutFrame ==
  /\ UNCHANGED <<delivered, write_buffer, write_cursor, chunk, produced>>
  /\ SentUpTo' = SentUpTo
  /\ write_error => write_error'
  /\ worker \in {"writing", "write_sleep"} <=>
       worker' \in {"writing", "write_sleep"}

\* The steps that move bytes of the response.
OutAction ==
  \/ SendError \/ advanceWrite \/ CloseWrite \/ writeData
  \/ \E n \in 1..MaxResponse : Send(n) \/ BeginWrite(n)

\* Only the actions of OutAction touch the response.
LEMMA OutFrameStep ==
  ASSUME TypeOK, RecvInv, EndInv, BodyStages, [Next]_vars
  PROVE  OutAction \/ OutFrame
  <1> USE DEF OutFrame, SentUpTo, netVars, ctxVars, loopVars, readVars,
         writeVars, taskVars
  <1>1. CASE ClientSend
    BY <1>1 DEF ClientSend, NetStep
  <1>2. CASE ClientFin
    BY <1>2 DEF ClientFin, NetStep
  <1>3. CASE ClientReset
    BY <1>3 DEF ClientReset, NetStep
  <1>4. CASE ClientRead
    BY <1>4 DEF ClientRead, NetStep
  <1>5. CASE Signal
    BY <1>5 DEF Signal, NetStep
  <1>6. CASE EpollWait
    BY <1>6 DEF EpollWait
  <1>7. CASE ReadEventfd
    BY <1>7 DEF ReadEventfd
  <1>8. CASE ScanError
    BY <1>8 DEF ScanError, Goto
  <1>9. CASE ScanFinished
    BY <1>9 DEF ScanFinished, Goto
  <1>10. CASE ScanDrained
    BY <1>10 DEF ScanDrained, Goto
  <1>11. CASE ScanPending
    BY <1>11 DEF ScanPending
  <1>12. CASE DispatchClient
    BY <1>12 DEF DispatchClient
  <1>13. CASE RecvError
    BY <1>13 DEF RecvError, AfterIn
  <1>14. CASE RecvEof
    BY <1>14, EofFacts DEF WakeReader
  <1>15. ASSUME NEW n \in 1..RecvSize, RecvHeader(n) PROVE OutFrame
    BY <1>15, HeaderFacts DEF BodyStages
  <1>16. ASSUME NEW n \in 1..RecvSize, RecvBody(n) PROVE OutFrame
    BY <1>16, FeedFacts DEF WakeReader
  <1>17. CASE pendingWriteData
    BY <1>17 DEF pendingWriteData
  <1>18. CASE SendAgain
    BY <1>18 DEF SendAgain
  <1>19. CASE OutPending
    BY <1>19 DEF OutPending, Goto
  <1>20. CASE OutFinished
    BY <1>20 DEF OutFinished
  <1>21. CASE CloseFeed
    BY <1>21 DEF CloseFeed, feedError, WakeReader
  <1>22. CASE Exit
    BY <1>22 DEF Exit, Goto
  <1>23. CASE Start
    BY <1>23 DEF Start, WorkerOnly
  <1>24. CASE SpuriousWakeup
    BY <1>24 DEF SpuriousWakeup, WorkerOnly
  <1>25. CASE EndHeaders
    BY <1>25 DEF EndHeaders, WorkerOnly
  <1>26. CASE BeginRead
    BY <1>26 DEF BeginRead, WorkerOnly
  <1>27. CASE readBodyChunk
    BY <1>27 DEF readBodyChunk, setError, signal_eventfd
  <1>28. CASE EndBody
    BY <1>28 DEF EndBody, WorkerOnly
  <1>29. CASE Finish
    BY <1>29 DEF Finish, signal_eventfd
  <1>30. CASE Abort
    BY <1>30 DEF Abort, setError, signal_eventfd
  <1>31. CASE UNCHANGED vars
    BY <1>31 DEF vars
  <1> QED
    BY <1>1, <1>2, <1>3, <1>4, <1>5, <1>6, <1>7, <1>8, <1>9, <1>10, <1>11,
       <1>12, <1>13, <1>14, <1>15, <1>16, <1>17, <1>18, <1>19, <1>20, <1>21,
       <1>22, <1>23, <1>24, <1>25, <1>26, <1>27, <1>28, <1>29, <1>30, <1>31,
       Zenon DEF Next, Client, Loop, Worker, OutAction

\* Every step keeps the response bytes in order on their way from writeData()
\* through write_buffer_ to the socket.
LEMMA OutStep ==
  ASSUME Base, BodyInv, DeliveryInv, [Next]_vars
  PROVE  OutBytes' /\ OutCount'
  <1> USE DEF netVars, ctxVars, loopVars, readVars, writeVars, taskVars
  <1> TypeOK /\ ViewInv /\ BodyStages
    BY DEF Base, BodyInv
  <1> RecvInv /\ EndInv /\ OutBytes /\ OutCount
    BY DEF DeliveryInv
  <1> /\ delivered \in Seq(Nat) /\ Len(delivered) \in Nat
      /\ write_buffer \in Seq(Nat) /\ Len(write_buffer) \in Nat
      /\ chunk \in Seq(Nat) /\ Len(chunk) \in Nat
      /\ view \in Seq(Nat) /\ Len(view) \in Nat
      /\ produced \in Nat /\ write_cursor \in Nat
    BY DEF TypeOK
  <1>1. CASE OutFrame
    BY <1>1 DEF OutFrame, OutBytes, OutCount
  <1>2. CASE SendError \/ CloseWrite
    <2>1. /\ UNCHANGED <<delivered, chunk, produced>>
          /\ write_buffer' = <<>> /\ write_error'
          /\ worker \in {"writing", "write_sleep"} <=>
               worker' \in {"writing", "write_sleep"}
      BY <1>2 DEF SendError, CloseWrite, writeError, WakeWriter
    <2>2. OutBytes'
      BY <2>1 DEF OutBytes
    <2>3. OutCount'
      BY <2>1 DEF OutCount
    <2> QED
      BY <2>2, <2>3
  <1>3. CASE advanceWrite
    <2>1. /\ loop = "advance" /\ loop' = "out_pending"
          /\ UNCHANGED <<delivered, chunk, produced, write_error>>
          /\ worker \in {"writing", "write_sleep"} <=>
               worker' \in {"writing", "write_sleep"}
      BY <1>3 DEF advanceWrite, WakeWriter
    <2>2. /\ SentUpTo = write_cursor + Len(view) /\ Len(view) > 0
          /\ write_cursor + Len(view) <= Len(write_buffer)
      BY <2>1 DEF SentUpTo, ViewInv
    <2>3. SentUpTo' = write_cursor'
      BY <2>1 DEF SentUpTo
    <2>4. CASE write_cursor + Len(view) >= Len(write_buffer)
      <3>1. write_buffer' = <<>>
        BY <1>3, <2>4 DEF advanceWrite
      <3>2. Len(write_buffer) - SentUpTo = 0 /\ write_buffer # <<>>
        BY <2>2, <2>4
      <3>3. OutBytes'
        BY <2>1, <3>1 DEF OutBytes
      <3>4. OutCount'
        BY <2>1, <3>1, <3>2 DEF OutCount
      <3> QED
        BY <3>3, <3>4
    <2>5. CASE write_cursor + Len(view) < Len(write_buffer)
      <3>1. UNCHANGED write_buffer /\ write_cursor' = SentUpTo
        BY <1>3, <2>2, <2>5 DEF advanceWrite
      <3>2. OutBytes'
        BY <2>1, <2>3, <3>1 DEF OutBytes
      <3>3. OutCount'
        BY <2>1, <2>2, <2>3, <2>5, <3>1 DEF OutCount
      <3> QED
        BY <3>2, <3>3
    <2> QED
      BY <2>4, <2>5
  <1>4. CASE writeData
    <2>1. /\ worker = "writing" /\ chunk # <<>> /\ Len(chunk) > 0
          /\ UNCHANGED <<delivered, produced, loop, view, write_error>>
      BY <1>4 DEF writeData, OutCount
    <2>2. CASE ~WriteReady
      <3>1. OutFrame
        BY <1>4, <2>2 DEF writeData, OutFrame, SentUpTo
      <3> QED
        BY <1>1, <3>1
    <2>3. CASE write_error
      <3>1. /\ worker' = "handling" /\ chunk' = <<>>
            /\ UNCHANGED <<write_buffer, write_cursor>>
        BY <1>4, <2>3 DEF writeData, WriteReady
      <3>2. SentUpTo' = SentUpTo
        BY <2>1, <3>1 DEF SentUpTo
      <3>3. OutBytes'
        BY <2>1, <3>1, <3>2 DEF OutBytes
      <3>4. OutCount'
        BY <2>1, <2>3, <3>1, <3>2 DEF OutCount
      <3> QED
        BY <3>3, <3>4
    <2>4. CASE WriteReady /\ ~write_error
      <3>1. /\ worker' = "handling" /\ chunk' = <<>>
            /\ write_buffer' = chunk /\ write_cursor' = 0
            /\ write_buffer = <<>>
        BY <1>4, <2>4 DEF writeData, WriteReady
      <3>2. loop # "advance"
        BY <3>1 DEF ViewInv
      <3>3. SentUpTo' = 0
        BY <2>1, <3>1, <3>2 DEF SentUpTo
      <3>4. produced = Len(delivered) + Len(chunk)
        BY <2>4, <3>1 DEF OutCount
      <3>5. OutBytes'
        BY <2>1, <3>1, <3>3, <3>4 DEF OutBytes
      <3>6. OutCount'
        BY <2>1, <3>1, <3>3, <3>4 DEF OutCount
      <3> QED
        BY <3>5, <3>6
    <2> QED
      BY <2>2, <2>3, <2>4
  <1>5. ASSUME NEW n \in 1..MaxResponse, Send(n) PROVE OutBytes' /\ OutCount'
    <2> DEFINE sent == SubSeq(write_buffer, write_cursor + 1, write_cursor + n)
    <2>1. /\ loop = "send" /\ loop' = "advance" /\ n <= Len(view) /\ n \in Nat
          /\ n > 0
          /\ delivered' = delivered \o sent /\ view' = SubSeq(view, 1, n)
          /\ UNCHANGED <<write_buffer, write_cursor, write_error, chunk,
                         produced, worker>>
      BY <1>5, SizeAssumption DEF Send
    <2>2. write_cursor + n <= Len(write_buffer)
      BY <2>1 DEF ViewInv
    <2>3. Len(view') = n
      <3>1. Len(view') = IF 1 <= n THEN n - 1 + 1 ELSE 0
        BY <2>1, SubSeqType
      <3> QED
        BY <2>1, <3>1
    <2>4. /\ sent \in Seq(Nat) /\ Len(sent) = n
          /\ \A i \in 1..n : sent[i] = write_buffer[write_cursor + i]
      <3> DEFINE m == write_cursor + 1
                 k == write_cursor + n
      <3>1. m \in Nat /\ m > 0 /\ m <= k /\ k \in Nat /\ k <= Len(write_buffer)
        BY <2>1, <2>2
      <3>2. sent \in Seq(Nat) /\ Len(sent) = k - m + 1
        BY <3>1, SubSeqType
      <3>3. ASSUME NEW i \in 1..n PROVE sent[i] = write_buffer[write_cursor + i]
        <4>1. i \in 1..(k - m + 1) /\ m + i - 1 = write_cursor + i
          BY <2>1
        <4>2. \A j \in m..k : write_buffer[j] \in Nat
          BY <3>1
        <4>3. m \in 1..(Len(write_buffer) + 1) /\ k \in m..Len(write_buffer)
          BY <3>1
        <4>4. sent[i] = write_buffer[m + i - 1]
          BY <3>1, <4>1, <4>3, SubSeqProperties
        <4> QED
          BY <4>1, <4>4
      <3> QED
        BY <2>1, <3>2, <3>3
    <2> HIDE DEF sent
    <2>5. /\ delivered' \in Seq(Nat) /\ Len(delivered') = Len(delivered) + n
          /\ \A i \in 1..Len(delivered) : delivered'[i] = delivered[i]
          /\ \A i \in 1..n : delivered'[Len(delivered) + i] = sent[i]
      BY ZenonT(60), <2>1, <2>4, ConcatType
    <2>6. SentUpTo = write_cursor /\ SentUpTo' = write_cursor + n
      BY <2>1, <2>3 DEF SentUpTo
    <2>7. ASSUME NEW i \in 1..Len(delivered') PROVE delivered'[i] = i
      <3>1. CASE i <= Len(delivered)
        <4>1. i \in 1..Len(delivered)
          BY <2>5, <3>1
        <4> QED
          BY <2>5, <4>1 DEF OutBytes
      <3>2. CASE i > Len(delivered)
        <4> DEFINE j == i - Len(delivered)
        <4>1. j \in 1..n /\ write_cursor + j \in 1..Len(write_buffer)
          <5>1. /\ i \in Nat /\ Len(delivered) \in Nat /\ write_cursor \in Nat
                /\ Len(write_buffer) \in Nat /\ i <= Len(delivered')
            BY <2>5
          <5>2. i <= Len(delivered) + n /\ n \in Nat
            BY <2>1, <2>5, <5>1
          <5> QED
            BY <2>2, <3>2, <5>1, <5>2
        <4>2. delivered'[Len(delivered) + j] = write_buffer[write_cursor + j]
          BY <2>4, <2>5, <4>1
        <4>3. write_buffer[write_cursor + j] =
                (Len(delivered) - write_cursor) + (write_cursor + j)
          BY <2>6, <4>1 DEF OutBytes
        <4> QED
          BY <4>1, <4>2, <4>3
      <3> QED
        BY <2>5, <3>1, <3>2
    <2>8. OutBytes'
      <3>1. (Len(delivered') - SentUpTo') = Len(delivered) - SentUpTo
        BY <2>1, <2>5, <2>6
      <3> QED
        BY <2>1, <2>7, <3>1 DEF OutBytes
    <2>9. OutCount'
      <3>1. write_buffer # <<>>
        BY <2>1, <2>2
      <3>2. ~write_error =>
              produced = Len(delivered) + Len(chunk)
                           + (Len(write_buffer) - write_cursor)
        BY <2>6, <3>1 DEF OutCount
      <3>3. ~write_error =>
              produced = Len(delivered') + Len(chunk)
                           + (Len(write_buffer) - SentUpTo')
        <4>1. Len(delivered) + Len(chunk) + (Len(write_buffer) - write_cursor)
                = (Len(delivered) + n) + Len(chunk)
                    + (Len(write_buffer) - (write_cursor + n))
          BY <2>1
        <4> QED
          BY <2>5, <2>6, <3>2, <4>1
      <3>4. ~write_error' =>
              produced' = Len(delivered') + Len(chunk')
                            + (IF write_buffer' = <<>> THEN 0
                               ELSE Len(write_buffer') - SentUpTo')
        BY <2>1, <3>1, <3>3
      <3> QED
        BY <2>1, <3>4 DEF OutCount
    <2> QED
      BY <2>8, <2>9
  <1>6. ASSUME NEW n \in 1..MaxResponse, BeginWrite(n)
        PROVE  OutBytes' /\ OutCount'
    <2>1. /\ worker = "handling" /\ worker' = "writing" /\ n \in Nat /\ n > 0
          /\ chunk' = Bytes(produced, n) /\ produced' = produced + n
          /\ UNCHANGED <<delivered, write_buffer, write_cursor, write_error,
                         loop, view>>
      BY <1>6, SizeAssumption DEF BeginWrite, WorkerOnly
    <2>2. /\ Len(chunk') = n /\ chunk' # <<>>
          /\ \A i \in 1..n : chunk'[i] = produced + i
      <3>1. /\ Len(chunk') = n /\ chunk' \in Seq(Nat)
            /\ \A i \in 1..n : chunk'[i] = produced + i
        BY <2>1, BytesType
      <3> QED
        BY <2>1, <3>1
    <2>3. chunk = <<>> /\ Len(chunk) = 0
      BY <2>1 DEF OutCount
    <2>4. SentUpTo' = SentUpTo
      BY <2>1 DEF SentUpTo
    <2>5. OutBytes'
      BY <2>1, <2>2, <2>4 DEF OutBytes
    <2>6. OutCount'
      <3>1. SentUpTo \in Nat
        BY DEF SentUpTo
      <3> DEFINE held == IF write_buffer = <<>> THEN 0
                         ELSE Len(write_buffer) - SentUpTo
      <3>2. held' = held /\ held \in Int
        BY <2>1, <2>4, <3>1
      <3>3. ~write_error => produced = Len(delivered) + 0 + held
        BY <2>3 DEF OutCount
      <3> HIDE DEF held
      <3>4. ~write_error' => produced' = Len(delivered') + Len(chunk') + held'
        BY <2>1, <2>2, <3>2, <3>3
      <3> QED
        BY <2>1, <2>2, <3>4 DEF OutCount, held
    <2> QED
      BY <2>5, <2>6
  <1> QED
    BY <1>1, <1>2, <1>3, <1>4, <1>5, <1>6, OutFrameStep DEF OutAction

----------------------------------------------------------------------------
(* The theorems *)

\* An accepted connection has no response yet.
LEMMA DeliveryInit == Init => DeliveryInv
  <1> SUFFICES ASSUME Init PROVE DeliveryInv
    OBVIOUS
  <1> /\ req.clen \in Nat /\ req.hlen \in Nat /\ req.total \in Nat
    BY RequestType DEF Init
  <1>1. QuietInv /\ RecvInv /\ EndInv /\ NoFalseAbort
    BY DEF Init, QuietInv, RecvInv, EndInv, NoFalseAbort, Closing, Serving,
       Scanning
  <1>2. OutBytes /\ OutCount
    BY DEF Init, OutBytes, OutCount, SentUpTo
  <1>3. WakeInv /\ SleepInv
    BY DEF Init, WakeInv, SleepInv
  <1> QED
    BY <1>1, <1>2, <1>3 DEF DeliveryInv

\* The inductive invariant holds throughout.
THEOREM DeliveryInvariant == SafeSpec => []DeliveryInv
  <1>1. Base /\ BodyInv /\ DeliveryInv /\ [Next]_vars => DeliveryInv'
    BY QuietInvStep, RecvInvStep, EndInvStep, NoFalseAbortStep, OutStep,
       WakeInvStep, SleepInvStep DEF DeliveryInv
  <1> QED
    BY <1>1, DeliveryInit, BodyInvariant, PTL DEF SafeSpec

\* handle_request gives up on a body only for a reason (see NoFalseAbort): the
\* branch of main.cpp:784 is dead code, whatever the sizes and the
\* interleaving, a truncated body is the client's doing, and a read error
\* means that the connection broke or the server is shutting down.
THEOREM AbortHasCause == SafeSpec => []NoFalseAbort
  <1>1. DeliveryInv => NoFalseAbort
    BY DEF DeliveryInv
  <1> QED
    BY <1>1, DeliveryInvariant, PTL

\* The pointwise facts of OutBytes as a sequence, and what is left of the
\* response when the connection is closed.
LEMMA DeliveryImplies ==
  ASSUME Base, DeliveryInv
  PROVE  ResponseDelivered
  <1> TypeOK /\ OutBytes /\ EndInv
    BY DEF Base, DeliveryInv
  <1> delivered \in Seq(Nat) /\ Len(delivered) \in Nat
    BY DEF TypeOK
  <1>1. /\ Bytes(0, Len(delivered)) \in Seq(Nat)
        /\ Len(Bytes(0, Len(delivered))) = Len(delivered)
        /\ \A i \in 1..Len(delivered) : Bytes(0, Len(delivered))[i] = 0 + i
    BY BytesType
  <1>2. \A i \in 1..Len(delivered) : delivered[i] = Bytes(0, Len(delivered))[i]
    BY <1>1 DEF OutBytes
  <1>3. delivered = Bytes(0, Len(delivered))
    BY <1>1, <1>2, SeqEqual
  <1> QED
    BY <1>3 DEF ResponseDelivered, EndInv

\* The client gets the response bytes in order, and all of them before a
\* connection whose worker called finish() is closed (see ResponseDelivered).
THEOREM ResponseIsDelivered == SafeSpec => []ResponseDelivered
  BY BodyInvariant, DeliveryInvariant, DeliveryImplies, PTL

\* No wakeup between the epoll loop and the worker is lost (see NoLostWakeup):
\* neither on event_fd, nor on EPOLLOUT, nor on the two condition variables.
THEOREM ConnectionWakesUp == SafeSpec => []NoLostWakeup
  <1>1. DeliveryInv => NoLostWakeup
    <2> SUFFICES ASSUME WakeInv, SleepInv PROVE NoLostWakeup
      BY DEF DeliveryInv
    <2> QED
      BY DEF NoLostWakeup, WakeInv, SleepInv, Noticed, Handled, Closing,
         Scanning
  <1> QED
    BY <1>1, DeliveryInvariant, PTL

\* recv() never takes bytes off the socket that main.cpp:516 would throw away
\* (see RecvOnlyForBody).
THEOREM ReceivesOnlyBody == SafeSpec => []RecvOnlyForBody
  <1>1. DeliveryInv => RecvOnlyForBody
    BY DEF DeliveryInv, RecvInv, RecvOnlyForBody
  <1> QED
    BY <1>1, DeliveryInvariant, PTL
=============================================================================
