--------------------------- MODULE ConnectionProofs ---------------------------
(***************************************************************************)
(* Proofs about one connection, for every size limit and every request.    *)
(***************************************************************************)
EXTENDS Connection, SequenceTheorems, TLAPS

----------------------------------------------------------------------------
(* Operators *)

\* Bytes(from, n) is the sequence from + 1, ..., from + n.
LEMMA BytesType ==
  ASSUME NEW from \in Nat, NEW n \in Nat
  PROVE  /\ Bytes(from, n) \in Seq(Nat)
         /\ Len(Bytes(from, n)) = n
         /\ \A i \in 1..n : Bytes(from, n)[i] = from + i
  BY DEF Bytes

\* The sizes of a request are numbers.
LEMMA RequestType ==
  ASSUME NEW r \in Requests
  PROVE  /\ r.hlen \in Nat /\ r.hlen > 0
         /\ r.clen \in Nat
         /\ r.total \in Nat
         /\ r.fin \in BOOLEAN
  BY SizeAssumption DEF Requests

\* std::min of two sizes is a size no larger than either.
LEMMA MinType ==
  ASSUME NEW a \in Nat, NEW b \in Nat
  PROVE  Min(a, b) \in Nat /\ Min(a, b) <= a /\ Min(a, b) <= b
  BY DEF Min

\* A comparison is a Boolean (Zenon, which handles the flags, has no
\* arithmetic).
LEMMA ComparisonType ==
  ASSUME NEW a, NEW b
  PROVE  (a >= b) \in BOOLEAN
  OBVIOUS

\* An empty buffer is a sequence of bytes.
LEMMA EmptyBytes == <<>> \in Seq(Nat)
  OBVIOUS

\* A piece of a sequence of bytes.
LEMMA SubSeqType ==
  ASSUME NEW s \in Seq(Nat), NEW m \in Nat, NEW n \in Nat, m > 0, n <= Len(s)
  PROVE  /\ SubSeq(s, m, n) \in Seq(Nat)
         /\ Len(SubSeq(s, m, n)) = IF m <= n THEN n - m + 1 ELSE 0
  BY SubSeqProperties

\* Two sequences of bytes put together.
LEMMA ConcatType ==
  ASSUME NEW s \in Seq(Nat), NEW t \in Seq(Nat)
  PROVE  /\ s \o t \in Seq(Nat)
         /\ Len(s \o t) = Len(s) + Len(t)
         /\ \A i \in 1..Len(s) : (s \o t)[i] = s[i]
         /\ \A i \in 1..Len(t) : (s \o t)[Len(s) + i] = t[i]
  <1>1. Len(s) \in Nat /\ Len(t) \in Nat
    OBVIOUS
  <1>2. ASSUME NEW i \in 1..Len(t) PROVE (s \o t)[Len(s) + i] = t[i]
    <2>1. Len(s) + i \in 1..(Len(s) + Len(t)) /\ ~(Len(s) + i <= Len(s))
       BY <1>1
    <2>2. (Len(s) + i) - Len(s) = i
       BY <1>1
    <2> QED BY <1>1, <2>1, <2>2, ConcatProperties
  <1> QED
    BY <1>1, <1>2, ConcatProperties

\* What is left of a sequence of bytes after its first n.
LEMMA SuffixType ==
  ASSUME NEW s \in Seq(Nat), NEW n \in Nat, n <= Len(s)
  PROVE  /\ SubSeq(s, n + 1, Len(s)) \in Seq(Nat)
         /\ Len(SubSeq(s, n + 1, Len(s))) = Len(s) - n
         /\ \A i \in 1..(Len(s) - n) : SubSeq(s, n + 1, Len(s))[i] = s[n + i]
  <1>1. Len(s) \in Nat
    OBVIOUS
  <1>2. CASE n = Len(s)
     BY <1>1, <1>2, SubSeqEmpty
  <1>3. CASE n < Len(s)
     <2>1. /\ SubSeq(s, n + 1, Len(s)) \in Seq(Nat)
         /\ Len(SubSeq(s, n + 1, Len(s))) = Len(s) - (n+1) + 1
         BY <1>1, <1>3, SubSeqProperties
     <2>2. ASSUME NEW i \in 1..(Len(s) - n)
           PROVE  SubSeq(s, n + 1, Len(s))[i] = s[n + i]
         <3>1. i \in 1..(Len(s) - (n+1) + 1) /\ (n+1) + i - 1 = n + i
           BY <1>1, <1>3
         <3>2. \A m \in 1..Len(s) :
                 (\A j \in m..Len(s) : s[j] \in Nat) =>
                   \A k \in 1..(Len(s) - m + 1) :
                     SubSeq(s, m, Len(s))[k] = s[m + k - 1]
            BY <1>1, SubSeqProperties
         <3> QED
           BY <1>1, <1>3, <3>1, <3>2
     <2> QED
       BY <1>1, <2>1, <2>2
  <1> QED
    BY <1>1, <1>2, <1>3

----------------------------------------------------------------------------
(* Types, and the view of write_buffer_ that send() reads *)

\* While send() works on its view, the view is a non-empty piece of
\* write_buffer_ that starts at the cursor.  Without this the bytes send()
\* hands to the kernel would not even be bytes of the buffer.
ViewInv ==
  /\ loop \in {"send", "advance"} =>
       /\ Len(view) > 0
       /\ write_cursor + Len(view) <= Len(write_buffer)
  /\ ViewStable

\* The worker never holds more of the body than the Content-Length, and it
\* calls readBodyChunk() only for bytes that are missing, so that the size it
\* asks for is positive.
ReadInv ==
  /\ Len(consumed) <= req.clen
  /\ worker \in {"reading", "read_sleep"} => Len(consumed) < req.clen

Base == TypeOK /\ ViewInv /\ ReadInv

\* An accepted connection satisfies the first part of the invariant.
LEMMA BaseInit == Init => Base
  <1> SUFFICES ASSUME Init PROVE Base
    OBVIOUS
  <1>1. req.clen \in Nat
    BY RequestType DEF Init
  <1>2. FlagsOK
    BY Zenon DEF Init, FlagsOK
  <1>3. TypeOK
    BY <1>1, <1>2 DEF Init, TypeOK, LoopStates, WorkerStates, Outcomes
  <1> QED
    BY <1>1, <1>3 DEF Init, Base, ViewInv, ViewStable, ReadInv

\* Every step leaves every flag a Boolean.
LEMMA FlagsStep == TypeOK /\ [Next]_vars => FlagsOK'
  <1> SUFFICES ASSUME TypeOK, [Next]_vars PROVE FlagsOK'
    OBVIOUS
  <1> FlagsOK
    BY DEF TypeOK
  <1> USE DEF FlagsOK, netVars, ctxVars, loopVars, readVars, writeVars,
         taskVars
  <1>1. CASE ClientSend
    BY <1>1 DEF ClientSend, NetStep
  <1>2. CASE ClientFin
    <2>1. UNCHANGED <<reset, room, shutdown, body_complete, batch_sig,
                       signalled, read_eof, read_error, write_pending,
                       finished, write_error, local>>
      BY <1>2 DEF ClientFin, NetStep
    <2>3. eos' \in BOOLEAN
      BY <1>2, Zenon DEF ClientFin, NetStep
    <2> QED
      BY <2>1, <2>3
  <1>3. CASE ClientReset
    <2>1. UNCHANGED <<eos, room, shutdown, body_complete, batch_sig,
                       signalled, read_eof, read_error, write_pending,
                       finished, write_error, local>>
      BY <1>3 DEF ClientReset, NetStep
    <2>3. reset' \in BOOLEAN
      BY <1>3, Zenon DEF ClientReset, NetStep
    <2> QED
      BY <2>1, <2>3
  <1>4. CASE ClientRead
    <2>1. UNCHANGED <<eos, reset, shutdown, body_complete, batch_sig,
                       signalled, read_eof, read_error, write_pending,
                       finished, write_error, local>>
      BY <1>4 DEF ClientRead, NetStep
    <2>3. room' \in BOOLEAN
      BY <1>4, Zenon DEF ClientRead, NetStep
    <2> QED
      BY <2>1, <2>3
  <1>5. CASE Signal
    <2>1. UNCHANGED <<eos, reset, room, body_complete, batch_sig, signalled,
                       read_eof, read_error, write_pending, finished,
                       write_error, local>>
      BY <1>5 DEF Signal, NetStep
    <2>3. shutdown' \in BOOLEAN
      BY <1>5, Zenon DEF Signal, NetStep
    <2> QED
      BY <2>1, <2>3
  <1>6. CASE EpollWait
    <2>1. UNCHANGED <<eos, reset, room, shutdown, body_complete, signalled,
                       read_eof, read_error, write_pending, finished,
                       write_error, local>>
      BY <1>6 DEF EpollWait
    <2>3. batch_sig' \in BOOLEAN
      BY <1>6, Zenon DEF EpollWait
    <2> QED
      BY <2>1, <2>3
  <1>7. CASE ReadEventfd
    <2>1. UNCHANGED <<eos, reset, room, shutdown, body_complete, read_eof,
                       read_error, write_pending, finished, write_error,
                       local>>
      BY <1>7 DEF ReadEventfd
    <2>3. batch_sig' \in BOOLEAN /\ signalled' \in BOOLEAN
      BY <1>7, Zenon DEF ReadEventfd
    <2> QED
      BY <2>1, <2>3
  <1>8. CASE ScanError
    BY <1>8 DEF ScanError, Goto
  <1>9. CASE ScanFinished
    BY <1>9 DEF ScanFinished, Goto
  <1>10. CASE ScanDrained
    BY <1>10 DEF ScanDrained, Goto
  <1>11. CASE ScanPending
    BY <1>11 DEF ScanPending
  <1>12. CASE DispatchClient
    BY <1>12 DEF DispatchClient
  <1>13. CASE RecvError
    BY <1>13 DEF RecvError, AfterIn
  <1>14. CASE RecvEof
    <2>1. UNCHANGED <<eos, reset, room, shutdown, batch_sig, signalled,
                       read_error, write_pending, finished, write_error,
                       local>>
      BY <1>14 DEF RecvEof, AfterIn, feedBody
    <2>3. body_complete' \in BOOLEAN /\ read_eof' \in BOOLEAN
      BY <1>14, Zenon DEF RecvEof, AfterIn, feedBody
    <2> QED
      BY <2>1, <2>3
  <1>15. ASSUME NEW n \in 1..RecvSize, RecvHeader(n) PROVE FlagsOK'
    <2>1. UNCHANGED <<eos, reset, room, shutdown, batch_sig, signalled,
                       read_eof, read_error, write_pending, finished,
                       write_error, local>>
      BY <1>15 DEF RecvHeader, AfterIn
    <2>2. (body_bytes_fed' >= req.clen) \in BOOLEAN
      BY ComparisonType
    <2>3. body_complete' \in BOOLEAN
      BY <1>15, <2>2, Zenon DEF RecvHeader, AfterIn
    <2> QED
      BY <2>1, <2>3
  <1>16. ASSUME NEW n \in 1..RecvSize, RecvBody(n) PROVE FlagsOK'
    <2>1. UNCHANGED <<eos, reset, room, shutdown, batch_sig, signalled,
                       read_error, write_pending, finished, write_error,
                       local>>
      BY <1>16 DEF RecvBody, AfterIn, feedBody
    <2>2. (Min(n, req.clen - body_bytes_fed) >= req.clen - body_bytes_fed)
             \in BOOLEAN
      BY ComparisonType
    <2>3. body_complete' \in BOOLEAN /\ read_eof' \in BOOLEAN
      BY <1>16, <2>2, Zenon DEF RecvBody, AfterIn, feedBody
    <2> QED
      BY <2>1, <2>3
  <1>17. CASE pendingWriteData
    BY <1>17 DEF pendingWriteData
  <1>18. ASSUME NEW n \in 1..MaxResponse, Send(n) PROVE FlagsOK'
    <2>1. UNCHANGED <<eos, reset, shutdown, body_complete, batch_sig,
                       signalled, read_eof, read_error, write_pending,
                       finished, write_error, local>>
      BY <1>18 DEF Send
    <2>3. room' \in BOOLEAN
      BY <1>18, Zenon DEF Send
    <2> QED
      BY <2>1, <2>3
  <1>19. CASE SendAgain
    <2>1. UNCHANGED <<eos, reset, shutdown, body_complete, batch_sig,
                       signalled, read_eof, read_error, write_pending,
                       finished, write_error, local>>
      BY <1>19 DEF SendAgain
    <2>3. room' \in BOOLEAN
      BY <1>19, Zenon DEF SendAgain
    <2> QED
      BY <2>1, <2>3
  <1>20. CASE SendError
    <2>1. UNCHANGED <<eos, reset, room, shutdown, body_complete, batch_sig,
                       signalled, read_eof, read_error, write_pending,
                       finished, local>>
      BY <1>20 DEF SendError, writeError
    <2>3. write_error' \in BOOLEAN
      BY <1>20, Zenon DEF SendError, writeError
    <2> QED
      BY <2>1, <2>3
  <1>21. CASE advanceWrite
    <2>1. UNCHANGED <<eos, reset, room, shutdown, body_complete, batch_sig,
                       signalled, read_eof, read_error, finished, write_error,
                       local>>
      BY <1>21 DEF advanceWrite
    <2>3. write_pending' \in BOOLEAN
      BY <1>21, Zenon DEF advanceWrite
    <2> QED
      BY <2>1, <2>3
  <1>22. CASE OutPending
    BY <1>22 DEF OutPending, Goto
  <1>23. CASE OutFinished
    BY <1>23 DEF OutFinished
  <1>24. CASE CloseFeed
    <2>1. UNCHANGED <<eos, reset, room, shutdown, body_complete, batch_sig,
                       signalled, read_eof, write_pending, finished,
                       write_error, local>>
      BY <1>24 DEF CloseFeed, feedError
    <2>3. read_error' \in BOOLEAN
      BY <1>24, Zenon DEF CloseFeed, feedError
    <2> QED
      BY <2>1, <2>3
  <1>25. CASE CloseWrite
    <2>1. UNCHANGED <<eos, reset, room, shutdown, body_complete, batch_sig,
                       signalled, read_eof, read_error, write_pending,
                       finished, local>>
      BY <1>25 DEF CloseWrite, writeError
    <2>3. write_error' \in BOOLEAN
      BY <1>25, Zenon DEF CloseWrite, writeError
    <2> QED
      BY <2>1, <2>3
  <1>26. CASE Exit
    BY <1>26 DEF Exit, Goto
  <1>27. CASE Start
    BY <1>27 DEF Start, WorkerOnly
  <1>28. ASSUME NEW n \in 1..MaxResponse, BeginWrite(n) PROVE FlagsOK'
    BY <1>28 DEF BeginWrite, WorkerOnly
  <1>29. CASE writeData
    <2>1. UNCHANGED <<eos, reset, room, shutdown, body_complete, batch_sig,
                       read_eof, read_error, finished, write_error, local>>
      BY <1>29 DEF writeData, signal_eventfd
    <2>3. write_pending' \in BOOLEAN /\ signalled' \in BOOLEAN
      BY <1>29, Zenon DEF writeData, signal_eventfd
    <2> QED
      BY <2>1, <2>3
  <1>30. CASE SpuriousWakeup
    BY <1>30 DEF SpuriousWakeup, WorkerOnly
  <1>31. CASE EndHeaders
    <2>1. UNCHANGED <<eos, reset, room, shutdown, body_complete, batch_sig,
                       signalled, read_eof, read_error, write_pending,
                       finished, write_error>>
      BY <1>31 DEF EndHeaders, WorkerOnly
    <2>3. local' \in BOOLEAN
      BY <1>31, Zenon DEF EndHeaders, WorkerOnly
    <2> QED
      BY <2>1, <2>3
  <1>32. CASE BeginRead
    BY <1>32 DEF BeginRead, WorkerOnly
  <1>33. CASE readBodyChunk
    <2>1. UNCHANGED <<eos, reset, room, shutdown, body_complete, batch_sig,
                       read_eof, read_error, write_pending, local>>
      BY <1>33 DEF readBodyChunk, setError, signal_eventfd
    <2>3. /\ write_error' \in BOOLEAN /\ finished' \in BOOLEAN
          /\ signalled' \in BOOLEAN
      BY <1>33, Zenon DEF readBodyChunk, setError, signal_eventfd
    <2> QED
      BY <2>1, <2>3
  <1>34. CASE EndBody
    <2>1. UNCHANGED <<eos, reset, room, shutdown, body_complete, batch_sig,
                       signalled, read_eof, read_error, write_pending,
                       finished, write_error>>
      BY <1>34 DEF EndBody, WorkerOnly
    <2>3. local' \in BOOLEAN
      BY <1>34, Zenon DEF EndBody, WorkerOnly
    <2> QED
      BY <2>1, <2>3
  <1>35. CASE Finish
    <2>1. UNCHANGED <<eos, reset, room, shutdown, body_complete, batch_sig,
                       read_eof, read_error, write_pending, write_error,
                       local>>
      BY <1>35 DEF Finish, signal_eventfd
    <2>3. finished' \in BOOLEAN /\ signalled' \in BOOLEAN
      BY <1>35, Zenon DEF Finish, signal_eventfd
    <2> QED
      BY <2>1, <2>3
  <1>36. CASE Abort
    <2>1. UNCHANGED <<eos, reset, room, shutdown, body_complete, batch_sig,
                       read_eof, read_error, write_pending, local>>
      BY <1>36 DEF Abort, setError, signal_eventfd
    <2>3. /\ write_error' \in BOOLEAN /\ finished' \in BOOLEAN
          /\ signalled' \in BOOLEAN
      BY <1>36, Zenon DEF Abort, setError, signal_eventfd
    <2> QED
      BY <2>1, <2>3
  <1>37. CASE UNCHANGED vars
    BY <1>37 DEF vars
  <1> QED
    BY <1>1, <1>2, <1>3, <1>4, <1>5, <1>6, <1>7, <1>8, <1>9, <1>10, <1>11,
       <1>12, <1>13, <1>14, <1>15, <1>16, <1>17, <1>18, <1>19, <1>20, <1>21,
       <1>22, <1>23, <1>24, <1>25, <1>26, <1>27, <1>28, <1>29, <1>30, <1>31,
       <1>32, <1>33, <1>34, <1>35, <1>36, <1>37, Zenon DEF Next, Client, Loop,
       Worker

\* The argument of readBodyChunk (main.cpp:770) does not wrap around: it is
\* between 1 and the number of bytes that are missing.
LEMMA WantType ==
  ASSUME TypeOK, ReadInv, worker = "reading"
  PROVE  want \in Nat /\ want > 0 /\ want <= req.clen - Len(consumed)
  <1>1. req.clen \in Nat
    BY RequestType DEF TypeOK
  <1>2. Len(consumed) \in Nat /\ Len(consumed) < req.clen
    BY DEF TypeOK, ReadInv
  <1> QED
    BY <1>1, <1>2, SizeAssumption DEF want, Min

\* Every step keeps the types, and the view that send() reads, intact.
LEMMA TypeStep == Base /\ [Next]_vars => TypeOK' /\ ViewInv'
  <1> SUFFICES ASSUME TypeOK, ViewInv, ReadInv, [Next]_vars
               PROVE  TypeOK' /\ ViewInv'
    BY DEF Base
  <1> FlagsOK /\ FlagsOK'
    BY FlagsStep DEF TypeOK
  <1> req.hlen \in Nat /\ req.clen \in Nat /\ req.total \in Nat
    BY RequestType DEF TypeOK
  <1> USE DEF netVars, ctxVars, loopVars, readVars, writeVars, taskVars
  <1>1. CASE ClientSend
    BY <1>1 DEF ClientSend, NetStep, TypeOK, ViewInv, ViewStable, LoopStates,
       WorkerStates, Outcomes
  <1>2. CASE ClientFin
    BY <1>2 DEF ClientFin, NetStep, TypeOK, ViewInv, ViewStable, LoopStates,
       WorkerStates, Outcomes
  <1>3. CASE ClientReset
    BY <1>3 DEF ClientReset, NetStep, TypeOK, ViewInv, ViewStable, LoopStates,
       WorkerStates, Outcomes
  <1>4. CASE ClientRead
    BY <1>4 DEF ClientRead, NetStep, TypeOK, ViewInv, ViewStable, LoopStates,
       WorkerStates, Outcomes
  <1>5. CASE Signal
    BY <1>5 DEF Signal, NetStep, TypeOK, ViewInv, ViewStable, LoopStates,
       WorkerStates, Outcomes
  <1>6. CASE EpollWait
    BY <1>6 DEF EpollWait, ReadyEvents, TypeOK, ViewInv, ViewStable,
       LoopStates, WorkerStates, Outcomes
  <1>7. CASE ReadEventfd
    BY <1>7 DEF ReadEventfd, TypeOK, ViewInv, ViewStable, LoopStates,
       WorkerStates, Outcomes
  <1>8. CASE ScanError
    BY <1>8 DEF ScanError, Goto, TypeOK, ViewInv, ViewStable, LoopStates,
       WorkerStates, Outcomes
  <1>9. CASE ScanFinished
    BY <1>9 DEF ScanFinished, Goto, TypeOK, ViewInv, ViewStable, LoopStates,
       WorkerStates, Outcomes
  <1>10. CASE ScanDrained
    BY <1>10 DEF ScanDrained, Goto, TypeOK, ViewInv, ViewStable, LoopStates,
       WorkerStates, Outcomes
  <1>11. CASE ScanPending
    BY <1>11 DEF ScanPending, Wanted, TypeOK, ViewInv, ViewStable, LoopStates,
       WorkerStates, Outcomes
  <1>12. CASE DispatchClient
    BY ZenonT(60), <1>12 DEF DispatchClient, TypeOK, ViewInv, ViewStable, LoopStates,
       WorkerStates, Outcomes
  <1>13. CASE RecvError
    BY <1>13 DEF RecvError, AfterIn, TypeOK, ViewInv, ViewStable, LoopStates,
       WorkerStates, Outcomes
  <1>14. CASE RecvEof
    <2>1. Bytes(body_bytes_fed, 0) \in Seq(Nat)
      BY BytesType DEF TypeOK
    <2>2. /\ read_chunk' \in Seq(Nat)
          /\ body_bytes_fed' = body_bytes_fed
          /\ UNCHANGED body_prefix
      <3>1. CASE UNCHANGED readVars
        BY <3>1 DEF TypeOK
      <3>2. CASE feedBody(0, TRUE)
        BY <3>2, <2>1 DEF feedBody, TypeOK
      <3> QED
        BY <1>14, <3>1, <3>2 DEF RecvEof
    <2>3. /\ epoll_events' \subseteq epoll_events
          /\ worker' \in {worker, "reading"}
          /\ loop' \in {"close_feed", "dispatch", "pending"}
          /\ batch_ev' = {}
      BY <1>14 DEF RecvEof, AfterIn, feedBody, WakeReader
    <2>4. UNCHANGED <<netVars, view, write_buffer, write_cursor, taskVars,
                      state, got>>
      BY <1>14 DEF RecvEof, AfterIn
    <2>9. ViewInv'
      BY <2>2, <2>3, <2>4 DEF ViewInv, ViewStable
    <2> QED
      BY <2>2, <2>3, <2>4, <2>9 DEF TypeOK, LoopStates, WorkerStates
  <1>15. ASSUME NEW n \in 1..RecvSize, RecvHeader(n) PROVE TypeOK' /\ ViewInv'
    <2>1. n \in Nat /\ got' = got + n /\ got' \in Nat
      BY <1>15, SizeAssumption DEF RecvHeader, TypeOK
    <2>2. /\ body_prefix' \in 0..req.clen
          /\ body_bytes_fed' \in 0..req.clen
      <3>1. CASE got' > MaxHeader \/ got' < req.hlen
        BY SMTT(30), <1>15, <2>1, <3>1, SizeAssumption DEF RecvHeader, TypeOK
      <3>2. CASE got' <= MaxHeader /\ got' >= req.hlen
        <4>1. /\ body_prefix' = Min(got' - req.hlen, req.clen)
              /\ body_bytes_fed' = body_prefix'
          BY <1>15, <2>1, <3>2, SizeAssumption DEF RecvHeader, setHeaderData
        <4>2. got' - req.hlen \in Nat
          BY <2>1, <3>2
        <4> QED
          BY <4>1, <4>2 DEF Min
      <3> QED
        BY <1>15, <3>1, <3>2 DEF RecvHeader
    <2>3. /\ state' \in {state, "Active"}
          /\ epoll_events' \subseteq epoll_events
          /\ worker' \in {worker, "queued"}
          /\ loop' \in {"close_feed", "dispatch", "pending"}
          /\ batch_ev' = {}
      BY <1>15 DEF RecvHeader, AfterIn
    <2>4. UNCHANGED <<netVars, view, write_buffer, write_cursor, taskVars,
                      read_chunk>>
      BY <1>15 DEF RecvHeader, AfterIn
    <2>5. ViewInv'
      BY <2>3, <2>4 DEF ViewInv, ViewStable
    <2> QED
      BY <2>1, <2>2, <2>3, <2>4, <2>5 DEF TypeOK, LoopStates, WorkerStates
  <1>16. ASSUME NEW n \in 1..RecvSize, RecvBody(n) PROVE TypeOK' /\ ViewInv'
    <2>1. n \in Nat /\ got' = got + n /\ got' \in Nat
      BY <1>16, SizeAssumption DEF RecvBody, TypeOK
    <2>2. read_chunk' \in Seq(Nat) /\ body_bytes_fed' \in 0..req.clen
      <3>1. CASE body_complete
        BY <1>16, <3>1 DEF RecvBody, TypeOK
      <3>2. CASE ~body_complete
        <4> DEFINE remaining == req.clen - body_bytes_fed
                   to_feed   == Min(n, remaining)
        <4>1. remaining \in Nat /\ body_bytes_fed \in Nat
          BY DEF TypeOK
        <4>2. to_feed \in Nat /\ to_feed <= remaining
          BY <2>1, <4>1, MinType
        <4>3. Bytes(body_bytes_fed, to_feed) \in Seq(Nat)
          BY <4>1, <4>2, BytesType
        <4>4. /\ body_bytes_fed' = body_bytes_fed + to_feed
              /\ read_chunk' = read_chunk \o Bytes(body_bytes_fed, to_feed)
          BY <1>16, <3>2 DEF RecvBody, feedBody
        <4>5. read_chunk \in Seq(Nat)
          BY DEF TypeOK
        <4> QED
          BY <4>1, <4>2, <4>3, <4>4, <4>5
      <3> QED
        BY <3>1, <3>2
    <2>3. /\ epoll_events' \subseteq epoll_events
          /\ worker' \in {worker, "reading"}
          /\ loop' \in {"close_feed", "dispatch", "pending"}
          /\ batch_ev' = {}
      BY <1>16 DEF RecvBody, AfterIn, feedBody, WakeReader
    <2>4. UNCHANGED <<netVars, view, write_buffer, write_cursor, taskVars,
                      state, body_prefix>>
      BY <1>16 DEF RecvBody, AfterIn, feedBody
    <2>9. ViewInv'
      BY <2>1, <2>2, <2>3, <2>4 DEF ViewInv, ViewStable
    <2> QED
      BY <2>1, <2>2, <2>3, <2>4, <2>9 DEF TypeOK, LoopStates, WorkerStates
  <1>17. CASE pendingWriteData
    <2>1. Len(write_buffer) \in Nat /\ write_cursor \in Nat
      BY DEF TypeOK
    <2>2. CASE write_cursor >= Len(write_buffer)
      BY <1>17, <2>1, <2>2 DEF pendingWriteData, TypeOK, ViewInv, ViewStable,
         LoopStates, WorkerStates, Outcomes
    <2>3. CASE write_cursor < Len(write_buffer)
      <3>1. view' = SubSeq(write_buffer, write_cursor + 1, Len(write_buffer))
        BY <1>17, <2>1, <2>3 DEF pendingWriteData
      <3>2. /\ view' \in Seq(Nat)
            /\ Len(view') = Len(write_buffer) - write_cursor
        BY SMTT(30), <2>1, <2>3, <3>1, SuffixType DEF TypeOK
      <3>3. loop' = "send"
        BY <1>17, <2>1, <2>3 DEF pendingWriteData
      <3>4. UNCHANGED <<netVars, ctxVars, batch_ev, readVars, writeVars, worker,
                        taskVars>>
        BY <1>17 DEF pendingWriteData
      <3>9. ViewInv'
        BY <2>1, <2>3, <3>1, <3>2, <3>3, <3>4 DEF ViewInv, ViewStable
      <3> QED
        BY <2>1, <2>3, <3>1, <3>2, <3>3, <3>4, <3>9 DEF TypeOK, LoopStates,
           WorkerStates
    <2> QED
      BY <2>1, <2>2, <2>3
  <1>18. ASSUME NEW n \in 1..MaxResponse, Send(n) PROVE TypeOK' /\ ViewInv'
    <2>1. /\ n \in Nat /\ n > 0 /\ n <= Len(view)
          /\ write_cursor + Len(view) <= Len(write_buffer)
          /\ view = SubSeq(write_buffer, write_cursor + 1, Len(write_buffer))
      BY <1>18, SizeAssumption DEF Send, ViewInv, ViewStable
    <2>2. /\ Len(write_buffer) \in Nat /\ write_cursor \in Nat
          /\ Len(view) \in Nat /\ delivered \in Seq(Nat)
          /\ write_buffer \in Seq(Nat)
      BY DEF TypeOK
    <2> DEFINE taken == SubSeq(write_buffer, write_cursor + 1, write_cursor + n)
    <2>3. taken \in Seq(Nat) /\ Len(taken) = n
      BY SMTT(30), <2>1, <2>2, SubSeqType
    <2>4. view' = taken
      BY <1>18, <2>1, <2>2, SubSeqOfSubSeq DEF Send
    <2>5. delivered' \in Seq(Nat)
      BY <1>18, <2>2, <2>3 DEF Send
    <2>6. loop' = "advance"
      BY <1>18 DEF Send
    <2>7. UNCHANGED <<req, arrived, ctxVars, batch_ev, readVars, writeVars,
                      worker, taskVars>>
      BY <1>18 DEF Send
    <2>8. ViewInv'
      BY <2>1, <2>2, <2>3, <2>4, <2>6, <2>7 DEF ViewInv, ViewStable
    <2>9. view' \in Seq(Nat)
      BY <2>3, <2>4
    <2> QED
      BY <2>5, <2>6, <2>7, <2>8, <2>9 DEF TypeOK, LoopStates
  <1>19. CASE SendAgain
    BY <1>19, EmptyBytes DEF SendAgain, TypeOK, ViewInv, ViewStable,
       LoopStates, WorkerStates, Outcomes
  <1>20. CASE SendError
    BY <1>20, EmptyBytes DEF SendError, writeError, WakeWriter, TypeOK,
       ViewInv, ViewStable, LoopStates, WorkerStates, Outcomes
  <1>21. CASE advanceWrite
    <2>1. Len(write_buffer) \in Nat /\ write_cursor \in Nat /\ Len(view) \in Nat
      BY DEF TypeOK
    <2>2. write_buffer' \in Seq(Nat) /\ write_cursor' \in Nat
      <3>1. \/ write_buffer' = <<>> /\ write_cursor' = 0
            \/ /\ write_buffer' = write_buffer
               /\ write_cursor' = write_cursor + Len(view)
        BY <1>21 DEF advanceWrite
      <3>2. write_buffer' \in Seq(Nat)
        BY <3>1, EmptyBytes, Zenon DEF TypeOK
      <3> QED
        BY <2>1, <3>1, <3>2
    <2>3. /\ view' = <<>> /\ loop' = "out_pending"
          /\ worker' \in {worker, "writing"}
      BY <1>21 DEF advanceWrite, WakeWriter
    <2>4. UNCHANGED <<netVars, ctxVars, batch_ev, readVars, taskVars>>
      BY <1>21 DEF advanceWrite
    <2>9. ViewInv'
      BY <2>2, <2>3, <2>4 DEF ViewInv, ViewStable
    <2> QED
      BY <2>2, <2>3, <2>4, <2>9 DEF TypeOK, LoopStates, WorkerStates
  <1>22. CASE OutPending
    BY <1>22 DEF OutPending, Goto, TypeOK, ViewInv, ViewStable, LoopStates,
       WorkerStates, Outcomes
  <1>23. CASE OutFinished
    BY ZenonT(60), <1>23 DEF OutFinished, TypeOK, ViewInv, ViewStable, LoopStates,
       WorkerStates, Outcomes
  <1>24. CASE CloseFeed
    BY <1>24 DEF CloseFeed, feedError, WakeReader, TypeOK, ViewInv,
       ViewStable, LoopStates, WorkerStates, Outcomes
  <1>25. CASE CloseWrite
    BY <1>25, EmptyBytes DEF CloseWrite, writeError, WakeWriter, TypeOK,
       ViewInv, ViewStable, LoopStates, WorkerStates, Outcomes
  <1>26. CASE Exit
    BY <1>26 DEF Exit, Goto, TypeOK, ViewInv, ViewStable, LoopStates,
       WorkerStates, Outcomes
  <1>27. CASE Start
    BY <1>27 DEF Start, WorkerOnly, TypeOK, ViewInv, ViewStable, LoopStates,
       WorkerStates, Outcomes
  <1>28. ASSUME NEW n \in 1..MaxResponse, BeginWrite(n)
         PROVE  TypeOK' /\ ViewInv'
    <2>1. Bytes(produced, n) \in Seq(Nat) /\ n \in Nat
      BY BytesType, SizeAssumption DEF TypeOK
    <2>2. ViewInv'
      BY <1>28 DEF BeginWrite, WorkerOnly, ViewInv, ViewStable
    <2>3. /\ chunk' \in Seq(Nat) /\ produced' \in Nat
          /\ worker' = "writing"
      BY <1>28, <2>1 DEF BeginWrite, TypeOK
    <2>4. UNCHANGED <<netVars, ctxVars, loopVars, readVars, writeVars, stage,
                      consumed, local, outcome>>
      BY <1>28 DEF BeginWrite, WorkerOnly
    <2> QED
      BY <2>2, <2>3, <2>4 DEF TypeOK, WorkerStates
  <1>29. CASE writeData
    <2>1. /\ chunk' \in Seq(Nat)
          /\ write_buffer' \in Seq(Nat)
          /\ write_cursor' \in Nat
          /\ worker' \in {"handling", "write_sleep"}
      <3>1. /\ chunk' = chunk \/ chunk' = <<>>
            /\ \/ write_buffer' = chunk /\ write_cursor' = 0
               \/ UNCHANGED <<write_buffer, write_cursor>>
            /\ worker' \in {"handling", "write_sleep"}
        BY <1>29 DEF writeData
      <3>2. chunk' \in Seq(Nat) /\ write_buffer' \in Seq(Nat)
        BY <3>1, EmptyBytes, Zenon DEF TypeOK
      <3> QED
        BY <3>1, <3>2 DEF TypeOK
    <2>2. UNCHANGED <<netVars, ctxVars, loopVars, readVars, stage, consumed,
                      produced, outcome>>
      BY <1>29 DEF writeData
    <2>3. loop \in {"send", "advance"} =>
            UNCHANGED <<write_buffer, write_cursor>>
      <3>1. loop \in {"send", "advance"} => write_buffer # <<>>
        BY DEF ViewInv, TypeOK
      <3> QED
        BY <1>29, <3>1 DEF writeData, WriteReady
    <2>4. ViewInv'
      BY <2>2, <2>3 DEF ViewInv, ViewStable
    <2> QED
      BY <2>1, <2>2, <2>4 DEF TypeOK, WorkerStates
  <1>30. CASE SpuriousWakeup
    BY <1>30 DEF SpuriousWakeup, WorkerOnly, TypeOK, ViewInv, ViewStable,
       LoopStates, WorkerStates, Outcomes
  <1>31. CASE EndHeaders
    <2>1. Bytes(0, body_prefix) \in Seq(Nat)
      BY BytesType DEF TypeOK
    <2>2. ViewInv'
      BY <1>31 DEF EndHeaders, WorkerOnly, ViewInv, ViewStable
    <2>3. consumed' \in Seq(Nat)
      BY <1>31, <2>1, Zenon DEF EndHeaders, TypeOK
    <2>4. /\ stage' \in {"body", "response"}
          /\ UNCHANGED <<netVars, ctxVars, loopVars, readVars, writeVars, worker,
                         chunk, produced, outcome>>
      BY <1>31 DEF EndHeaders, WorkerOnly
    <2> QED
      BY <2>2, <2>3, <2>4 DEF TypeOK
  <1>32. CASE BeginRead
    BY <1>32 DEF BeginRead, WorkerOnly, TypeOK, ViewInv, ViewStable,
       LoopStates, WorkerStates, Outcomes
  <1>33. CASE readBodyChunk
    <2>1. /\ read_chunk \in Seq(Nat) /\ consumed \in Seq(Nat)
          /\ Len(read_chunk) \in Nat
      BY DEF TypeOK
    <2>2. /\ consumed' \in Seq(Nat)
          /\ read_chunk' \in Seq(Nat)
      <3>1. CASE worker' = "read_sleep"
        BY <1>33, <2>1, <3>1 DEF readBodyChunk
      <3>2. CASE worker' # "read_sleep"
        <4>1. want \in Nat /\ want > 0
          BY <1>33, WantType DEF readBodyChunk
        <4>2. ReadRest \in Seq(Nat)
          BY <2>1, <4>1, SubSeqType DEF ReadRest
        <4>3. SubSeq(read_chunk, 1, Min(want, Len(read_chunk))) \in Seq(Nat)
          <5>1. /\ Min(want, Len(read_chunk)) \in Nat
                /\ Min(want, Len(read_chunk)) <= Len(read_chunk)
            BY <2>1, <4>1, MinType
          <5> QED
            BY <2>1, <5>1, SubSeqType
        <4>4. consumed \o SubSeq(read_chunk, 1, Min(want, Len(read_chunk)))
                \in Seq(Nat)
          BY <2>1, <4>3
        <4>5. /\ read_chunk' = ReadRest \/ UNCHANGED read_chunk
              /\ \/ consumed' = consumed \o
                      SubSeq(read_chunk, 1, Min(want, Len(read_chunk)))
                 \/ UNCHANGED consumed
          BY <1>33, <3>2 DEF readBodyChunk
        <4> QED
          BY <2>1, <4>2, <4>4, <4>5, Zenon
      <3> QED
        BY <3>1, <3>2
    <2>3. /\ worker' \in {"read_sleep", "done", "handling"}
          /\ \/ outcome' = outcome
             \/ outcome' \in {"error", "truncated", "no_data"}
      BY <1>33 DEF readBodyChunk
    <2>4. UNCHANGED <<netVars, ctxVars, loopVars, body_prefix, body_bytes_fed,
                      write_buffer, write_cursor, stage, chunk, produced>>
      BY <1>33 DEF readBodyChunk, setError
    <2>5. ViewInv'
      BY <2>4 DEF ViewInv, ViewStable
    <2> QED
      BY <2>2, <2>3, <2>4, <2>5 DEF TypeOK, WorkerStates, Outcomes
  <1>34. CASE EndBody
    BY <1>34 DEF EndBody, WorkerOnly, TypeOK, ViewInv, ViewStable, LoopStates,
       WorkerStates, Outcomes
  <1>35. CASE Finish
    BY <1>35 DEF Finish, signal_eventfd, TypeOK, ViewInv, ViewStable,
       LoopStates, WorkerStates, Outcomes
  <1>36. CASE Abort
    BY <1>36 DEF Abort, setError, signal_eventfd, TypeOK, ViewInv, ViewStable,
       LoopStates, WorkerStates, Outcomes
  <1>37. CASE UNCHANGED vars
    BY SMTT(30), <1>37 DEF vars, TypeOK, ViewInv, ViewStable, LoopStates, WorkerStates,
       Outcomes
  <1> QED
    BY <1>1, <1>2, <1>3, <1>4, <1>5, <1>6, <1>7, <1>8, <1>9, <1>10, <1>11,
       <1>12, <1>13, <1>14, <1>15, <1>16, <1>17, <1>18, <1>19, <1>20, <1>21,
       <1>22, <1>23, <1>24, <1>25, <1>26, <1>27, <1>28, <1>29, <1>30, <1>31,
       <1>32, <1>33, <1>34, <1>35, <1>36, <1>37, Zenon DEF Next, Client, Loop,
       Worker

----------------------------------------------------------------------------
(* The request body *)

\* The body bytes: which are in which place.  Byte i of the body is the
\* number i; consumed holds the first bytes, read_chunk_ the last ones fed.
BodyBytes ==
  /\ \A i \in 1..Len(read_chunk) :
       read_chunk[i] = body_bytes_fed - Len(read_chunk) + i
  /\ \A i \in 1..Len(consumed) : consumed[i] = i

\* How many there are of them in each stage of the request.
BodyStages ==
  /\ state = "ReadingHeaders" => worker = "none"
  /\ state = "Active" => worker # "none"
  /\ worker = "none" =>
       stage = "headers" /\ read_chunk = <<>> /\ body_bytes_fed = 0
  /\ stage = "headers" =>
       consumed = <<>> /\ body_prefix + Len(read_chunk) = body_bytes_fed
  /\ stage = "body" /\ worker # "done" =>
       Len(consumed) + Len(read_chunk) = body_bytes_fed
  /\ worker \in {"reading", "read_sleep"} => stage = "body"

\* A response without a local response comes after the whole body.
BodyWhole == stage = "response" /\ ~local => Len(consumed) = req.clen

BodyInv == BodyBytes /\ BodyStages /\ BodyWhole

\* The part of the state BodyInv and ReadInv speak of is left alone.
BodyFrame ==
  /\ UNCHANGED <<req, body_prefix, read_chunk, body_bytes_fed, stage, consumed,
                 local>>
  /\ state' = state \/ state' = "closed"
  /\ worker = "none" <=> worker' = "none"
  /\ worker = "done" => worker' = "done"
  /\ worker' \in {"reading", "read_sleep"} =>
       worker \in {"reading", "read_sleep"}

\* The steps that move body bytes or start or end a stage.
BodyAction ==
  \/ RecvEof \/ EndHeaders \/ BeginRead \/ readBodyChunk \/ EndBody
  \/ \E n \in 1..RecvSize : RecvHeader(n) \/ RecvBody(n)

\* Only the actions of BodyAction touch the request body.
LEMMA BodyFrameStep == [Next]_vars => BodyAction \/ BodyFrame
  <1> SUFFICES ASSUME [Next]_vars PROVE BodyAction \/ BodyFrame
    OBVIOUS
  <1> USE DEF netVars, ctxVars, loopVars, readVars, writeVars, taskVars
  <1>1. CASE ClientSend
    BY <1>1 DEF ClientSend, NetStep, BodyFrame
  <1>2. CASE ClientFin
    BY <1>2 DEF ClientFin, NetStep, BodyFrame
  <1>3. CASE ClientReset
    BY <1>3 DEF ClientReset, NetStep, BodyFrame
  <1>4. CASE ClientRead
    BY <1>4 DEF ClientRead, NetStep, BodyFrame
  <1>5. CASE Signal
    BY <1>5 DEF Signal, NetStep, BodyFrame
  <1>6. CASE EpollWait
    BY <1>6 DEF EpollWait, BodyFrame
  <1>7. CASE ReadEventfd
    BY <1>7 DEF ReadEventfd, BodyFrame
  <1>8. CASE ScanError
    BY <1>8 DEF ScanError, Goto, BodyFrame
  <1>9. CASE ScanFinished
    BY <1>9 DEF ScanFinished, Goto, BodyFrame
  <1>10. CASE ScanDrained
    BY <1>10 DEF ScanDrained, Goto, BodyFrame
  <1>11. CASE ScanPending
    BY <1>11 DEF ScanPending, BodyFrame
  <1>12. CASE DispatchClient
    BY <1>12 DEF DispatchClient, BodyFrame
  <1>13. CASE RecvError
    BY <1>13 DEF RecvError, AfterIn, BodyFrame
  <1>14. CASE pendingWriteData
    BY <1>14 DEF pendingWriteData, BodyFrame
  <1>15. ASSUME NEW n \in 1..MaxResponse, Send(n) PROVE BodyFrame
    BY <1>15 DEF Send, BodyFrame
  <1>16. CASE SendAgain
    BY <1>16 DEF SendAgain, BodyFrame
  <1>17. CASE SendError
    BY <1>17 DEF SendError, writeError, WakeWriter, BodyFrame
  <1>18. CASE advanceWrite
    BY <1>18 DEF advanceWrite, WakeWriter, BodyFrame
  <1>19. CASE OutPending
    BY <1>19 DEF OutPending, Goto, BodyFrame
  <1>20. CASE OutFinished
    BY <1>20 DEF OutFinished, BodyFrame
  <1>21. CASE CloseFeed
    BY <1>21 DEF CloseFeed, feedError, WakeReader, BodyFrame
  <1>22. CASE CloseWrite
    BY <1>22 DEF CloseWrite, writeError, WakeWriter, BodyFrame
  <1>23. CASE Exit
    BY <1>23 DEF Exit, Goto, BodyFrame
  <1>24. CASE Start
    BY <1>24 DEF Start, WorkerOnly, BodyFrame
  <1>25. ASSUME NEW n \in 1..MaxResponse, BeginWrite(n) PROVE BodyFrame
    BY <1>25 DEF BeginWrite, WorkerOnly, BodyFrame
  <1>26. CASE writeData
    BY <1>26 DEF writeData, BodyFrame
  <1>27. CASE SpuriousWakeup
    BY <1>27 DEF SpuriousWakeup, WorkerOnly, BodyFrame
  <1>28. CASE Finish
    BY <1>28 DEF Finish, BodyFrame
  <1>29. CASE Abort
    BY <1>29 DEF Abort, setError, BodyFrame
  <1>30. CASE UNCHANGED vars
    BY <1>30 DEF vars, BodyFrame
  <1> QED
    BY <1>1, <1>2, <1>3, <1>4, <1>5, <1>6, <1>7, <1>8, <1>9, <1>10, <1>11,
       <1>12, <1>13, <1>14, <1>15, <1>16, <1>17, <1>18, <1>19, <1>20, <1>21,
       <1>22, <1>23, <1>24, <1>25, <1>26, <1>27, <1>28, <1>29, <1>30,
       Zenon DEF Next, Client, Loop, Worker, BodyAction

\* What readBodyChunk() takes out of read_chunk_, and what it leaves.
LEMMA TakenType ==
  ASSUME TypeOK, ReadInv, worker = "reading"
  PROVE  LET taken == SubSeq(read_chunk, 1, Min(want, Len(read_chunk)))
         IN  /\ taken \in Seq(Nat)
             /\ Len(taken) = Min(want, Len(read_chunk))
             /\ \A i \in 1..Len(taken) : taken[i] = read_chunk[i]
             /\ Len(taken) <= req.clen - Len(consumed)
             /\ ReadRest \in Seq(Nat)
             /\ Len(ReadRest) = Len(read_chunk) - Len(taken)
             /\ \A i \in 1..Len(ReadRest) :
                  ReadRest[i] = read_chunk[Len(taken) + i]
             /\ consumed \o taken \in Seq(Nat)
             /\ Len(consumed \o taken) = Len(consumed) + Len(taken)
             /\ \A i \in 1..Len(consumed) : (consumed \o taken)[i] = consumed[i]
             /\ \A i \in 1..Len(taken) :
                  (consumed \o taken)[Len(consumed) + i] = taken[i]
  <1>1. want \in Nat /\ want > 0 /\ want <= req.clen - Len(consumed)
    BY WantType
  <1>2. /\ read_chunk \in Seq(Nat) /\ Len(read_chunk) \in Nat
        /\ consumed \in Seq(Nat) /\ Len(consumed) \in Nat
        /\ req.clen \in Nat
    BY RequestType DEF TypeOK
  <1> DEFINE size == Min(want, Len(read_chunk))
  <1>3. size \in Nat /\ size <= Len(read_chunk) /\ size <= want
    BY <1>1, <1>2, MinType
  <1> DEFINE taken == SubSeq(read_chunk, 1, size)
  <1>4. /\ taken \in Seq(Nat) /\ Len(taken) = size
        /\ \A i \in 1..size : taken[i] = read_chunk[i]
    <2>1. size > 0 => Len(taken) = size - 1 + 1
      BY <1>2, <1>3, SubSeqType
    <2>2. size = 0 => Len(taken) = 0
      BY <1>2, <1>3, SubSeqType
    <2>3. taken \in Seq(Nat)
      BY <1>2, <1>3, SubSeqType
    <2>4. \A i \in 1..size : taken[i] = read_chunk[i]
      BY <1>2, <1>3, SubSeqProperties
    <2> QED
      BY <1>3, <2>1, <2>2, <2>3, <2>4
  <1>5. /\ ReadRest \in Seq(Nat) /\ Len(ReadRest) = Len(read_chunk) - size
        /\ \A i \in 1..Len(ReadRest) : ReadRest[i] = read_chunk[size + i]
    <2>1. CASE want < Len(read_chunk)
      <3>1. size = want
        BY <1>1, <1>2, <2>1 DEF Min
      <3> QED
        BY <1>1, <1>2, <2>1, <3>1, SuffixType DEF ReadRest
    <2>2. CASE want >= Len(read_chunk)
      <3>1. size = Len(read_chunk)
        BY <1>1, <1>2, <2>2 DEF Min
      <3>2. ReadRest = <<>>
        BY <1>1, <1>2, <2>2, SubSeqEmpty DEF ReadRest
      <3> QED
        BY <1>2, <3>1, <3>2
    <2> QED
      BY <1>1, <1>2, <2>1, <2>2
  <1> HIDE DEF size, taken
  <1>6. /\ consumed \o taken \in Seq(Nat)
        /\ Len(consumed \o taken) = Len(consumed) + Len(taken)
        /\ \A i \in 1..Len(consumed) : (consumed \o taken)[i] = consumed[i]
        /\ \A i \in 1..Len(taken) :
             (consumed \o taken)[Len(consumed) + i] = taken[i]
    BY <1>2, <1>4, ConcatType
  <1> QED
    <2>1. Len(taken) <= req.clen - Len(consumed)
      BY <1>1, <1>2, <1>3, <1>4
    <2> QED
      BY <1>4, <1>5, <1>6, <2>1 DEF size, taken

\* A worker that reads keeps on missing bytes of the body.
LEMMA ReadStep == Base /\ BodyInv /\ [Next]_vars => ReadInv'
  <1> SUFFICES ASSUME TypeOK, ReadInv, BodyInv, [Next]_vars PROVE ReadInv'
    BY DEF Base
  <1> /\ req.clen \in Nat /\ consumed \in Seq(Nat) /\ Len(consumed) \in Nat
    BY RequestType DEF TypeOK
  <1> USE DEF ReadInv, netVars, ctxVars, loopVars, readVars, writeVars,
         taskVars
  <1>1. CASE BodyFrame
    BY <1>1 DEF BodyFrame
  <1>2. CASE RecvEof
    BY <1>2 DEF RecvEof, AfterIn, feedBody, WakeReader
  <1>3. ASSUME NEW n \in 1..RecvSize, RecvHeader(n) \/ RecvBody(n)
        PROVE  ReadInv'
    BY <1>3 DEF RecvHeader, RecvBody, AfterIn, feedBody, WakeReader
  <1>4. CASE EndHeaders
    <2>1. body_prefix \in Nat /\ body_prefix <= req.clen
      BY DEF TypeOK
    <2>2. Len(Bytes(0, body_prefix)) = body_prefix
      BY <2>1, BytesType
    <2>3. Len(consumed') <= req.clen
      BY <1>4, <2>1, <2>2 DEF EndHeaders
    <2> QED
      BY <1>4, <2>3 DEF EndHeaders, WorkerOnly
  <1>5. CASE BeginRead
    BY <1>5 DEF BeginRead, WorkerOnly
  <1>6. CASE readBodyChunk
    <2>1. CASE UNCHANGED consumed
      BY <1>6, <2>1 DEF readBodyChunk
    <2>2. CASE consumed' = consumed \o
                 SubSeq(read_chunk, 1, Min(want, Len(read_chunk)))
      <3>1. worker' = "handling" \/ UNCHANGED consumed
        BY <1>6 DEF readBodyChunk
      <3> QED
        BY <1>6, <2>2, <2>1, <3>1, TakenType DEF readBodyChunk
    <2> QED
      BY <1>6, <2>1, <2>2 DEF readBodyChunk
  <1>7. CASE EndBody
    BY <1>7 DEF EndBody, WorkerOnly
  <1> QED
    BY <1>1, <1>2, <1>3, <1>4, <1>5, <1>6, <1>7, BodyFrameStep DEF BodyAction

\* Every step keeps the body bytes in order on their way from recv() through
\* the prefix and read_chunk_ to the filter.
LEMMA BodyStep == Base /\ BodyInv /\ [Next]_vars => BodyInv'
  <1> SUFFICES ASSUME TypeOK, ViewInv, ReadInv, BodyBytes, BodyStages,
                      BodyWhole, [Next]_vars
               PROVE  BodyInv'
    BY DEF Base, BodyInv
  <1> /\ req.clen \in Nat
      /\ consumed \in Seq(Nat) /\ Len(consumed) \in Nat
      /\ read_chunk \in Seq(Nat) /\ Len(read_chunk) \in Nat
      /\ body_bytes_fed \in Nat /\ body_prefix \in Nat
    BY RequestType DEF TypeOK
  <1> USE DEF netVars, ctxVars, loopVars, readVars, writeVars, taskVars
  <1>1. CASE BodyFrame
    BY <1>1 DEF BodyFrame, BodyInv, BodyBytes, BodyStages, BodyWhole
  <1>2. ASSUME NEW n \in Nat, NEW e, feedBody(n, e), state = "Active",
               UNCHANGED <<netVars, state, taskVars>>
        PROVE  BodyInv'
    <2> DEFINE fresh == Bytes(body_bytes_fed, n)
    <2>1. /\ read_chunk' = read_chunk \o fresh
          /\ body_bytes_fed' = body_bytes_fed + n
          /\ UNCHANGED <<body_prefix, req, state, stage, consumed, local>>
          /\ worker' \in {worker, "reading"}
          /\ worker' = "reading" => worker \in {"reading", "read_sleep"}
      BY <1>2, Zenon DEF feedBody, WakeReader
    <2>2. /\ fresh \in Seq(Nat) /\ Len(fresh) = n
          /\ \A i \in 1..n : fresh[i] = body_bytes_fed + i
      BY BytesType
    <2> HIDE DEF fresh
    <2>3. Len(read_chunk') = Len(read_chunk) + n
      BY <2>1, <2>2, ConcatType
    <2>4. ASSUME NEW i \in 1..Len(read_chunk')
          PROVE  read_chunk'[i] = body_bytes_fed' - Len(read_chunk') + i
      <3>1. CASE i <= Len(read_chunk)
        BY <2>1, <2>2, <2>3, <3>1, ConcatType DEF BodyBytes
      <3>2. CASE i > Len(read_chunk)
        <4>1. i - Len(read_chunk) \in 1..n
          BY <2>3, <3>2
        <4>2. read_chunk'[Len(read_chunk) + (i - Len(read_chunk))] =
                fresh[i - Len(read_chunk)]
          BY <2>1, <2>2, <4>1, ConcatType
        <4> QED
          BY <2>1, <2>2, <2>3, <4>1, <4>2
      <3> QED
        BY <2>3, <3>1, <3>2
    <2>5. BodyBytes'
      BY <2>1, <2>4 DEF BodyBytes
    <2>6. worker # "none"
      BY <1>2 DEF BodyStages
    <2>7. BodyStages'
      <3>1. /\ worker' # "none"
            /\ worker = "done" => worker' = "done"
            /\ worker' \in {"reading", "read_sleep"} =>
                 worker \in {"reading", "read_sleep"}
        BY <2>1, <2>6
      <3>2. /\ body_bytes_fed' = body_bytes_fed + n
            /\ UNCHANGED <<body_prefix, state, stage, consumed>>
        BY <2>1
      <3>3. Len(read_chunk') = Len(read_chunk) + n
        BY <2>3
      <3>4. stage' = "headers" =>
              /\ consumed' = <<>>
              /\ body_prefix' + Len(read_chunk') = body_bytes_fed'
        BY <3>2, <3>3 DEF BodyStages
      <3>5. stage' = "body" /\ worker' # "done" =>
              Len(consumed') + Len(read_chunk') = body_bytes_fed'
        BY <3>1, <3>2, <3>3 DEF BodyStages
      <3>6. worker' \in {"reading", "read_sleep"} => stage' = "body"
        BY <3>1, <3>2 DEF BodyStages
      <3> QED
        BY <1>2, <3>1, <3>2, <3>4, <3>5, <3>6 DEF BodyStages
    <2>8. BodyWhole'
      BY <2>1 DEF BodyWhole
    <2> QED
      BY <2>5, <2>7, <2>8 DEF BodyInv
  <1>3. CASE RecvEof
    <2>1. CASE state = "Active" /\ feedBody(0, TRUE)
      <3>1. UNCHANGED <<netVars, state, taskVars>>
        BY <1>3, <2>1 DEF RecvEof, AfterIn
      <3> QED
        BY <1>2, <2>1, <3>1
    <2>2. CASE UNCHANGED <<readVars, worker>>
      <3>1. UNCHANGED <<req, state, taskVars>>
        BY <1>3 DEF RecvEof, AfterIn
      <3> QED
        BY <2>2, <3>1 DEF BodyInv, BodyBytes, BodyStages, BodyWhole
    <2> QED
      BY <1>3, <2>1, <2>2, Zenon DEF RecvEof
  <1>4. ASSUME NEW n \in 1..RecvSize, RecvHeader(n) PROVE BodyInv'
    <2>1. /\ UNCHANGED <<req, read_chunk, taskVars>>
          /\ state = "ReadingHeaders"
          /\ \/ UNCHANGED <<state, body_prefix, body_bytes_fed, worker>>
             \/ /\ state' = "Active" /\ worker' = "queued"
                /\ body_bytes_fed' = body_prefix'
      BY <1>4 DEF RecvHeader, AfterIn, setHeaderData
    <2>2. stage = "headers" /\ read_chunk = <<>> /\ consumed = <<>>
      BY <2>1 DEF BodyStages
    <2>3. body_prefix' \in Nat
      BY TypeStep DEF TypeOK, Base
    <2> QED
      BY <2>1, <2>2, <2>3 DEF BodyInv, BodyBytes, BodyStages, BodyWhole
  <1>5. ASSUME NEW n \in 1..RecvSize, RecvBody(n) PROVE BodyInv'
    <2>1. CASE body_complete
      BY <1>5, <2>1 DEF RecvBody, AfterIn, BodyInv, BodyBytes, BodyStages,
         BodyWhole
    <2>2. CASE ~body_complete
      <3> DEFINE to_feed == Min(n, req.clen - body_bytes_fed)
                 eof     == to_feed >= req.clen - body_bytes_fed
      <3>1. to_feed \in Nat
        <4>1. req.clen - body_bytes_fed \in Nat /\ n \in Nat
          BY SizeAssumption DEF TypeOK
        <4> QED
          BY <4>1, MinType
      <3>2. feedBody(to_feed, eof)
        BY <1>5, <2>2, Zenon DEF RecvBody
      <3>3. state = "Active" /\ UNCHANGED <<netVars, state, taskVars>>
        BY <1>5 DEF RecvBody, AfterIn
      <3> HIDE DEF to_feed, eof
      <3> QED
        BY <1>2, <3>1, <3>2, <3>3
    <2> QED
      BY <2>1, <2>2
  <1>6. CASE EndHeaders
    <2> DEFINE prefix == Bytes(0, body_prefix)
    <2>1. /\ Len(prefix) = body_prefix
          /\ \A i \in 1..body_prefix : prefix[i] = 0 + i
      BY BytesType
    <2>2. /\ stage = "headers" /\ worker = "handling"
          /\ \/ stage' = "response" /\ local' = TRUE /\ UNCHANGED consumed
             \/ stage' = "body" /\ consumed' = prefix
          /\ UNCHANGED <<req, state, readVars, worker>>
      BY <1>6 DEF EndHeaders, WorkerOnly
    <2> HIDE DEF prefix
    <2>3. BodyBytes'
      BY <2>1, <2>2 DEF BodyBytes
    <2>4. BodyStages'
      BY <2>1, <2>2 DEF BodyStages
    <2>5. BodyWhole'
      BY <2>2, Zenon DEF BodyWhole
    <2> QED
      BY <2>3, <2>4, <2>5 DEF BodyInv
  <1>7. CASE BeginRead
    BY <1>7 DEF BeginRead, WorkerOnly, BodyInv, BodyBytes, BodyStages,
       BodyWhole
  <1>8. CASE readBodyChunk
    <2> DEFINE taken == SubSeq(read_chunk, 1, Min(want, Len(read_chunk)))
    <2>1. /\ worker = "reading"
          /\ UNCHANGED <<req, state, body_prefix, body_bytes_fed, stage, local>>
          /\ \/ worker' = "read_sleep" /\ UNCHANGED <<read_chunk, consumed>>
             \/ /\ worker' = "done" /\ UNCHANGED consumed
                /\ read_chunk' = ReadRest \/ UNCHANGED read_chunk
             \/ /\ worker' = "handling"
                /\ read_chunk' = ReadRest /\ consumed' = consumed \o taken
      BY <1>8, Zenon DEF readBodyChunk
    <2> HIDE DEF taken
    <2>2. /\ taken \in Seq(Nat) /\ Len(taken) \in Nat
          /\ Len(taken) <= Len(read_chunk)
          /\ Len(ReadRest) = Len(read_chunk) - Len(taken)
          /\ Len(consumed \o taken) = Len(consumed) + Len(taken)
      BY SMTT(30), <2>1, TakenType DEF taken
    <2>3. ASSUME NEW i \in 1..Len(ReadRest)
          PROVE  ReadRest[i] = body_bytes_fed - Len(ReadRest) + i
      <3>1. ReadRest[i] = read_chunk[Len(taken) + i]
        BY <2>1, TakenType DEF taken
      <3>2. Len(taken) + i \in 1..Len(read_chunk)
        BY <2>2
      <3> QED
        BY <2>2, <3>1, <3>2 DEF BodyBytes
    <2>4. stage = "body" /\ Len(consumed) + Len(read_chunk) = body_bytes_fed
      BY <2>1 DEF BodyStages
    <2>5. ASSUME NEW i \in 1..Len(consumed \o taken)
          PROVE  (consumed \o taken)[i] = i
      <3>1. CASE i <= Len(consumed)
        BY <2>2, <3>1, ConcatType DEF BodyBytes
      <3>2. CASE i > Len(consumed)
        <4> DEFINE j == i - Len(consumed)
        <4>1. j \in 1..Len(taken) /\ j \in 1..Len(read_chunk)
          BY <2>2, <3>2
        <4>2. (consumed \o taken)[Len(consumed) + j] = taken[j]
          BY <2>2, <4>1, ConcatType
        <4>3. taken[j] = read_chunk[j]
          BY <2>1, <4>1, TakenType DEF taken
        <4>4. read_chunk[j] = body_bytes_fed - Len(read_chunk) + j
          BY <4>1 DEF BodyBytes
        <4> QED
          BY <2>4, <4>1, <4>2, <4>3, <4>4
      <3> QED
        BY <2>2, <3>1, <3>2
    <2>6. BodyBytes'
      BY <2>1, <2>3, <2>5, Zenon DEF BodyBytes
    <2>7. BodyStages'
      <3>1. \/ worker' = "done"
            \/ /\ worker' # "none"
               /\ Len(consumed') + Len(read_chunk') =
                    Len(consumed) + Len(read_chunk)
        <4>1. CASE worker' = "read_sleep" /\ UNCHANGED <<read_chunk, consumed>>
          BY <4>1
        <4>2. CASE worker' = "handling" /\ read_chunk' = ReadRest
                     /\ consumed' = consumed \o taken
          <5>1. Len(consumed') = Len(consumed) + Len(taken)
            BY <2>2, <4>2, Zenon
          <5>2. Len(read_chunk') = Len(read_chunk) - Len(taken)
            BY <2>2, <4>2, Zenon
          <5>3. worker' = "handling"
            BY <4>2
          <5> QED
            BY <2>2, <5>1, <5>2, <5>3
        <4> QED
          BY <2>1, <4>1, <4>2
      <3>2. /\ UNCHANGED <<state, body_bytes_fed, stage>>
            /\ worker = "reading"
        BY <2>1
      <3> QED
        BY <2>4, <3>1, <3>2 DEF BodyStages
    <2>8. BodyWhole'
      BY <2>1, <2>4 DEF BodyWhole
    <2> QED
      BY <2>6, <2>7, <2>8 DEF BodyInv
  <1>9. CASE EndBody
    <2>1. UNCHANGED <<req, state, readVars, worker, consumed>>
      BY <1>9 DEF EndBody, WorkerOnly
    <2>2. stage = "body" /\ stage' = "response" /\ worker = "handling"
      BY <1>9 DEF EndBody
    <2>3. Len(consumed) >= req.clen \/ local' = TRUE
      BY <1>9, Zenon DEF EndBody
    <2>4. Len(consumed) >= req.clen => Len(consumed') = req'.clen
      BY <2>1 DEF ReadInv
    <2>5. BodyBytes' /\ BodyStages'
      BY <2>1, <2>2 DEF BodyBytes, BodyStages
    <2>6. BodyWhole'
      BY <2>3, <2>4, Zenon DEF BodyWhole
    <2> QED
      BY <2>5, <2>6 DEF BodyInv
  <1> QED
    BY <1>1, <1>3, <1>4, <1>5, <1>6, <1>7, <1>8, <1>9, BodyFrameStep
       DEF BodyAction

----------------------------------------------------------------------------
(* The theorems about types and the request body *)

\* An accepted connection has handed over nothing.
LEMMA BodyInit == Init => BodyInv
  <1> SUFFICES ASSUME Init PROVE BodyInv
    OBVIOUS
  <1>1. BodyBytes
    BY DEF Init, BodyBytes
  <1>2. BodyStages
    BY DEF Init, BodyStages
  <1>3. BodyWhole
    BY DEF Init, BodyWhole
  <1> QED
    BY <1>1, <1>2, <1>3 DEF BodyInv

\* The inductive invariant holds throughout.
LEMMA BodyInvariant == SafeSpec => [](Base /\ BodyInv)
  <1>1. Init => Base /\ BodyInv
    BY BaseInit, BodyInit
  <1>2. Base /\ BodyInv /\ [Next]_vars => (Base /\ BodyInv)'
    BY TypeStep, ReadStep, BodyStep DEF Base
  <1> QED
    BY <1>1, <1>2, PTL DEF SafeSpec

\* Every variable keeps its type and the counters of body bytes stay within
\* the Content-Length (see TypeOK), so that the unsigned differences of
\* main.cpp:520 and 770 never wrap around.
THEOREM TypeCorrect == SafeSpec => []TypeOK
  <1>1. Base => TypeOK
    BY DEF Base
  <1> QED
    BY <1>1, BodyInvariant, PTL

\* The bytes that send() reads outside write_mutex_ (main.cpp:553) are not
\* changed under it: writeData() waits until the buffer is empty, and only the
\* loop itself empties it (see ViewStable).
THEOREM ViewIsStable == SafeSpec => []ViewStable
  <1>1. Base => ViewStable
    BY DEF Base, ViewInv
  <1> QED
    BY <1>1, BodyInvariant, PTL

\* The pointwise facts of BodyInv, put together as sequences.
LEMMA BodyInvImplies == Base /\ BodyInv => BodyIntact
  <1> SUFFICES ASSUME TypeOK, ReadInv, BodyBytes, BodyStages, BodyWhole
               PROVE  BodyIntact
    BY DEF Base, BodyInv
  <1> /\ req.clen \in Nat
      /\ consumed \in Seq(Nat) /\ Len(consumed) \in Nat
      /\ read_chunk \in Seq(Nat) /\ Len(read_chunk) \in Nat
      /\ body_bytes_fed \in Nat
    BY RequestType DEF TypeOK
  <1>1. consumed = Bytes(0, Len(consumed))
    <2>1. /\ Bytes(0, Len(consumed)) \in Seq(Nat)
          /\ Len(Bytes(0, Len(consumed))) = Len(consumed)
          /\ \A i \in 1..Len(consumed) : Bytes(0, Len(consumed))[i] = 0 + i
      BY BytesType
    <2>2. \A i \in 1..Len(consumed) : consumed[i] = Bytes(0, Len(consumed))[i]
      BY <2>1 DEF BodyBytes
    <2> QED
      BY <2>1, <2>2, SeqEqual
  <1>2. ASSUME stage = "body", worker # "done"
        PROVE  consumed \o read_chunk = Bytes(0, body_bytes_fed)
    <2> DEFINE all == consumed \o read_chunk
    <2>1. Len(consumed) + Len(read_chunk) = body_bytes_fed
      BY <1>2 DEF BodyStages
    <2>2. all \in Seq(Nat) /\ Len(all) = body_bytes_fed
      BY <2>1, ConcatType
    <2>3. /\ Bytes(0, body_bytes_fed) \in Seq(Nat)
          /\ Len(Bytes(0, body_bytes_fed)) = body_bytes_fed
          /\ \A i \in 1..body_bytes_fed : Bytes(0, body_bytes_fed)[i] = 0 + i
      BY BytesType
    <2>4. ASSUME NEW i \in 1..body_bytes_fed PROVE all[i] = i
      <3>1. CASE i <= Len(consumed)
        BY <3>1, ConcatType DEF BodyBytes
      <3>2. CASE i > Len(consumed)
        <4> DEFINE j == i - Len(consumed)
        <4>1. j \in 1..Len(read_chunk)
          BY <2>1, <3>2
        <4>2. all[Len(consumed) + j] = read_chunk[j]
          BY <4>1, ConcatType
        <4>3. read_chunk[j] = body_bytes_fed - Len(read_chunk) + j
          BY <4>1 DEF BodyBytes
        <4> QED
          BY <2>1, <4>1, <4>2, <4>3
      <3>3. i <= Len(consumed) \/ i > Len(consumed)
        OBVIOUS
      <3> QED
        BY <3>1, <3>2, <3>3, Zenon
    <2> HIDE DEF all
    <2>5. \A i \in 1..body_bytes_fed : all[i] = Bytes(0, body_bytes_fed)[i]
      BY <2>3, <2>4
    <2>6. all = Bytes(0, body_bytes_fed)
      BY <2>2, <2>3, <2>5, SeqEqual
    <2> QED
      BY <2>6 DEF all
  <1>3. stage = "response" /\ ~local => Len(consumed) = req.clen
    BY DEF BodyWhole
  <1> QED
    BY <1>1, <1>2, <1>3 DEF BodyIntact, ReadInv

\* The filter gets the request body as the client sent it (see BodyIntact):
\* for every size limit, every request and every interleaving.
THEOREM BodyIsIntact == SafeSpec => []BodyIntact
  BY BodyInvariant, BodyInvImplies, PTL
=============================================================================
