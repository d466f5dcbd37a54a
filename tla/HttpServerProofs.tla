--------------------------- MODULE HttpServerProofs ---------------------------
(***************************************************************************)
(* Proofs about the HTTP server as a process, for any number of clients,   *)
(* descriptors and workers: the tables of the loop agree with each other,  *)
(* no wake-up of the eventfd is lost, a connection is closed for a cause,  *)
(* and the socket file is looked after.                                    *)
(*                                                                         *)
(* The steps of the server are first put into a few kinds (Closing, Stay,  *)
(* Accepted, Work, Quiet), each described connection by connection; then   *)
(* one lemma for every part of the invariant goes through the kinds.       *)
(***************************************************************************)
EXTENDS HttpServer, FiniteSetTheorems, SequenceTheorems, TLAPS

----------------------------------------------------------------------------
(* The inductive invariant *)

\* Entries without a client are empty; every open connection has one entry.
TableInv ==
  /\ \A f \in Fd : connections[f].client = NoClient => connections[f] = NoConn
  /\ \A f \in Fd : connections[f].client # NoClient =>
       /\ sock[connections[f].client] = "open"
       /\ connections[f].active <=> job[connections[f].client] # "none"
  /\ \A f, g \in Fd : connections[f].client = connections[g].client =>
       f = g \/ connections[f].client = NoClient
  /\ \A c \in Clients : sock[c] = "open" =>
       \E f \in Fd : connections[f].client = c
  /\ pc # "loop" => \A f \in Fd : connections[f] = NoConn

\* The elements of a sequence are pairwise different, and those of the set S.
Lists(s, S) ==
  /\ \A i, j \in 1..Len(s) : s[i] = s[j] => i = j
  /\ \A i \in 1..Len(s) : s[i] \in S
  /\ \A c \in S : \E i \in 1..Len(s) : s[i] = c

BacklogInv == Lists(backlog, {c \in Clients : sock[c] = "backlog"})
QueueInv == Lists(tasks, {c \in Clients : job[c] = "queued"})

\* The bridge of a request: unused before the request is submitted, and then, on
\* an open connection, with the marks of what its worker has done.
BridgeInv ==
  \A c \in Clients :
    /\ sock[c] \in {"none", "backlog"} => job[c] = "none"
    /\ job[c] = "none" => io[c] = NoIO
    /\ sock[c] = "closed" /\ job[c] \notin {"none", "done"} =>
         io[c].rerr /\ io[c].werr
    /\ sock[c] = "open" =>
         /\ io[c].pend <=> io[c].buf
         /\ io[c].fin <=> job[c] = "done"
         /\ io[c].werr => io[c].fin
         /\ job[c] \in {"finish", "done"} /\ ~io[c].werr =>
              io[c].buf \/ c \in answered

\* What a worker has left for the loop is announced, in the middle of a batch
\* too.
AnnouncedInv ==
  pc = "loop" =>
    \A f \in Fd :
      LET b == io[connections[f].client] IN
      connections[f].active /\ (b.pend \/ b.fin \/ b.werr) =>
        event_fd \/ "out" \in connections[f].epoll_events

\* Events of a batch are of connections that were open, and a hang-up is handled
\* on the connection it is about, or on a new one with its number.
BatchInv ==
  \A f \in Fd : batch.fd[f].ev # {} =>
    /\ batch.fd[f].client \in Clients
    /\ sock[batch.fd[f].client] \in {"open", "closed"}
    /\ "hup" \in batch.fd[f].ev /\ connections[f] # NoConn =>
         IF connections[f].client = batch.fd[f].client
         THEN req[connections[f].client].quit = "reset"
         ELSE connections[f] = NewConn(connections[f].client)

ServerInv ==
  /\ TypeOK /\ TableInv /\ BacklogInv /\ QueueInv /\ BridgeInv /\ AnnouncedInv
  /\ BatchInv /\ SocketFile

----------------------------------------------------------------------------
(* Sequences and sets *)

\* A new element at the end of a list.
LEMMA ListsAppend ==
  ASSUME NEW T, NEW s \in Seq(T), NEW S, NEW c \in T, Lists(s, S), c \notin S
  PROVE  Lists(Append(s, c), S \cup {c})
  <1>1. Len(Append(s, c)) = Len(s) + 1 /\ Len(s) \in Nat
    OBVIOUS
  <1>2. \A i \in 1..(Len(s) + 1) :
          Append(s, c)[i] = IF i = Len(s) + 1 THEN c ELSE s[i]
    OBVIOUS
  <1>3. PICK t : t = Append(s, c)
    OBVIOUS
  <1>4. \A i \in 1..(Len(s) + 1) : i # Len(s) + 1 => i \in 1..Len(s)
    BY <1>1
  <1>5. \A i \in 1..Len(s) : i \in 1..(Len(s) + 1) /\ i # Len(s) + 1
    BY <1>1
  <1>6. Lists(t, S \cup {c})
    BY <1>1, <1>2, <1>3, <1>4, <1>5 DEF Lists
  <1> QED
    BY <1>3, <1>6

\* A list without its first n elements.
LEMMA ListsDrop ==
  ASSUME NEW T, NEW s \in Seq(T), NEW S, Lists(s, S), NEW n \in 0..Len(s)
  PROVE  Lists(SubSeq(s, n + 1, Len(s)),
               {c \in S : ~\E k \in 1..n : s[k] = c})
  <1>1. PICK t : t = SubSeq(s, n + 1, Len(s))
    OBVIOUS
  <1>2. Len(s) \in Nat /\ n \in Nat /\ n <= Len(s)
    OBVIOUS
  <1>3. Len(t) = Len(s) - n /\ \A i \in 1..(Len(s) - n) : t[i] = s[n + i]
    BY <1>1, <1>2
  <1>4. \A i \in 1..(Len(s) - n) : n + i \in 1..Len(s) /\ n + i \notin 1..n
    BY <1>2
  <1>5. \A i, j \in 1..Len(t) : t[i] = t[j] => i = j
    <2>1. SUFFICES ASSUME NEW i \in 1..Len(t), NEW j \in 1..Len(t), t[i] = t[j]
                   PROVE  i = j
      OBVIOUS
    <2>2. s[n + i] = s[n + j] /\ n + i \in 1..Len(s) /\ n + j \in 1..Len(s)
      BY <1>3, <1>4, <2>1
    <2>3. n + i = n + j
      BY <2>2 DEF Lists
    <2> QED
      BY <1>2, <1>3, <2>3
  <1>6. ASSUME NEW i \in 1..Len(t)
        PROVE  t[i] \in {c \in S : ~\E k \in 1..n : s[k] = c}
    <2>1. t[i] = s[n + i] /\ n + i \in 1..Len(s) /\ n + i \notin 1..n
      BY <1>3, <1>4
    <2>2. \A k \in 1..n : k \in 1..Len(s)
      BY <1>2
    <2> QED
      BY <2>1, <2>2 DEF Lists
  <1>7. ASSUME NEW c \in S, ~\E k \in 1..n : s[k] = c
        PROVE  \E i \in 1..Len(t) : t[i] = c
    <2>1. PICK i \in 1..Len(s) : s[i] = c
      BY DEF Lists
    <2>2. i \notin 1..n
      BY <1>7, <2>1
    <2>3. i - n \in 1..(Len(s) - n) /\ n + (i - n) = i
      BY <1>2, <2>2
    <2> QED
      BY <1>3, <2>1, <2>3
  <1>8. Lists(t, {c \in S : ~\E k \in 1..n : s[k] = c})
    BY <1>5, <1>6, <1>7 DEF Lists
  <1> QED
    BY <1>1, <1>8

\* A list without its first element.
LEMMA ListsTail ==
  ASSUME NEW T, NEW s \in Seq(T), NEW S, Lists(s, S), s # << >>
  PROVE  Head(s) \in S /\ Lists(Tail(s), S \ {Head(s)})
  <1>1. Len(s) \in Nat /\ Len(s) >= 1 /\ Head(s) = s[1]
    OBVIOUS
  <1>2. Tail(s) = SubSeq(s, 2, Len(s))
    OBVIOUS
  <1>3. 1 \in 0..Len(s) /\ 1 + 1 = 2
    BY <1>1
  <1>4. Lists(SubSeq(s, 1 + 1, Len(s)), {c \in S : ~\E k \in 1..1 : s[k] = c})
    BY <1>3, ListsDrop
  <1>5. {c \in S : ~\E k \in 1..1 : s[k] = c} = S \ {Head(s)}
    BY <1>1
  <1>6. Head(s) \in S
    BY <1>1 DEF Lists
  <1> QED
    BY <1>2, <1>3, <1>4, <1>5, <1>6

\* How often an element is in a list.
LEMMA ListsCount ==
  ASSUME NEW T, NEW s \in Seq(T), NEW S, Lists(s, S), NEW c
  PROVE  Cardinality({i \in 1..Len(s) : s[i] = c}) = IF c \in S THEN 1 ELSE 0
  <1>1. CASE c \in S
    <2>1. PICK i \in 1..Len(s) : s[i] = c
      BY <1>1 DEF Lists
    <2>2. {j \in 1..Len(s) : s[j] = c} = {i}
      BY <2>1 DEF Lists
    <2> QED
      BY <1>1, <2>2, FS_Singleton
  <1>2. CASE c \notin S
    <2>1. {j \in 1..Len(s) : s[j] = c} = {}
      BY <1>2 DEF Lists
    <2> QED
      BY <1>2, <2>1, FS_EmptySet
  <1> QED
    BY <1>1, <1>2

\* The numbers of a finite set have the places 1, 2, and so on.
LEMMA Places ==
  ASSUME NEW n \in Nat, NEW S \in SUBSET (1..n)
  PROVE  /\ Cardinality(S) \in Nat
         /\ \A x \in S : Nth(S, x) \in 1..Cardinality(S)
         /\ \A x, y \in S : Nth(S, x) = Nth(S, y) => x = y
         /\ \A k \in 1..Cardinality(S) : \E x \in S : Nth(S, x) = k
  <1>1. IsFiniteSet(S) /\ Cardinality(S) \in Nat
    <2>1. 1 \in Int /\ n \in Int
      OBVIOUS
    <2>2. IsFiniteSet(1..n)
      BY <2>1, FS_Interval
    <2>3. IsFiniteSet(S)
      BY <2>2, FS_Subset
    <2> QED
      BY <2>3, FS_CardinalityType
  <1>2. ASSUME NEW x \in S
        PROVE  Nth(S, x) \in 1..Cardinality(S)
    <2>1. {y \in S : y <= x} \in SUBSET S
      OBVIOUS
    <2>2. /\ IsFiniteSet({y \in S : y <= x})
          /\ Cardinality({y \in S : y <= x}) <= Cardinality(S)
          /\ Cardinality({y \in S : y <= x}) \in Nat
      BY <1>1, <2>1, FS_Subset, FS_CardinalityType
    <2>3. x \in {y \in S : y <= x}
      OBVIOUS
    <2>4. Cardinality({y \in S : y <= x}) # 0
      BY <2>2, <2>3, FS_EmptySet
    <2> QED
      BY <1>1, <2>2, <2>4 DEF Nth
  <1>3. ASSUME NEW x \in S, NEW y \in S, x < y
        PROVE  Nth(S, x) # Nth(S, y)
    <2>0. \A z \in S : z <= x => z <= y
      <3>1. \A z \in S : z \in Int
        OBVIOUS
      <3>2. x \in Int /\ y \in Int
        OBVIOUS
      <3> QED
        BY <1>3, <3>1, <3>2
    <2>1. {z \in S : z <= x} \in SUBSET {z \in S : z <= y}
      BY <2>0
    <2>2. y \in {z \in S : z <= y} /\ y \notin {z \in S : z <= x}
      BY <1>3
    <2>3. IsFiniteSet({z \in S : z <= y})
      BY <1>1, FS_Subset
    <2>4. Cardinality({z \in S : z <= y}) = Cardinality({z \in S : z <= x}) =>
            {z \in S : z <= y} = {z \in S : z <= x}
      BY <2>1, <2>3, FS_Subset
    <2> QED
      BY <2>2, <2>4 DEF Nth
  <1>4. ASSUME NEW x \in S, NEW y \in S, Nth(S, x) = Nth(S, y)
        PROVE  x = y
    <2>1. x < y \/ y < x \/ x = y
      OBVIOUS
    <2> QED
      BY <1>3, <1>4, <2>1
  <1>5. ASSUME NEW k \in 1..Cardinality(S)
        PROVE  \E x \in S : Nth(S, x) = k
    <2> DEFINE p == [x \in S |-> Nth(S, x)]
    <2>1. p \in [S -> 1..Cardinality(S)]
      BY <1>2
    <2>2. \A x, y \in S : p[x] = p[y] => x = y
      BY <1>4
    <2>3. p \in Injection(S, 1..Cardinality(S))
      BY <2>1, <2>2 DEF Injection, IsInjective
    <2>4. IsFiniteSet(1..Cardinality(S)) /\
          Cardinality(1..Cardinality(S)) = Cardinality(S)
      BY <1>1, FS_Interval
    <2>5. p \in Surjection(S, 1..Cardinality(S))
      BY <2>3, <2>4, FS_Injection
    <2>6. \E x \in S : p[x] = k
      BY <2>5 DEF Surjection
    <2> QED
      BY <2>6
  <1> QED
    BY <1>1, <1>2, <1>4, <1>5

----------------------------------------------------------------------------
(* What the steps do, connection by connection *)

\* The constants of the records have their types.
LEMMA RecordTypes ==
  /\ NoConn \in Entries /\ NoConn.client = NoClient /\ ~NoConn.active
  /\ NoEvents \in Events /\ NoEvents.ev = {}
  /\ NoIO \in Bridges /\ Unsent \in Requests
  /\ Unsent.got = 0 /\ Unsent.sent = 0
  BY ServerAssumption
     DEF NoConn, NoEvents, NoIO, Unsent, Entries, Events, Bridges, Requests

\* The entry of a new connection.
LEMMA NewConnType ==
  ASSUME NEW c \in Clients
  PROVE  /\ NewConn(c) \in Entries /\ NewConn(c).client = c
         /\ ~NewConn(c).active /\ NewConn(c) # NoConn
  <1>1. NewConn(c) \in Entries /\ NewConn(c).client = c /\ ~NewConn(c).active
    BY DEF Entries, NewConn
  <1> QED
    BY <1>1, ServerAssumption, RecordTypes

\* The batch when one descriptor's events change.
LEMMA BatchChange ==
  ASSUME NEW b \in Batches, NEW f \in Fd, NEW e \in Events
  PROVE  /\ [b EXCEPT !.fd[f] = e] \in Batches
         /\ \A g \in Fd : [b EXCEPT !.fd[f] = e].fd[g] =
                            IF g = f THEN e ELSE b.fd[g]
  <1>1. [b EXCEPT !.fd[f] = e] =
          [listen |-> b.listen, event |-> b.event, fd |-> [b.fd EXCEPT ![f] = e]]
    BY DEF Batches
  <1> QED
    BY <1>1 DEF Batches

\* No descriptor gets events of another client, and none gets any after
\* EPOLLOUT.
BatchShrinks ==
  /\ batch' \in Batches
  /\ \A g \in Fd :
       \/ batch'.fd[g] = batch.fd[g]
       \/ batch'.fd[g] = NoEvents
       \/ /\ batch'.fd[g].ev = {"out"} /\ batch.fd[g].ev # {}
          /\ batch'.fd[g].client = batch.fd[g].client

\* The events of one descriptor have been handled.
LEMMA HandledFacts ==
  ASSUME TypeOK, NEW f \in Fd, batch' = Handled(f)
  PROVE  /\ BatchShrinks /\ batch'.fd[f] = NoEvents
         /\ \A g \in Fd \ {f} : batch'.fd[g] = batch.fd[g]
  <1>1. batch \in Batches /\ NoEvents \in Events
    BY RecordTypes DEF TypeOK
  <1>2. /\ batch' \in Batches
        /\ \A g \in Fd : batch'.fd[g] = IF g = f THEN NoEvents ELSE batch.fd[g]
    BY <1>1, BatchChange DEF Handled
  <1> QED
    BY <1>2 DEF BatchShrinks

\* EPOLLIN of one descriptor has been handled.
LEMMA AfterInFacts ==
  ASSUME TypeOK, NEW f \in Fd, AfterIn(f)
  PROVE  /\ BatchShrinks /\ "hup" \notin batch'.fd[f].ev
         /\ cur' \in 0..MaxFd /\ (cur' # 0 => batch'.fd[cur'].ev = {"out"})
         /\ \A g \in Fd \ {f} : batch'.fd[g] = batch.fd[g]
  <1>1. batch \in Batches /\ batch.fd[f] \in Events /\ f \in 1..MaxFd
    BY DEF TypeOK, Batches, Fd
  <1>2. CASE "out" \in batch.fd[f].ev
    <2>0. {"out"} \in SUBSET {"in", "out", "hup"}
      OBVIOUS
    <2>1. PICK e \in Events : e = [client |-> batch.fd[f].client,
                                  ev |-> {"out"}]
      BY <1>1, <2>0 DEF Events
    <2>5. e.ev = {"out"} /\ e.client = batch.fd[f].client
      BY <2>1
    <2>4. e = [batch.fd[f] EXCEPT !.ev = {"out"}]
      BY <1>1, <2>1 DEF Events
    <2>2. batch' = [batch EXCEPT !.fd[f] = e] /\ cur' = f
      BY <1>2, <2>4 DEF AfterIn
    <2>3. /\ batch' \in Batches
          /\ \A g \in Fd : batch'.fd[g] = IF g = f THEN e ELSE batch.fd[g]
      BY <1>1, <2>2, BatchChange
    <2> QED
      BY <1>1, <1>2, <2>2, <2>3, <2>5, ServerAssumption DEF BatchShrinks
  <1>3. CASE "out" \notin batch.fd[f].ev
    <2>1. batch' = Handled(f) /\ cur' = 0
      BY <1>3 DEF AfterIn
    <2> QED
      BY <2>1, HandledFacts, RecordTypes, ServerAssumption
  <1> QED
    BY <1>2, <1>3

\* A flag of the batch is cleared.
LEMMA FlagFacts ==
  ASSUME TypeOK, \/ batch' = [batch EXCEPT !.listen = FALSE]
                 \/ batch' = [batch EXCEPT !.event = FALSE]
  PROVE  BatchShrinks /\ batch'.fd = batch.fd
  <1>1. batch \in Batches
    BY DEF TypeOK
  <1>2. batch' \in Batches /\ batch'.fd = batch.fd
    BY <1>1 DEF Batches
  <1> QED
    BY <1>2 DEF BatchShrinks

\* The connections of S are closed.
Closed(S) ==
  /\ \A f \in S : connections'[f] = NoConn
  /\ \A c \in Clients :
       IF \E f \in S : connections[f].client = c
       THEN sock'[c] = "closed" /\ req'[c] = Unsent /\ io'[c] = Dropped(c)
       ELSE sock'[c] = sock[c] /\ req'[c] = req[c] /\ io'[c] = io[c]

\* The other entries of the table keep their clients.
Kept(S) ==
  \A f \in Fd \ S :
    \/ connections'[f] = connections[f]
    \/ /\ connections[f].active /\ connections'[f].active
       /\ connections'[f].client = connections[f].client

\* The types of what Close changes.
CloseTypes ==
  /\ sock' \in [Clients -> {"none", "backlog", "open", "closed"}]
  /\ req' \in [Clients -> Requests]
  /\ \A c \in Clients : req'[c].got <= req'[c].sent /\ req'[c].sent <= Pieces(c)
  /\ connections' \in [Fd -> Entries]
  /\ io' \in [Clients -> Bridges]

\* A bridge that the loop has dropped.
LEMMA DroppedFacts ==
  ASSUME TypeOK, NEW c \in Clients
  PROVE  /\ Dropped(c) \in Bridges
         /\ job[c] \in {"none", "done"} => Dropped(c) = NoIO
         /\ job[c] \notin {"none", "done"} => Dropped(c).rerr /\ Dropped(c).werr
  <1>1. io[c] \in Bridges
    BY DEF TypeOK
  <1>2. CASE job[c] \in {"none", "done"}
    BY <1>2, RecordTypes DEF Dropped
  <1>3. CASE job[c] \notin {"none", "done"}
    <2>1. Dropped(c) = [fed |-> io[c].fed, eof |-> io[c].eof, rerr |-> TRUE,
                        buf |-> FALSE, pend |-> io[c].pend, fin |-> io[c].fin,
                        werr |-> TRUE]
      BY <1>1, <1>3 DEF Dropped, Bridges
    <2> QED
      BY <1>1, <1>3, <2>1 DEF Bridges
  <1> QED
    BY <1>2, <1>3

\* What Close does.
LEMMA CloseFacts ==
  ASSUME TypeOK, NEW table \in [Fd -> Entries], NEW S \in SUBSET Fd,
         \A f \in Fd : table[f].client = connections[f].client,
         Close(table, S)
  PROVE  /\ Closed(S) /\ CloseTypes
         /\ \A f \in Fd \ S : connections'[f] = table[f]
  <1>1. connections' = [f \in Fd |-> IF f \in S THEN NoConn ELSE table[f]]
    BY DEF Close
  <1>2. \A c \in Clients : (\E f \in S : connections[f].client = c) <=>
                           c \in {table[f].client : f \in S}
    OBVIOUS
  <1>3. /\ sock' = [c \in Clients |->
              IF c \in {table[f].client : f \in S} THEN "closed" ELSE sock[c]]
        /\ req' = [c \in Clients |->
              IF c \in {table[f].client : f \in S} THEN Unsent ELSE req[c]]
        /\ io' = [c \in Clients |->
              IF c \in {table[f].client : f \in S} THEN Dropped(c) ELSE io[c]]
    BY DEF Close
  <1>4. connections' \in [Fd -> Entries]
    BY <1>1, RecordTypes
  <1>5. sock' \in [Clients -> {"none", "backlog", "open", "closed"}]
    BY <1>3 DEF TypeOK
  <1>6. req' \in [Clients -> Requests]
    BY <1>3, RecordTypes DEF TypeOK
  <1>7. io' \in [Clients -> Bridges]
    BY <1>3, DroppedFacts DEF TypeOK
  <1>8. \A c \in Clients : req'[c].got <= req'[c].sent /\ req'[c].sent <= Pieces(c)
    <2>1. SUFFICES ASSUME NEW c \in Clients
                   PROVE  req'[c].got <= req'[c].sent /\ req'[c].sent <= Pieces(c)
      OBVIOUS
    <2>2. req'[c] = Unsent \/ req'[c] = req[c]
      BY <1>3
    <2> QED
      BY <2>2, RecordTypes DEF TypeOK, Pieces
  <1>9. Closed(S)
    BY <1>1, <1>2, <1>3 DEF Closed
  <1> QED
    BY <1>1, <1>4, <1>5, <1>6, <1>7, <1>8, <1>9 DEF CloseTypes

\* The loop looks at every active connection: it closes those that are done, and
\* waits for EPOLLOUT on those that have something to send.
Scanned(S) ==
  /\ \A f \in Fd :
       f \in S <=> /\ connections[f].active
                   /\ LET b == io[connections[f].client] IN
                      b.werr \/ (isFinished(b) /\ ~b.pend)
  /\ \A f \in Fd \ S :
       connections[f].active /\ io[connections[f].client].pend =>
         "out" \in connections'[f].epoll_events

\* The loop closes the connections of S.
Closing(S) ==
  /\ S \in SUBSET Fd /\ \A f \in S : connections[f].client \in Clients
  /\ Closed(S) /\ CloseTypes /\ Kept(S) /\ BatchShrinks
  /\ pc = "loop" /\ cur' = 0
  /\ \/ pc' = "loop"
     \/ pc' = "drain" /\ \A f \in Fd \ S : connections'[f] = NoConn
  /\ UNCHANGED <<config, g_shutdown, refusing, fileVars, backlog, tasks, job>>
  /\ answered \subseteq answered' /\ answered' \subseteq Clients
  /\ event_fd' \in BOOLEAN
  /\ \/ pc' = "drain"
     \/ Scanned(S)
     \/ event_fd' = event_fd /\ \A f \in Fd \ S : connections'[f] = connections[f]

\* Clients of entries.
LEMMA ClientOf ==
  ASSUME TypeOK, TableInv, NEW f \in Fd, connections[f] # NoConn
  PROVE  /\ connections[f].client \in Clients
         /\ sock[connections[f].client] = "open"
         /\ connections[f] \in Entries
  BY DEF TypeOK, TableInv, Entries

\* The loop closes one connection.
LEMMA CloseOne ==
  ASSUME TypeOK, TableInv, NEW f \in Fd, connections[f] # NoConn,
         Close(connections, {f}), batch' = Handled(f), pc = "loop",
         UNCHANGED <<procVars, fileVars, backlog, event_fd, tasks, job>>,
         cur' = 0, answered \subseteq answered', answered' \subseteq Clients
  PROVE  Closing({f})
  <1>1. connections \in [Fd -> Entries] /\ {f} \in SUBSET Fd
        /\ event_fd \in BOOLEAN
    BY DEF TypeOK
  <1>2. Closed({f}) /\ CloseTypes
        /\ \A g \in Fd \ {f} : connections'[g] = connections[g]
    BY <1>1, CloseFacts
  <1> QED
    BY <1>1, <1>2, ClientOf, HandledFacts DEF Closing, Kept, procVars

\* One descriptor's EPOLLOUT: the connection is closed, or it stays.
OutCloses(f) == OutSend(f) /\ Close(connections, {f})
OutStays(f) ==
  LET k    == connections[f]
      c    == k.client
      sent == [io[c] EXCEPT !.buf = FALSE, !.pend = @ /\ ~io[c].buf]
  IN
  /\ OutSend(f)
  /\ ~isFinished(sent)
  /\ connections' = [connections EXCEPT
        ![f] = Arm(k, IF k.body_complete THEN {} ELSE {"in"})]
  /\ io' = [io EXCEPT ![c] = sent]
  /\ UNCHANGED <<sock, req>>

\* The steps on one descriptor that close its connection.
LEMMA ClosingOne ==
  ASSUME TypeOK, TableInv, NEW f \in Fd,
         HangUp(f) \/ RecvClose(f) \/ OutCloses(f) \/ OutError(f)
  PROVE  Closing({f})
  <1>0. answered \subseteq Clients
    BY DEF TypeOK
  <1>1. CASE HangUp(f)
    BY <1>0, <1>1, CloseOne DEF HangUp
  <1>2. CASE RecvClose(f)
    BY <1>0, <1>2, CloseOne DEF RecvClose, In
  <1>3. CASE OutCloses(f)
    <2>1. connections[f] # NoConn /\ connections[f].client \in Clients
      BY <1>3, ClientOf DEF OutCloses, OutSend, Out
    <2>2. answered \subseteq answered' /\ answered' \subseteq Clients
      BY <1>0, <1>3, <2>1 DEF OutCloses, OutSend
    <2> QED
      BY <1>3, <2>1, <2>2, CloseOne DEF OutCloses, OutSend, Out
  <1>4. CASE OutError(f)
    BY <1>0, <1>4, CloseOne DEF OutError, Out
  <1> QED
    BY <1>1, <1>2, <1>3, <1>4

\* The loop is left.
LEMMA ClosingAll ==
  ASSUME TypeOK, TableInv, LeaveLoop
  PROVE  Closing({f \in Fd : connections[f] # NoConn})
  <1>1. PICK S \in SUBSET Fd : S = {f \in Fd : connections[f] # NoConn}
    OBVIOUS
  <1>2. /\ connections \in [Fd -> Entries] /\ answered \subseteq Clients
        /\ batch \in Batches
    BY DEF TypeOK
  <1>3. Close(connections, S)
    BY <1>1 DEF LeaveLoop
  <1>4. Closed(S) /\ CloseTypes
        /\ \A g \in Fd \ S : connections'[g] = connections[g]
    BY <1>2, <1>3, CloseFacts
  <1>5. cur = 0
    <2>1. batch.fd = [f \in Fd |-> NoEvents]
      BY DEF LeaveLoop, NoBatch
    <2>2. cur # 0 => cur \in Fd /\ batch.fd[cur].ev = {"out"}
      BY ServerAssumption DEF TypeOK, Fd
    <2> QED
      BY <2>1, <2>2, RecordTypes
  <1>6. BatchShrinks
    BY <1>2 DEF LeaveLoop, BatchShrinks
  <1>7. \A f \in S : connections[f].client \in Clients
    BY <1>1, ClientOf
  <1>8. /\ pc = "loop" /\ pc' = "drain" /\ event_fd' = FALSE
        /\ UNCHANGED <<config, g_shutdown, refusing, fileVars, backlog, cur, tasks,
                       job, answered>>
    BY DEF LeaveLoop
  <1>9. Closing(S)
    BY <1>1, <1>2, <1>4, <1>5, <1>6, <1>7, <1>8 DEF Closing, Kept
  <1> QED
    BY <1>1, <1>9

\* What the loop does when a worker has called it.
LEMMA ScanFacts ==
  ASSUME TypeOK, TableInv, ScanConnections
  PROVE  \E S \in SUBSET Fd : Closing(S) /\ Scanned(S)
  <1> DEFINE active == {f \in Fd : connections[f].active}
             IO(f)  == io[connections[f].client]
             failed == {f \in active : IO(f).werr}
             done   == {f \in active : ~IO(f).werr /\ isFinished(IO(f))
                                       /\ ~IO(f).pend}
             ready  == {f \in active \ (failed \cup done) : IO(f).pend}
             armed  == [f \in Fd |->
                          IF f \in ready
                          THEN Arm(connections[f],
                                   IF connections[f].body_complete THEN {"out"}
                                   ELSE {"in", "out"})
                          ELSE connections[f]]
  <1>1. /\ pc = "loop" /\ cur = 0 /\ event_fd' = FALSE
        /\ batch' = [batch EXCEPT !.event = FALSE]
        /\ UNCHANGED <<procVars, fileVars, backlog, cur, tasks, job, answered>>
    BY DEF ScanConnections
  <1>2. Close(armed, failed \cup done)
    BY DEF ScanConnections
  <1>3. connections \in [Fd -> Entries] /\ answered \subseteq Clients
    BY DEF TypeOK
  <1>4. PICK S \in SUBSET Fd : S = failed \cup done
    OBVIOUS
  <1>5. \A f \in Fd : f \in S <=> /\ connections[f].active
                                  /\ IO(f).werr \/ (isFinished(IO(f)) /\ ~IO(f).pend)
    BY <1>4
  <1>6. ASSUME NEW f \in Fd, NEW e \in {{"out"}, {"in", "out"}}
        PROVE  /\ Arm(connections[f], e) \in Entries
               /\ Arm(connections[f], e).client = connections[f].client
               /\ Arm(connections[f], e).active = connections[f].active
               /\ "out" \in Arm(connections[f], e).epoll_events
    <2>1. connections[f] \in Entries /\ e \in SUBSET {"in", "out"} /\ "out" \in e
      BY <1>3
    <2>2. Arm(connections[f], e) =
            [client |-> connections[f].client, active |-> connections[f].active,
             body_complete |-> connections[f].body_complete, epoll_events |-> e]
      BY <2>1 DEF Arm, Entries
    <2> QED
      BY <2>1, <2>2 DEF Entries
  <1>7. PICK table : table = armed
    OBVIOUS
  <1>8. ASSUME NEW f \in Fd
        PROVE  /\ table[f] \in Entries
               /\ table[f].client = connections[f].client
               /\ f \in ready => table[f].active /\ connections[f].active
                                 /\ "out" \in table[f].epoll_events
               /\ f \notin ready => table[f] = connections[f]
    <2>1. CASE f \in ready
      <3>1. PICK e \in {{"out"}, {"in", "out"}} : table[f] = Arm(connections[f], e)
        BY <1>7, <2>1
      <3>2. connections[f].active
        BY <2>1
      <3> QED
        BY <1>6, <2>1, <3>1, <3>2
    <2>2. CASE f \notin ready
      <3>1. table[f] = connections[f]
        BY <1>7, <2>2
      <3> QED
        BY <1>3, <2>2, <3>1
    <2> QED
      BY <2>1, <2>2
  <1>9. table \in [Fd -> Entries]
    BY <1>7, <1>8
  <1>10. Close(table, S)
    BY <1>2, <1>4, <1>7
  <1>11. Closed(S) /\ CloseTypes /\ \A f \in Fd \ S : connections'[f] = table[f]
    BY <1>8, <1>9, <1>10, CloseFacts
  <1>12. \A f \in S : connections[f].client \in Clients
    <2>1. \A f \in S : connections[f].active
      BY <1>5
    <2> QED
      BY <2>1, ClientOf, RecordTypes
  <1>13. BatchShrinks
    BY <1>1, FlagFacts
  <1>14. Kept(S)
    BY <1>8, <1>11 DEF Kept
  <1>15. \A f \in Fd \ S : connections[f].active /\ IO(f).pend => f \in ready
    BY <1>4
  <1>16. Scanned(S)
    BY <1>5, <1>8, <1>11, <1>15 DEF Scanned
  <1>17. Closing(S)
    BY <1>1, <1>3, <1>11, <1>12, <1>13, <1>14, <1>16 DEF Closing, procVars
  <1> QED
    BY <1>16, <1>17

\* A step on the connection of f, which stays open.
Stay(f) ==
  LET c == connections[f].client IN
  /\ pc = "loop" /\ connections[f] # NoConn /\ c \in Clients /\ sock[c] = "open"
  /\ UNCHANGED <<procVars, fileVars, sock, backlog, event_fd>>
  /\ connections' \in [Fd -> Entries] /\ connections'[f].client = c
  /\ \A g \in Fd \ {f} : connections'[g] = connections[g]
  /\ io' \in [Clients -> Bridges] /\ io'[c].rerr = io[c].rerr
  /\ io'[c].fin = io[c].fin /\ io'[c].werr = io[c].werr
  /\ \A d \in Clients \ {c} : io'[d] = io[d] /\ job'[d] = job[d] /\ req'[d] = req[d]
  /\ req' \in [Clients -> Requests] /\ req'[c].quit = req[c].quit
  /\ req'[c].got <= req'[c].sent /\ req'[c].sent = req[c].sent
  /\ BatchShrinks /\ "hup" \notin batch'.fd[f].ev
  /\ cur' \in 0..MaxFd /\ (cur' # 0 => batch'.fd[cur'].ev = {"out"})

\* The three kinds of such steps: something is received for a request that was
\* submitted, a request is submitted, and something is sent.
Received(f) ==
  LET c == connections[f].client IN
  /\ UNCHANGED <<tasks, job, answered>>
  /\ connections'[f].active = connections[f].active
  /\ io'[c].buf = io[c].buf /\ io'[c].pend = io[c].pend
  /\ "out" \in connections[f].epoll_events =>
       "out" \in connections'[f].epoll_events
  /\ io'[c] = io[c] \/ connections[f].active

Submitted(f) ==
  LET c == connections[f].client IN
  /\ ~connections[f].active /\ connections'[f].active
  /\ tasks' = Append(tasks, c) /\ UNCHANGED answered
  /\ job' = [job EXCEPT ![c] = "queued"]
  /\ io'[c].buf = io[c].buf /\ io'[c].pend = io[c].pend

Sent(f) ==
  LET c == connections[f].client IN
  /\ UNCHANGED <<tasks, job>>
  /\ connections[f].active /\ connections'[f].active
  /\ ~io'[c].buf /\ ~io'[c].fin
  /\ io'[c].pend <=> io[c].pend /\ ~io[c].buf
  /\ answered' = IF io[c].buf /\ job[c] # "more" THEN answered \cup {c}
                 ELSE answered

\* The entry when other events are waited for.
LEMMA ArmFacts ==
  ASSUME NEW k \in Entries, NEW e \in SUBSET {"in", "out"}
  PROVE  /\ Arm(k, e) \in Entries
         /\ Arm(k, e).client = k.client /\ Arm(k, e).active = k.active
         /\ Arm(k, e).epoll_events = e
         /\ [Arm(k, e) EXCEPT !.body_complete = TRUE] \in Entries
         /\ [Arm(k, e) EXCEPT !.body_complete = TRUE].client = k.client
         /\ [Arm(k, e) EXCEPT !.body_complete = TRUE].active = k.active
         /\ [Arm(k, e) EXCEPT !.body_complete = TRUE].epoll_events = e
  <1>1. PICK a : a = Arm(k, e)
    OBVIOUS
  <1>2. a = [client |-> k.client, active |-> k.active,
             body_complete |-> k.body_complete, epoll_events |-> e]
    BY <1>1 DEF Arm, Entries
  <1>3. a \in Entries /\ a.client = k.client /\ a.active = k.active
        /\ a.epoll_events = e
    BY <1>2 DEF Entries
  <1>4. [a EXCEPT !.body_complete = TRUE] \in Entries
        /\ [a EXCEPT !.body_complete = TRUE].client = a.client
        /\ [a EXCEPT !.body_complete = TRUE].active = a.active
        /\ [a EXCEPT !.body_complete = TRUE].epoll_events = a.epoll_events
    <2>1. a \in Entries
      BY <1>3
    <2> QED
      BY <2>1 DEF Entries
  <1> QED
    BY <1>1, <1>3, <1>4

\* Nothing is received, or the end of the stream.
LEMMA RecvNothingFacts ==
  ASSUME TypeOK, TableInv, NEW f \in Fd, RecvNothing(f)
  PROVE  Stay(f) /\ Received(f)
  <1>1. PICK k \in Entries, c \in Clients :
          k = connections[f] /\ c = k.client /\ sock[c] = "open" /\ k # NoConn
    BY ClientOf DEF RecvNothing, In
  <1>2. /\ pc = "loop" /\ AfterIn(f)
        /\ UNCHANGED <<procVars, fileVars, netVars, event_fd, tasks, job, answered>>
    BY DEF RecvNothing, In
  <1>3. /\ connections \in [Fd -> Entries] /\ io \in [Clients -> Bridges]
        /\ req \in [Clients -> Requests] /\ req[c].got <= req[c].sent
    BY DEF TypeOK
  <1>4. /\ connections' \in [Fd -> Entries] /\ connections'[f].client = c
        /\ \A g \in Fd \ {f} : connections'[g] = connections[g]
        /\ connections'[f].active = k.active
        /\ "out" \in k.epoll_events => "out" \in connections'[f].epoll_events
    <2>1. CASE UNCHANGED connections
      BY <1>1, <1>3, <2>1
    <2>2. CASE connections' = [connections EXCEPT
             ![f] = [Arm(k, k.epoll_events \ {"in"}) EXCEPT
                       !.body_complete = TRUE]]
      <3>1. PICK ev \in SUBSET {"in", "out"} : ev = k.epoll_events \ {"in"}
        BY <1>1 DEF Entries
      <3>2. PICK e : e = [Arm(k, ev) EXCEPT !.body_complete = TRUE]
        OBVIOUS
      <3>3. e \in Entries /\ e.client = c /\ e.active = k.active
            /\ e.epoll_events = ev
        BY <1>1, <3>2, ArmFacts
      <3> QED
        BY <1>1, <1>3, <2>2, <3>1, <3>2, <3>3
    <2> QED
      BY <1>1, <2>1, <2>2 DEF RecvNothing
  <1>5. /\ io' \in [Clients -> Bridges]
        /\ io'[c].rerr = io[c].rerr /\ io'[c].fin = io[c].fin
        /\ io'[c].werr = io[c].werr /\ io'[c].buf = io[c].buf
        /\ io'[c].pend = io[c].pend
        /\ \A d \in Clients \ {c} : io'[d] = io[d]
        /\ io'[c] = io[c] \/ k.active
    <2>1. CASE UNCHANGED io
      BY <1>3, <2>1
    <2>2. CASE k.active /\ io' = [io EXCEPT ![c].eof = TRUE]
      BY <1>3, <2>2 DEF Bridges
    <2> QED
      BY <1>1, <2>1, <2>2 DEF RecvNothing, FeedEof
  <1> QED
    BY <1>1, <1>2, <1>3, <1>4, <1>5, AfterInFacts DEF Stay, Received, netVars

\* What the client has sent is received.
LEMMA ReceivedRequest ==
  ASSUME req \in [Clients -> Requests], NEW c \in Clients,
         req' = [req EXCEPT ![c].got = req[c].sent]
  PROVE  /\ req' \in [Clients -> Requests] /\ req'[c].quit = req[c].quit
         /\ req'[c].got <= req'[c].sent /\ req'[c].sent = req[c].sent
         /\ \A d \in Clients \ {c} : req'[d] = req[d]
  <1>1. PICK r : r = [req[c] EXCEPT !.got = req[c].sent]
    OBVIOUS
  <1>2. req[c] \in Requests
    OBVIOUS
  <1>3. r = [sent |-> req[c].sent, got |-> req[c].sent, quit |-> req[c].quit,
             full |-> req[c].full, stalls |-> req[c].stalls]
    BY <1>1, <1>2 DEF Requests
  <1>4. r \in Requests /\ r.quit = req[c].quit /\ r.sent = req[c].sent
        /\ r.got <= r.sent
    BY <1>2, <1>3 DEF Requests
  <1>5. req' = [req EXCEPT ![c] = r]
    BY <1>1
  <1> QED
    BY <1>4, <1>5

\* The request is submitted.
LEMMA RecvHeadersFacts ==
  ASSUME TypeOK, TableInv, NEW f \in Fd, RecvHeaders(f)
  PROVE  Stay(f) /\ Submitted(f)
  <1>1. PICK k \in Entries, c \in Clients :
          k = connections[f] /\ c = k.client /\ sock[c] = "open" /\ k # NoConn
    BY ClientOf DEF RecvHeaders, In
  <1>2. /\ pc = "loop" /\ AfterIn(f) /\ ~k.active
        /\ tasks' = Append(tasks, c) /\ job' = [job EXCEPT ![c] = "queued"]
        /\ req' = [req EXCEPT ![c].got = req[c].sent]
        /\ UNCHANGED <<procVars, fileVars, sock, backlog, event_fd, answered>>
    BY <1>1 DEF RecvHeaders, In
  <1>3. /\ connections \in [Fd -> Entries] /\ io \in [Clients -> Bridges]
        /\ req \in [Clients -> Requests] /\ req[c].got <= req[c].sent
        /\ job \in [Clients -> {"none", "queued", "body", "respond", "more",
                                "finish", "done"}]
    BY DEF TypeOK
  <1>4. PICK whole \in BOOLEAN :
          /\ io' = [io EXCEPT ![c].fed = whole]
          /\ connections' = [connections EXCEPT
               ![f] = [k EXCEPT !.active = TRUE, !.body_complete = whole,
                                !.epoll_events = IF whole THEN {} ELSE @]]
    BY <1>1 DEF RecvHeaders
  <1>5. /\ connections' \in [Fd -> Entries] /\ connections'[f].client = c
        /\ \A g \in Fd \ {f} : connections'[g] = connections[g]
        /\ connections'[f].active
    <2>1. PICK e : e = [k EXCEPT !.active = TRUE, !.body_complete = whole,
                                 !.epoll_events = IF whole THEN {} ELSE @]
      OBVIOUS
    <2>2. e = [client |-> k.client, active |-> TRUE, body_complete |-> whole,
               epoll_events |-> IF whole THEN {} ELSE k.epoll_events]
      BY <2>1 DEF Entries
    <2>3. e \in Entries /\ e.client = c /\ e.active
      BY <1>1, <2>2 DEF Entries
    <2>4. connections' = [connections EXCEPT ![f] = e]
      BY <1>4, <2>1
    <2> QED
      BY <1>3, <2>3, <2>4
  <1>6. /\ io' \in [Clients -> Bridges]
        /\ io'[c].rerr = io[c].rerr /\ io'[c].fin = io[c].fin
        /\ io'[c].werr = io[c].werr /\ io'[c].buf = io[c].buf
        /\ io'[c].pend = io[c].pend
        /\ \A d \in Clients \ {c} : io'[d] = io[d]
    BY <1>3, <1>4 DEF Bridges
  <1>7. /\ req' \in [Clients -> Requests] /\ req'[c].quit = req[c].quit
        /\ req'[c].got <= req'[c].sent /\ req'[c].sent = req[c].sent
        /\ \A d \in Clients \ {c} : req'[d] = req[d]
    BY <1>2, <1>3, ReceivedRequest
  <1>8. \A d \in Clients \ {c} : job'[d] = job[d]
    BY <1>2, <1>3
  <1> QED
    BY <1>1, <1>2, <1>5, <1>6, <1>7, <1>8, AfterInFacts DEF Stay, Submitted

\* The body is received.
LEMMA RecvBodyFacts ==
  ASSUME TypeOK, TableInv, NEW f \in Fd, RecvBody(f)
  PROVE  Stay(f) /\ Received(f)
  <1>1. PICK k \in Entries, c \in Clients :
          k = connections[f] /\ c = k.client /\ sock[c] = "open" /\ k # NoConn
    BY ClientOf DEF RecvBody, In
  <1>2. /\ pc = "loop" /\ AfterIn(f) /\ k.active
        /\ req' = [req EXCEPT ![c].got = req[c].sent]
        /\ io' = [io EXCEPT ![c].fed = TRUE, ![c].eof = TRUE]
        /\ connections' = [connections EXCEPT
             ![f] = [Arm(k, k.epoll_events \ {"in"}) EXCEPT
                       !.body_complete = TRUE]]
        /\ UNCHANGED <<procVars, fileVars, sock, backlog, event_fd, tasks, job,
                       answered>>
    BY <1>1 DEF RecvBody, In
  <1>3. /\ connections \in [Fd -> Entries] /\ io \in [Clients -> Bridges]
        /\ req \in [Clients -> Requests] /\ req[c].got <= req[c].sent
    BY DEF TypeOK
  <1>4. /\ connections' \in [Fd -> Entries] /\ connections'[f].client = c
        /\ \A g \in Fd \ {f} : connections'[g] = connections[g]
        /\ connections'[f].active
        /\ "out" \in k.epoll_events => "out" \in connections'[f].epoll_events
    <2>1. PICK ev \in SUBSET {"in", "out"} : ev = k.epoll_events \ {"in"}
      BY <1>1 DEF Entries
    <2>2. PICK e : e = [Arm(k, ev) EXCEPT !.body_complete = TRUE]
      OBVIOUS
    <2>3. e \in Entries /\ e.client = c /\ e.active = k.active
          /\ e.epoll_events = ev
      BY <1>1, <2>2, ArmFacts
    <2> QED
      BY <1>1, <1>2, <1>3, <2>1, <2>2, <2>3
  <1>5. /\ io' \in [Clients -> Bridges]
        /\ io'[c].rerr = io[c].rerr /\ io'[c].fin = io[c].fin
        /\ io'[c].werr = io[c].werr /\ io'[c].buf = io[c].buf
        /\ io'[c].pend = io[c].pend
        /\ \A d \in Clients \ {c} : io'[d] = io[d]
    BY <1>2, <1>3 DEF Bridges
  <1>6. /\ req' \in [Clients -> Requests] /\ req'[c].quit = req[c].quit
        /\ req'[c].got <= req'[c].sent /\ req'[c].sent = req[c].sent
        /\ \A d \in Clients \ {c} : req'[d] = req[d]
    BY <1>2, <1>3, ReceivedRequest
  <1> QED
    BY <1>1, <1>2, <1>4, <1>5, <1>6, AfterInFacts DEF Stay, Received

\* Something is sent, or there is nothing to send.
LEMMA OutStaysFacts ==
  ASSUME TypeOK, TableInv, NEW f \in Fd, OutStays(f)
  PROVE  Stay(f) /\ Sent(f)
  <1>1. PICK k \in Entries, c \in Clients :
          k = connections[f] /\ c = k.client /\ sock[c] = "open" /\ k # NoConn
    BY ClientOf DEF OutStays, OutSend, Out
  <1>2. PICK b : b = [io[c] EXCEPT !.buf = FALSE, !.pend = @ /\ ~io[c].buf]
    OBVIOUS
  <1>3. /\ pc = "loop" /\ batch' = Handled(f) /\ cur' = 0 /\ k.active
        /\ answered' = IF io[c].buf /\ job[c] # "more" THEN answered \cup {c}
                       ELSE answered
        /\ UNCHANGED <<procVars, fileVars, backlog, event_fd, tasks, job, sock, req>>
        /\ connections' = [connections EXCEPT
             ![f] = Arm(k, IF k.body_complete THEN {} ELSE {"in"})]
    BY <1>1 DEF OutStays, OutSend, Out
  <1>4. ~isFinished(b) /\ io' = [io EXCEPT ![c] = b]
    BY <1>1, <1>2 DEF OutStays
  <1>5. /\ connections \in [Fd -> Entries] /\ io \in [Clients -> Bridges]
        /\ req \in [Clients -> Requests] /\ req[c].got <= req[c].sent
    BY DEF TypeOK
  <1>6. /\ connections' \in [Fd -> Entries] /\ connections'[f].client = c
        /\ \A g \in Fd \ {f} : connections'[g] = connections[g]
        /\ connections'[f].active
    <2>1. PICK e \in SUBSET {"in", "out"} :
            e = IF k.body_complete THEN {} ELSE {"in"}
      OBVIOUS
    <2>2. Arm(k, e) \in Entries /\ Arm(k, e).client = c /\ Arm(k, e).active
      BY <1>1, <1>3, ArmFacts
    <2> QED
      BY <1>3, <1>5, <2>1, <2>2
  <1>7. /\ b \in Bridges /\ ~b.buf /\ b.fin = io[c].fin /\ b.werr = io[c].werr
        /\ b.rerr = io[c].rerr /\ (b.pend <=> io[c].pend /\ ~io[c].buf)
    <2>1. b = [fed |-> io[c].fed, eof |-> io[c].eof, rerr |-> io[c].rerr,
               buf |-> FALSE, pend |-> (io[c].pend /\ ~io[c].buf),
               fin |-> io[c].fin, werr |-> io[c].werr]
      BY <1>2, <1>5 DEF Bridges
    <2> QED
      BY <1>5, <2>1 DEF Bridges
  <1>8. ~b.fin
    BY <1>4, <1>7 DEF isFinished
  <1>9. io' \in [Clients -> Bridges] /\ io'[c] = b
        /\ \A d \in Clients \ {c} : io'[d] = io[d]
    BY <1>4, <1>5, <1>7
  <1> QED
    BY <1>1, <1>3, <1>5, <1>6, <1>7, <1>8, <1>9, HandledFacts, RecordTypes,
       ServerAssumption DEF Stay, Sent

\* The socket does not take all of the data.
LEMMA OutBlockedFacts ==
  ASSUME TypeOK, TableInv, NEW f \in Fd, OutBlocked(f)
  PROVE  Stay(f) /\ Received(f)
  <1>1. PICK k \in Entries, c \in Clients :
          k = connections[f] /\ c = k.client /\ sock[c] = "open" /\ k # NoConn
    BY ClientOf DEF OutBlocked, Out
  <1>2. /\ pc = "loop" /\ batch' = Handled(f) /\ cur' = 0
        /\ req[c].stalls < MaxStalls
        /\ req' = [req EXCEPT ![c].full = TRUE, ![c].stalls = @ + 1]
        /\ connections' = [connections EXCEPT ![f] = @]
        /\ UNCHANGED <<procVars, fileVars, sock, backlog, event_fd, workVars,
                       answered>>
    BY <1>1 DEF OutBlocked, Out, Unfinished
  <1>3. /\ connections \in [Fd -> Entries] /\ io \in [Clients -> Bridges]
        /\ req \in [Clients -> Requests] /\ req[c].got <= req[c].sent
    BY DEF TypeOK
  <1>4. connections' = connections
    BY <1>2, <1>3
  <1>5. req[c].stalls + 1 \in 0..MaxStalls
    BY <1>2, <1>3, ServerAssumption DEF Requests
  <1>6. /\ req' \in [Clients -> Requests] /\ req'[c].quit = req[c].quit
        /\ req'[c].got = req[c].got /\ req'[c].sent = req[c].sent
        /\ \A d \in Clients \ {c} : req'[d] = req[d]
    BY <1>2, <1>3, <1>5 DEF Requests
  <1> QED
    BY <1>1, <1>2, <1>3, <1>4, <1>6, HandledFacts, RecordTypes, ServerAssumption
       DEF Stay, Received, workVars

\* Steps outside the loop, and other instances.
Quiet ==
  /\ UNCHANGED <<netVars, loopVars, workVars, answered, config>>
  /\ pc' = pc \/ pc # "loop"

QuietStep ==
  StartStep \/ Drain \/ Cleanup \/ OtherUnlink \/ OtherBind \/ Signal

\* What such a step leaves alone.
LEMMA QuietFacts ==
  ASSUME QuietStep
  PROVE  Quiet
  BY DEF QuietStep, Quiet, StartStep, Construct, RemoveStale, Bind, Listen,
     Setup, StartFails, FailedExit, Drain, Cleanup, OtherUnlink, OtherBind,
     Signal, Goto, procVars

\* A step of the worker of c's request.
Jobs == {"none", "queued", "body", "respond", "more", "finish", "done"}
Work(c) ==
  /\ UNCHANGED <<procVars, fileVars, netVars, connections, batch, cur, answered>>
  /\ io' \in [Clients -> Bridges] /\ job' \in [Clients -> Jobs]
  /\ \A d \in Clients \ {c} : io'[d] = io[d] /\ job'[d] = job[d]
  /\ event_fd' \in BOOLEAN /\ (event_fd => event_fd')
  /\ io'[c] # io[c] /\ pc = "loop" => event_fd'

\* The kinds of such steps.
Begins(c) ==
  /\ tasks # <<>> /\ c = Head(tasks) /\ tasks' = Tail(tasks)
  /\ UNCHANGED io /\ job'[c] \in {"body", "respond"}
Reads(c) ==
  UNCHANGED <<tasks, io>> /\ job[c] = "body" /\ job'[c] = "respond"
Responds(c) ==
  /\ UNCHANGED tasks
  /\ job[c] \in {"respond", "more"} /\ job'[c] \in {"more", "finish"}
  /\ io'[c].fin = io[c].fin /\ io'[c].werr = io[c].werr /\ io'[c].rerr = io[c].rerr
  /\ IF io[c].werr THEN io'[c] = io[c] ELSE io'[c].buf /\ io'[c].pend
Ends(c) ==
  /\ UNCHANGED tasks /\ job[c] \in {"body", "respond", "finish"}
  /\ job'[c] = "done"
  /\ sock[c] # "closed" =>
       /\ io'[c].fin /\ io'[c].buf = io[c].buf /\ io'[c].pend = io[c].pend
       /\ io'[c].werr \/ (io'[c].werr = io[c].werr /\ job[c] = "finish")

\* Every step of a worker is one of these.
LEMMA WorkFacts ==
  ASSUME TypeOK, NEW c \in Clients, WorkerStep(c)
  PROVE  Work(c) /\ (Begins(c) \/ Reads(c) \/ Responds(c) \/ Ends(c))
  <1>1. /\ io \in [Clients -> Bridges] /\ job \in [Clients -> Jobs]
        /\ event_fd \in BOOLEAN
    BY DEF TypeOK, Jobs
  <1>2. CASE Begin(c)
    <2>1. PICK place \in {"body", "respond"} : job' = [job EXCEPT ![c] = place]
      BY <1>2 DEF Begin
    <2>2. /\ job' \in [Clients -> Jobs] /\ job'[c] \in {"body", "respond"}
          /\ \A d \in Clients \ {c} : job'[d] = job[d]
      BY <1>1, <2>1 DEF Jobs
    <2>3. /\ tasks # <<>> /\ c = Head(tasks) /\ tasks' = Tail(tasks)
          /\ UNCHANGED <<procVars, fileVars, netVars, connections, batch, cur,
                         event_fd, io, answered>>
      BY <1>2 DEF Begin
    <2> QED
      BY <1>1, <2>2, <2>3 DEF Work, Begins
  <1>3. CASE ReadBody(c)
    <2>1. /\ job[c] = "body" /\ job' = [job EXCEPT ![c] = "respond"]
          /\ UNCHANGED <<procVars, fileVars, netVars, loopVars, io, tasks, answered>>
      BY <1>3 DEF ReadBody
    <2> QED
      BY <1>1, <2>1 DEF Work, Reads, Jobs, loopVars
  <1>4. CASE Abort(c)
    <2>1. PICK b : b = IF sock[c] = "closed" THEN NoIO
                       ELSE [io[c] EXCEPT !.werr = TRUE, !.fin = TRUE]
      OBVIOUS
    <2>2. /\ b \in Bridges
          /\ sock[c] # "closed" => /\ b.fin /\ b.werr /\ b.buf = io[c].buf
                                   /\ b.pend = io[c].pend
      <3>1. CASE sock[c] = "closed"
        BY <2>1, <3>1, RecordTypes
      <3>2. CASE sock[c] # "closed"
        <4>1. b = [fed |-> io[c].fed, eof |-> io[c].eof, rerr |-> io[c].rerr,
                   buf |-> io[c].buf, pend |-> io[c].pend, fin |-> TRUE,
                   werr |-> TRUE]
          BY <1>1, <2>1, <3>2 DEF Bridges
        <4> QED
          BY <1>1, <3>2, <4>1 DEF Bridges
      <3> QED
        BY <3>1, <3>2
    <2>3. /\ io' = [io EXCEPT ![c] = b] /\ job' = [job EXCEPT ![c] = "done"]
          /\ event_fd' = (event_fd \/ pc = "loop")
          /\ job[c] \in {"body", "respond", "finish"}
          /\ UNCHANGED <<procVars, fileVars, netVars, connections, batch, cur,
                         tasks, answered>>
      BY <1>4, <2>1 DEF Abort, Notify
    <2> QED
      BY <1>1, <2>2, <2>3 DEF Work, Ends, Jobs
  <1>5. CASE Respond(c)
    <2>0. PICK place \in {"more", "finish"} : job' = [job EXCEPT ![c] = place]
      BY <1>5 DEF Respond
    <2>1. /\ job[c] \in {"respond", "more"} /\ job' \in [Clients -> Jobs]
          /\ job'[c] \in {"more", "finish"}
          /\ \A d \in Clients \ {c} : job'[d] = job[d]
      BY <1>1, <1>5, <2>0 DEF Respond, Jobs
    <2>4. UNCHANGED <<procVars, fileVars, netVars, connections, batch, cur, tasks,
                      answered>>
      BY <1>5 DEF Respond
    <2>2. CASE io[c].werr
      <3>1. UNCHANGED <<io, event_fd>>
        BY <1>5, <2>2 DEF Respond
      <3> QED
        BY <1>1, <2>1, <2>2, <2>4, <3>1 DEF Work, Responds
    <2>3. CASE ~io[c].werr
      <3>1. io' = [io EXCEPT ![c].buf = TRUE, ![c].pend = TRUE]
            /\ event_fd' = (event_fd \/ pc = "loop")
        BY <1>5, <2>3 DEF Respond, Notify
      <3>2. /\ io' \in [Clients -> Bridges]
            /\ io'[c].buf /\ io'[c].pend /\ io'[c].fin = io[c].fin
            /\ io'[c].werr = io[c].werr /\ io'[c].rerr = io[c].rerr
            /\ \A d \in Clients \ {c} : io'[d] = io[d]
        BY <1>1, <3>1 DEF Bridges
      <3> QED
        BY <1>1, <2>1, <2>3, <2>4, <3>1, <3>2 DEF Work, Responds
    <2> QED
      BY <2>2, <2>3
  <1>6. CASE Finish(c)
    <2>1. PICK b : b = IF sock[c] = "closed" THEN NoIO
                       ELSE [io[c] EXCEPT !.fin = TRUE]
      OBVIOUS
    <2>2. /\ b \in Bridges
          /\ sock[c] # "closed" => /\ b.fin /\ b.werr = io[c].werr
                                   /\ b.buf = io[c].buf /\ b.pend = io[c].pend
      <3>1. CASE sock[c] = "closed"
        BY <2>1, <3>1, RecordTypes
      <3>2. CASE sock[c] # "closed"
        BY <1>1, <2>1, <3>2 DEF Bridges
      <3> QED
        BY <3>1, <3>2
    <2>3. /\ io' = [io EXCEPT ![c] = b] /\ job' = [job EXCEPT ![c] = "done"]
          /\ event_fd' = (event_fd \/ pc = "loop") /\ job[c] = "finish"
          /\ UNCHANGED <<procVars, fileVars, netVars, connections, batch, cur,
                         tasks, answered>>
      BY <1>6, <2>1 DEF Finish, Notify
    <2> QED
      BY <1>1, <2>2, <2>3 DEF Work, Ends, Jobs
  <1> QED
    BY <1>2, <1>3, <1>4, <1>5, <1>6 DEF WorkerStep

\* The connections of the first n clients of the backlog are accepted.
Accepted(n) ==
  /\ n \in 0..Len(backlog)
  /\ pc = "loop" /\ connections' \in [Fd -> Entries] /\ BatchShrinks
  /\ UNCHANGED <<procVars, fileVars, req, cur, event_fd, workVars, answered>>
  /\ batch'.fd = batch.fd
  /\ backlog' = SubSeq(backlog, n + 1, Len(backlog))
  /\ sock' \in [Clients -> {"none", "backlog", "open", "closed"}]
  /\ \A c \in Clients :
       sock'[c] = IF \E k \in 1..n : backlog[k] = c THEN "open" ELSE sock[c]
  /\ \A f \in Fd :
       \/ connections'[f] = connections[f]
       \/ /\ connections[f] = NoConn
          /\ \E k \in 1..n : connections'[f] = NewConn(backlog[k])
  /\ \A k \in 1..n : \E f \in Fd :
       /\ connections[f] = NoConn /\ connections'[f] = NewConn(backlog[k])
       /\ \A g \in Fd : connections'[g] = NewConn(backlog[k]) =>
            g = f \/ connections'[g] = connections[g]

\* Accept takes as many connections as there are free descriptors for.
LEMMA AcceptFacts ==
  ASSUME TypeOK, BacklogInv, Accept
  PROVE  \E n \in 0..Len(backlog) : Accepted(n)
  <1>1. /\ backlog \in Seq(Clients) /\ Len(backlog) \in Nat
        /\ connections \in [Fd -> Entries]
        /\ sock \in [Clients -> {"none", "backlog", "open", "closed"}]
        /\ config.limit \in Fd
    BY DEF TypeOK
  <1>2. PICK free \in SUBSET (1..MaxFd) :
          free = {f \in 1..config.limit : connections[f] = NoConn}
    <2>1. config.limit \in Nat /\ config.limit <= MaxFd /\ MaxFd \in Nat
      BY <1>1, ServerAssumption DEF Fd
    <2>2. 1..config.limit \subseteq 1..MaxFd
      BY <2>1
    <2> QED
      BY <2>2
  <1>3. /\ Cardinality(free) \in Nat
        /\ \A x \in free : Nth(free, x) \in 1..Cardinality(free)
        /\ \A x, y \in free : Nth(free, x) = Nth(free, y) => x = y
        /\ \A k \in 1..Cardinality(free) : \E x \in free : Nth(free, x) = k
    BY ServerAssumption, Places
  <1>4. PICK n \in 0..Len(backlog) :
          /\ n = IF Len(backlog) <= Cardinality(free) THEN Len(backlog)
                 ELSE Cardinality(free)
          /\ n <= Cardinality(free)
    BY <1>1, <1>3
  <1>5. /\ pc = "loop" /\ batch' = [batch EXCEPT !.listen = FALSE]
        /\ connections' = [f \in Fd |->
             IF f \in free /\ Nth(free, f) <= n
             THEN NewConn(backlog[Nth(free, f)]) ELSE connections[f]]
        /\ sock' = [c \in Clients |->
             IF \E k \in 1..n : backlog[k] = c THEN "open" ELSE sock[c]]
        /\ backlog' = SubSeq(backlog, n + 1, Len(backlog))
        /\ UNCHANGED <<procVars, fileVars, req, cur, event_fd, workVars, answered>>
    BY <1>2, <1>4 DEF Accept
  <1>6. \A k \in 1..n : backlog[k] \in Clients /\ k \in 1..Len(backlog)
    BY <1>1
  <1>7. \A f \in Fd : f \in free =>
          /\ connections[f] = NoConn
          /\ Nth(free, f) <= n => Nth(free, f) \in 1..n
    BY <1>2, <1>3
  <1>8. ASSUME NEW f \in Fd
        PROVE  connections'[f] \in Entries
    <2>1. CASE f \in free /\ Nth(free, f) <= n
      BY <1>5, <1>6, <1>7, <2>1, NewConnType
    <2>2. CASE ~(f \in free /\ Nth(free, f) <= n)
      BY <1>1, <1>5, <2>2
    <2> QED
      BY <2>1, <2>2
  <1>9. connections' \in [Fd -> Entries]
    BY <1>5, <1>8
  <1>10. sock' \in [Clients -> {"none", "backlog", "open", "closed"}]
    BY <1>1, <1>5
  <1>11. ASSUME NEW f \in Fd
         PROVE  \/ connections'[f] = connections[f]
                \/ /\ connections[f] = NoConn
                   /\ \E k \in 1..n : connections'[f] = NewConn(backlog[k])
    BY <1>5, <1>7
  <1>12. ASSUME NEW k \in 1..n
         PROVE  \E f \in Fd :
                  /\ connections[f] = NoConn
                  /\ connections'[f] = NewConn(backlog[k])
                  /\ \A g \in Fd : connections'[g] = NewConn(backlog[k]) =>
                       g = f \/ connections'[g] = connections[g]
    <2>1. PICK f \in free : Nth(free, f) = k
      BY <1>3, <1>4
    <2>2. f \in Fd
      BY <1>2 DEF Fd
    <2>3. connections[f] = NoConn /\ connections'[f] = NewConn(backlog[k])
      BY <1>5, <1>7, <2>1, <2>2
    <2>4. ASSUME NEW g \in Fd, connections'[g] = NewConn(backlog[k]),
                 connections'[g] # connections[g]
          PROVE  g = f
      <3>1. g \in free /\ Nth(free, g) <= n
            /\ connections'[g] = NewConn(backlog[Nth(free, g)])
        BY <1>5, <2>4
      <3>2. Nth(free, g) \in 1..n
        BY <1>7, <3>1
      <3>3. backlog[Nth(free, g)] = backlog[k]
        BY <1>6, <2>4, <3>1, <3>2, NewConnType
      <3>4. Nth(free, g) = k
        BY <1>6, <3>2, <3>3 DEF BacklogInv, Lists
      <3> QED
        BY <1>3, <2>1, <3>1, <3>4
    <2> QED
      BY <2>2, <2>3, <2>4
  <1>13. BatchShrinks /\ batch'.fd = batch.fd
    BY <1>5, FlagFacts
  <1>14. Accepted(n)
    BY <1>5, <1>9, <1>10, <1>11, <1>12, <1>13 DEF Accepted
  <1> QED
    BY <1>14

\* What a client does on its connection.
ClientOwn(c) == ClientSend(c) \/ ClientRead(c) \/ ClientQuit(c)

\* The kinds of steps of the server.
Step ==
  \/ QuietStep
  \/ \E c \in Clients : Connect(c) \/ ClientOwn(c)
  \/ EpollWait \/ AcceptUnwatched \/ Destroy
  \/ \E n \in 0..Len(backlog) : Accepted(n)
  \/ \E f \in Fd : Skip(f) \/ OutNoBridge(f)
  \/ \E S \in SUBSET Fd : Closing(S)
  \/ \E f \in Fd : Stay(f) /\ (Received(f) \/ Submitted(f) \/ Sent(f))
  \/ \E c \in Clients :
       Work(c) /\ (Begins(c) \/ Reads(c) \/ Responds(c) \/ Ends(c))

\* Every step of the server is one of these kinds.
LEMMA StepKinds ==
  ASSUME TypeOK, TableInv, BacklogInv, Next
  PROVE  Step
  <1>1. CASE StartStep \/ EndStep \/ OtherUnlink \/ OtherBind \/ Signal
    BY <1>1 DEF EndStep, Step, QuietStep
  <1>2. CASE EpollFails \/ ExitLoop
    <2>1. LeaveLoop
      BY <1>2 DEF EpollFails, ExitLoop
    <2>2. PICK S \in SUBSET Fd : S = {f \in Fd : connections[f] # NoConn}
      OBVIOUS
    <2>3. Closing(S)
      BY <2>1, <2>2, ClosingAll
    <2> QED
      BY <2>3 DEF Step
  <1>3. CASE EpollWait \/ AcceptUnwatched
    BY <1>3 DEF Step
  <1>4. CASE Accept
    BY <1>4, AcceptFacts DEF Step
  <1>5. CASE ScanConnections
    BY <1>5, ScanFacts DEF Step
  <1>6. ASSUME NEW f \in Fd, Skip(f) \/ OutNoBridge(f) PROVE Step
    BY <1>6 DEF Step
  <1>7. ASSUME NEW f \in Fd, HangUp(f) \/ RecvClose(f) \/ OutError(f) PROVE Step
    <2>1. Closing({f}) /\ {f} \in SUBSET Fd
      BY <1>7, ClosingOne
    <2> QED
      BY <2>1 DEF Step
  <1>8. ASSUME NEW f \in Fd, RecvNothing(f) \/ RecvHeaders(f) \/ RecvBody(f)
        PROVE  Step
    <2>1. Stay(f) /\ (Received(f) \/ Submitted(f))
      BY <1>8, RecvNothingFacts, RecvHeadersFacts, RecvBodyFacts
    <2> QED
      BY <2>1 DEF Step
  <1>9. ASSUME NEW f \in Fd, OutSend(f) PROVE Step
    <2>1. OutCloses(f) \/ OutStays(f)
      BY <1>9 DEF OutCloses, OutStays, OutSend
    <2>2. CASE OutCloses(f)
      <3>1. Closing({f}) /\ {f} \in SUBSET Fd
        BY <2>2, ClosingOne
      <3> QED
        BY <3>1 DEF Step
    <2>3. CASE OutStays(f)
      <3>1. Stay(f) /\ Sent(f)
        BY <2>3, OutStaysFacts
      <3> QED
        BY <3>1 DEF Step
    <2> QED
      BY <2>1, <2>2, <2>3
  <1>10. ASSUME NEW c \in Clients, Connect(c) \/ ClientOwn(c)
         PROVE  Step
    BY <1>10 DEF Step
  <1>11. ASSUME NEW f \in Fd, OutBlocked(f) PROVE Step
    <2>1. Stay(f) /\ Received(f)
      BY <1>11, OutBlockedFacts
    <2> QED
      BY <2>1 DEF Step
  <1>12. ASSUME NEW c \in Clients, WorkerStep(c) PROVE Step
    <2>1. Work(c) /\ (Begins(c) \/ Reads(c) \/ Responds(c) \/ Ends(c))
      BY <1>12, WorkFacts
    <2> QED
      BY <2>1 DEF Step
  <1> QED
    BY <1>1, <1>2, <1>3, <1>4, <1>5, <1>6, <1>7, <1>8, <1>9, <1>10, <1>11,
       <1>12 DEF Next, LoopStep, ClientOwn

\* The first client of the backlog.
LEMMA FirstInBacklog ==
  ASSUME TypeOK, BacklogInv, backlog # <<>>
  PROVE  /\ Head(backlog) \in Clients /\ sock[Head(backlog)] = "backlog"
         /\ Lists(Tail(backlog),
                  {c \in Clients : sock[c] = "backlog"} \ {Head(backlog)})
  <1>1. PICK S : S = {c \in Clients : sock[c] = "backlog"}
    OBVIOUS
  <1>2. Lists(backlog, S) /\ backlog \in Seq(Clients)
    BY <1>1 DEF BacklogInv, TypeOK
  <1>3. Head(backlog) \in S /\ Lists(Tail(backlog), S \ {Head(backlog)})
    BY <1>2, ListsTail
  <1> QED
    BY <1>1, <1>3

\* The first request of the queue.
LEMMA FirstInQueue ==
  ASSUME TypeOK, QueueInv, tasks # <<>>
  PROVE  /\ Head(tasks) \in Clients /\ job[Head(tasks)] = "queued"
         /\ Lists(Tail(tasks),
                  {c \in Clients : job[c] = "queued"} \ {Head(tasks)})
  <1>1. PICK S : S = {c \in Clients : job[c] = "queued"}
    OBVIOUS
  <1>2. Lists(tasks, S) /\ tasks \in Seq(Clients)
    BY <1>1 DEF QueueInv, TypeOK
  <1>3. Head(tasks) \in S /\ Lists(Tail(tasks), S \ {Head(tasks)})
    BY <1>2, ListsTail
  <1> QED
    BY <1>1, <1>3

----------------------------------------------------------------------------
(* Every step keeps the invariant *)

\* The types.
LEMMA TypeStep ==
  ASSUME TypeOK, TableInv, BacklogInv, Step
  PROVE  TypeOK'
  <1> USE DEF procVars, fileVars, netVars, loopVars, workVars
  <1>1. CASE QuietStep
    <2>1. /\ pc' \in {"construct", "unlink", "bind", "listen", "setup", "loop",
                      "drain", "destroy", "cleanup", "failed", "exited"}
          /\ file' \in {"none", "stale", "mine", "theirs"}
          /\ meddled' \in 0..MaxMeddle
      BY <1>1, ServerAssumption DEF QuietStep, StartStep, Construct,
         RemoveStale, Bind, Listen, Setup, StartFails, FailedExit, Drain,
         Cleanup, OtherUnlink, OtherBind, Signal, Goto, Unlink, MayMeddle,
         TypeOK
    <2>2. g_shutdown' \in BOOLEAN /\ refusing' \in BOOLEAN /\ robbed' \in BOOLEAN
      BY <1>1, Zenon DEF QuietStep, StartStep, Construct, RemoveStale, Bind,
         Listen, Setup, StartFails, FailedExit, Drain, Cleanup, OtherUnlink,
         OtherBind, Signal, Goto, Listening, TypeOK
    <2>3. Quiet
      BY <1>1, QuietFacts
    <2> QED
      BY <2>1, <2>2, <2>3 DEF Quiet, TypeOK, Pieces
  <1>2. ASSUME NEW c \in Clients, Connect(c) PROVE TypeOK'
    BY <1>2 DEF Connect, TypeOK, Pieces
  <1>3. ASSUME NEW c \in Clients, ClientSend(c) PROVE TypeOK'
    <2>1. /\ req \in [Clients -> Requests] /\ req[c].sent < Pieces(c)
          /\ req' = [req EXCEPT ![c].sent = @ + 1]
          /\ UNCHANGED <<procVars, fileVars, sock, backlog, loopVars, workVars,
                         answered>>
      BY <1>3 DEF ClientSend, TypeOK
    <2>2. Pieces(c) \in {1, 2} /\ req[c].sent \in 0..2 /\ req[c].got \in 0..2
          /\ req[c].got <= req[c].sent
      BY <2>1 DEF Pieces, Requests, TypeOK
    <2>3. req[c].sent + 1 \in 0..2 /\ req[c].sent + 1 <= Pieces(c)
          /\ req[c].got <= req[c].sent + 1
      BY <2>1, <2>2
    <2>4. /\ req' \in [Clients -> Requests]
          /\ req'[c].sent = req[c].sent + 1 /\ req'[c].got = req[c].got
          /\ \A d \in Clients \ {c} : req'[d] = req[d]
      BY <2>1, <2>3 DEF Requests
    <2>5. \A d \in Clients : req'[d].got <= req'[d].sent
                             /\ req'[d].sent <= Pieces(d)
      BY <2>3, <2>4 DEF TypeOK
    <2> QED
      BY <2>1, <2>4, <2>5 DEF TypeOK, Pieces
  <1>4. ASSUME NEW c \in Clients, ClientRead(c) \/ ClientQuit(c) PROVE TypeOK'
    <2>1. \/ req' = [req EXCEPT ![c].full = FALSE]
          \/ \E q \in {"fin", "reset"} : req' = [req EXCEPT ![c].quit = q]
      BY <1>4 DEF ClientRead, ClientQuit
    <2>2. req \in [Clients -> Requests]
          /\ UNCHANGED <<procVars, fileVars, sock, backlog, loopVars, workVars,
                         answered>>
      BY <1>4 DEF ClientRead, ClientQuit, TypeOK
    <2>3. /\ req' \in [Clients -> Requests]
          /\ \A d \in Clients : req'[d].sent = req[d].sent
                                /\ req'[d].got = req[d].got
      <3>1. CASE req' = [req EXCEPT ![c].full = FALSE]
        BY <2>2, <3>1 DEF Requests
      <3>2. ASSUME NEW q \in {"fin", "reset"}, req' = [req EXCEPT ![c].quit = q]
            PROVE  /\ req' \in [Clients -> Requests]
                   /\ \A d \in Clients : req'[d].sent = req[d].sent
                                         /\ req'[d].got = req[d].got
        BY <2>2, <3>2 DEF Requests
      <3> QED
        BY <2>1, <3>1, <3>2
    <2> QED
      BY <2>2, <2>3 DEF TypeOK, Pieces
  <1>5. CASE EpollWait
    <2>1. /\ batch' = ReadyBatch /\ batch = NoBatch
          /\ UNCHANGED <<procVars, fileVars, netVars, connections, cur, event_fd,
                         workVars, answered>>
      BY <1>5 DEF EpollWait
    <2>2. ASSUME NEW f \in Fd PROVE ReadyBatch.fd[f] \in Events
      <3>1. connections[f] \in Entries
        BY DEF TypeOK
      <3>2. Ready(f) \in SUBSET {"in", "out", "hup"}
        BY <3>1 DEF Ready, Entries
      <3>3. ReadyBatch.fd[f] = NoEvents \/
            ReadyBatch.fd[f] = [client |-> connections[f].client, ev |-> Ready(f)]
        BY DEF ReadyBatch
      <3> QED
        BY <3>1, <3>2, <3>3, RecordTypes DEF Events, Entries
    <2>3. ReadyBatch \in Batches
      <3>1. ReadyBatch = [listen |-> ReadyBatch.listen, event |-> ReadyBatch.event,
                          fd |-> ReadyBatch.fd]
        BY DEF ReadyBatch
      <3>2. ReadyBatch.listen \in BOOLEAN /\ ReadyBatch.event \in BOOLEAN
        BY DEF ReadyBatch, TypeOK
      <3>3. ReadyBatch.fd \in [Fd -> Events]
        BY <2>2 DEF ReadyBatch
      <3> QED
        BY <3>1, <3>2, <3>3 DEF Batches
    <2>4. cur = 0
      <3>1. batch.fd = [f \in Fd |-> NoEvents]
        BY <2>1 DEF NoBatch
      <3>2. cur # 0 => cur \in Fd /\ batch.fd[cur].ev = {"out"}
        BY ServerAssumption DEF TypeOK, Fd
      <3> QED
        BY <3>1, <3>2, RecordTypes
    <2> QED
      BY <2>1, <2>3, <2>4 DEF TypeOK, Pieces
  <1>6. CASE AcceptUnwatched
    <2>1. PICK c \in Clients : c = Head(backlog)
      BY <1>6 DEF AcceptUnwatched, TypeOK
    <2>2. /\ sock' = [sock EXCEPT ![c] = "closed"]
          /\ req' = [req EXCEPT ![c] = Unsent] /\ backlog' = Tail(backlog)
          /\ backlog # <<>>
          /\ UNCHANGED <<procVars, fileVars, loopVars, workVars, answered>>
      BY <1>6, <2>1 DEF AcceptUnwatched
    <2>3. req' \in [Clients -> Requests] /\ backlog' \in Seq(Clients)
          /\ sock' \in [Clients -> {"none", "backlog", "open", "closed"}]
      BY <2>2, RecordTypes DEF TypeOK
    <2>4. \A d \in Clients : req'[d].got <= req'[d].sent
                             /\ req'[d].sent <= Pieces(d)
      BY <2>2, RecordTypes DEF TypeOK, Pieces
    <2> QED
      BY <2>2, <2>3, <2>4 DEF TypeOK, Pieces
  <1>7. CASE Destroy
    <2>1. /\ pc' = "cleanup" /\ file' \in {"none", "stale", "mine", "theirs"}
          /\ sock' = [c \in Clients |->
                        IF sock[c] = "backlog" THEN "closed" ELSE sock[c]]
          /\ req' = [c \in Clients |->
                       IF sock[c] = "backlog" THEN Unsent ELSE req[c]]
          /\ backlog' = <<>>
          /\ UNCHANGED <<config, g_shutdown, refusing, meddled, robbed, loopVars,
                         workVars, answered>>
      BY <1>7 DEF Destroy, Unlink, TypeOK
    <2>2. req' \in [Clients -> Requests]
          /\ sock' \in [Clients -> {"none", "backlog", "open", "closed"}]
      BY <2>1, RecordTypes DEF TypeOK
    <2>3. backlog' \in Seq(Clients)
      BY <2>1
    <2>4. \A d \in Clients : req'[d].got <= req'[d].sent
                             /\ req'[d].sent <= Pieces(d)
      BY <2>1, RecordTypes DEF TypeOK, Pieces
    <2> QED
      BY <2>1, <2>2, <2>3, <2>4 DEF TypeOK, Pieces
  <1>8. ASSUME NEW n \in 0..Len(backlog), Accepted(n) PROVE TypeOK'
    <2>1. backlog' \in Seq(Clients)
      BY <1>8 DEF Accepted, TypeOK
    <2> QED
      BY <1>8, <2>1 DEF Accepted, BatchShrinks, TypeOK, Pieces
  <1>9. ASSUME NEW f \in Fd, Skip(f) \/ OutNoBridge(f) PROVE TypeOK'
    <2>1. /\ batch' = Handled(f) /\ cur' = 0
          /\ UNCHANGED <<procVars, fileVars, netVars, connections, event_fd,
                         workVars, answered>>
      BY <1>9 DEF Skip, OutNoBridge
    <2>2. batch' \in Batches
      BY <2>1, HandledFacts DEF BatchShrinks
    <2> QED
      BY <2>1, <2>2, ServerAssumption DEF TypeOK, Pieces
  <1>10. ASSUME NEW S \in SUBSET Fd, Closing(S) PROVE TypeOK'
    BY <1>10, ServerAssumption DEF Closing, CloseTypes, BatchShrinks, TypeOK,
       Pieces
  <1>11. ASSUME NEW f \in Fd, Stay(f), Received(f) \/ Submitted(f) \/ Sent(f)
         PROVE  TypeOK'
    <2>1. PICK c \in Clients : c = connections[f].client
      BY <1>11 DEF Stay
    <2>2. tasks' \in Seq(Clients) /\ answered' \subseteq Clients
      <3>1. tasks \in Seq(Clients) /\ answered \subseteq Clients
        BY DEF TypeOK
      <3>2. CASE Received(f)
        BY <3>1, <3>2 DEF Received
      <3>3. CASE Submitted(f)
        BY <2>1, <3>1, <3>3 DEF Submitted
      <3>4. CASE Sent(f)
        BY <2>1, <3>1, <3>4 DEF Sent
      <3> QED
        BY <1>11, <3>2, <3>3, <3>4
    <2>3. job' \in [Clients -> {"none", "queued", "body", "respond", "more",
                                "finish", "done"}]
      BY <1>11, <2>1 DEF Received, Submitted, Sent, TypeOK
    <2>4. \A d \in Clients : req'[d].got <= req'[d].sent
                             /\ req'[d].sent <= Pieces(d)
      BY <1>11, <2>1 DEF Stay, TypeOK
    <2> QED
      BY <1>11, <2>2, <2>3, <2>4 DEF Stay, BatchShrinks, TypeOK, Pieces
  <1>12. ASSUME NEW c \in Clients, Work(c),
                Begins(c) \/ Reads(c) \/ Responds(c) \/ Ends(c)
         PROVE  TypeOK'
    <2>1. tasks' \in Seq(Clients)
      <3>1. tasks \in Seq(Clients)
        BY DEF TypeOK
      <3>2. CASE Begins(c)
        BY <3>1, <3>2 DEF Begins
      <3>3. CASE UNCHANGED tasks
        BY <3>1, <3>3
      <3> QED
        BY <1>12, <3>2, <3>3 DEF Reads, Responds, Ends
    <2> QED
      BY <1>12, <2>1 DEF Work, Jobs, TypeOK, Pieces
  <1> QED
    BY <1>1, <1>2, <1>3, <1>4, <1>5, <1>6, <1>7, <1>8, <1>9, <1>10, <1>11,
       <1>12 DEF Step, ClientOwn

\* The table.
LEMMA TableStep ==
  ASSUME TypeOK, TableInv, BacklogInv, QueueInv, BridgeInv, TypeOK',
         Step
  PROVE  TableInv'
  <1> USE DEF procVars, fileVars, netVars, loopVars, workVars
  <1>1. CASE QuietStep
    <2>1. Quiet
      BY <1>1, QuietFacts
    <2> QED
      BY <2>1 DEF Quiet, TableInv
  <1>2. ASSUME NEW c \in Clients, Connect(c) PROVE TableInv'
    BY <1>2 DEF Connect, TableInv, TypeOK
  <1>3. ASSUME NEW c \in Clients, ClientOwn(c) PROVE TableInv'
    BY <1>3 DEF ClientOwn, ClientSend, ClientRead, ClientQuit, TableInv
  <1>4. CASE EpollWait
    BY <1>4 DEF EpollWait, TableInv
  <1>5. CASE AcceptUnwatched
    <2>1. sock[Head(backlog)] = "backlog" /\ Head(backlog) \in Clients
      BY <1>5, FirstInBacklog DEF AcceptUnwatched
    <2> QED
      BY <1>5, <2>1 DEF AcceptUnwatched, TableInv, TypeOK
  <1>6. CASE Destroy
    <2>1. /\ sock' = [c \in Clients |->
                        IF sock[c] = "backlog" THEN "closed" ELSE sock[c]]
          /\ pc = "destroy" /\ UNCHANGED <<connections, job>>
      BY <1>6 DEF Destroy
    <2>2. \A f \in Fd : connections[f] = NoConn
      BY <2>1 DEF TableInv
    <2> QED
      BY <2>1, <2>2, RecordTypes DEF TableInv
  <1>7. ASSUME NEW n \in 0..Len(backlog), Accepted(n) PROVE TableInv'
    <2>1. \A k \in 1..n : /\ k \in 1..Len(backlog) /\ backlog[k] \in Clients
                          /\ sock[backlog[k]] = "backlog"
                          /\ job[backlog[k]] = "none"
      <3>1. Len(backlog) \in Nat
        BY DEF TypeOK
      <3>2. \A k \in 1..n : k \in 1..Len(backlog)
        BY <3>1
      <3> QED
        BY <3>2 DEF BacklogInv, Lists, BridgeInv, TypeOK
    <2>2. \A f \in Fd :
            \/ connections'[f] = connections[f]
            \/ /\ connections[f] = NoConn
               /\ \E k \in 1..n : connections'[f] = NewConn(backlog[k])
      BY <1>7 DEF Accepted
    <2>3. UNCHANGED job /\ pc = "loop" /\ pc' = "loop"
      BY <1>7 DEF Accepted
    <2>4. \A c \in Clients :
            sock'[c] = IF \E k \in 1..n : backlog[k] = c THEN "open" ELSE sock[c]
      BY <1>7 DEF Accepted
    <2>5. ASSUME NEW k \in 1..n
          PROVE  \E f \in Fd :
                   /\ connections'[f].client = backlog[k]
                   /\ \A g \in Fd : connections'[g].client = backlog[k] => g = f
      <3>1. PICK f \in Fd :
              /\ connections[f] = NoConn /\ connections'[f] = NewConn(backlog[k])
              /\ \A g \in Fd : connections'[g] = NewConn(backlog[k]) =>
                   g = f \/ connections'[g] = connections[g]
        BY <1>7 DEF Accepted
      <3>2. connections'[f].client = backlog[k]
        BY <2>1, <3>1, NewConnType
      <3>3. ASSUME NEW g \in Fd, connections'[g].client = backlog[k]
            PROVE  g = f
        <4>1. connections'[g] # connections[g]
          BY <2>1, <3>3, ServerAssumption DEF TableInv
        <4>2. PICK j \in 1..n : connections'[g] = NewConn(backlog[j])
          BY <2>2, <4>1
        <4>3. backlog[j] = backlog[k]
          BY <2>1, <3>3, <4>2, NewConnType
        <4> QED
          BY <3>1, <4>1, <4>2, <4>3
      <3> QED
        BY <3>2, <3>3
    <2>6. ASSUME NEW f \in Fd
          PROVE  /\ connections'[f].client = NoClient => connections'[f] = NoConn
                 /\ connections'[f].client # NoClient =>
                      /\ sock'[connections'[f].client] = "open"
                      /\ connections'[f].active <=>
                           job'[connections'[f].client] # "none"
      <3>1. CASE connections'[f] = connections[f]
        <4>1. connections[f].client \in Clients \cup {NoClient}
          BY DEF TypeOK, Entries
        <4> QED
          BY <2>3, <2>4, <3>1, <4>1 DEF TableInv
      <3>2. ASSUME NEW k \in 1..n, connections'[f] = NewConn(backlog[k])
            PROVE  /\ connections'[f].client = backlog[k]
                   /\ sock'[backlog[k]] = "open" /\ ~connections'[f].active
                   /\ job'[backlog[k]] = "none"
        BY <2>1, <2>3, <2>4, <3>2, NewConnType
      <3> QED
        BY <2>1, <2>2, <3>1, <3>2, ServerAssumption
    <2>7. ASSUME NEW f \in Fd, NEW g \in Fd,
                 connections'[f].client = connections'[g].client,
                 connections'[f].client # NoClient
          PROVE  f = g
      <3>1. CASE \E k \in 1..n : connections'[f].client = backlog[k]
        BY <2>5, <2>7, <3>1
      <3>2. CASE ~\E k \in 1..n : connections'[f].client = backlog[k]
        <4>1. connections'[f] = connections[f] /\ connections'[g] = connections[g]
          BY <2>1, <2>2, <2>7, <3>2, NewConnType
        <4> QED
          BY <2>7, <4>1 DEF TableInv
      <3> QED
        BY <3>1, <3>2
    <2>8. ASSUME NEW c \in Clients, sock'[c] = "open"
          PROVE  \E f \in Fd : connections'[f].client = c
      <3>1. CASE \E k \in 1..n : backlog[k] = c
        BY <2>5, <3>1
      <3>2. CASE ~\E k \in 1..n : backlog[k] = c
        <4>1. PICK f \in Fd : connections[f].client = c
          BY <2>4, <2>8, <3>2 DEF TableInv
        <4>2. connections'[f] = connections[f]
          BY <2>2, <4>1, ServerAssumption, RecordTypes
        <4> QED
          BY <4>1, <4>2
      <3> QED
        BY <3>1, <3>2
    <2> QED
      BY <2>3, <2>6, <2>7, <2>8 DEF TableInv
  <1>8. ASSUME NEW f \in Fd, Skip(f) \/ OutNoBridge(f) PROVE TableInv'
    BY <1>8 DEF Skip, OutNoBridge, TableInv
  <1>9. ASSUME NEW S \in SUBSET Fd, Closing(S) PROVE TableInv'
    <2>1. /\ UNCHANGED job /\ pc = "loop"
          /\ \A f \in S : connections'[f] = NoConn
          /\ \A f \in Fd \ S :
               \/ connections'[f] = connections[f]
               \/ /\ connections[f].active /\ connections'[f].active
                  /\ connections'[f].client = connections[f].client
          /\ \A c \in Clients : sock'[c] =
               IF \E f \in S : connections[f].client = c THEN "closed" ELSE sock[c]
      BY <1>9 DEF Closing, Closed, Kept
    <2>2. ASSUME NEW f \in Fd \ S
          PROVE  /\ connections'[f].client = connections[f].client
                 /\ connections'[f].active = connections[f].active
                 /\ connections[f].client = NoClient => connections'[f] = NoConn
                 /\ connections[f].client # NoClient =>
                      sock'[connections[f].client] = "open"
      <3>1. /\ connections[f] \in Entries /\ connections'[f] \in Entries
            /\ connections[f].client \in Clients \cup {NoClient}
        BY DEF TypeOK, Entries
      <3>2. connections'[f].client = connections[f].client
            /\ connections'[f].active = connections[f].active
        BY <2>1, <3>1 DEF Entries
      <3>3. connections[f].client = NoClient => connections'[f] = NoConn
        BY <2>1, RecordTypes DEF TableInv
      <3>4. ASSUME connections[f].client # NoClient
            PROVE  sock'[connections[f].client] = "open"
        <4>1. ~\E g \in S : connections[g].client = connections[f].client
          BY <3>4 DEF TableInv
        <4> QED
          BY <2>1, <3>1, <3>4, <4>1 DEF TableInv
      <3> QED
        BY <3>2, <3>3, <3>4
    <2>3. ASSUME NEW c \in Clients, sock'[c] = "open"
          PROVE  \E f \in Fd : connections'[f].client = c
      <3>1. sock[c] = "open" /\ ~\E f \in S : connections[f].client = c
        BY <2>1, <2>3
      <3>2. PICK f \in Fd : connections[f].client = c
        BY <3>1 DEF TableInv
      <3> QED
        BY <2>2, <3>1, <3>2
    <2>4. pc' # "loop" => \A f \in Fd : connections'[f] = NoConn
      BY <1>9, <2>1 DEF Closing
    <2>5. \A f \in Fd : /\ connections'[f].client = NoClient =>
                             connections'[f] = NoConn
                        /\ connections'[f].client # NoClient =>
                             /\ sock'[connections'[f].client] = "open"
                             /\ connections'[f].active <=>
                                  job'[connections'[f].client] # "none"
      BY <2>1, <2>2, RecordTypes DEF TableInv
    <2>6. \A f, g \in Fd : connections'[f].client = connections'[g].client =>
            f = g \/ connections'[f].client = NoClient
      BY <2>1, <2>2, RecordTypes DEF TableInv
    <2> QED
      BY <2>3, <2>4, <2>5, <2>6 DEF TableInv
  <1>10. ASSUME NEW f \in Fd, Stay(f), Received(f) \/ Submitted(f) \/ Sent(f)
         PROVE  TableInv'
    <2>1. PICK c \in Clients : c = connections[f].client
      BY <1>10 DEF Stay
    <2>2. /\ pc = "loop" /\ pc' = "loop" /\ UNCHANGED sock
          /\ connections'[f].client = c
          /\ \A g \in Fd \ {f} : connections'[g] = connections[g]
          /\ \A d \in Clients \ {c} : job'[d] = job[d]
      BY <1>10, <2>1 DEF Stay
    <2>3. connections'[f].active <=> job'[c] # "none"
      <3>1. CASE Received(f) \/ Sent(f)
        <4>1. connections'[f].active = connections[f].active /\ job' = job
          BY <3>1 DEF Received, Sent, TypeOK, Entries
        <4> QED
          BY <2>1, <4>1, ServerAssumption DEF TableInv
      <3>2. CASE Submitted(f)
        BY <2>1, <3>2 DEF Submitted, TypeOK
      <3> QED
        BY <1>10, <3>1, <3>2
    <2>4. \A g \in Fd : connections'[g].client = connections[g].client
      BY <2>1, <2>2
    <2>5. \A g \in Fd \ {f} : connections[g].client # c
      BY <2>1, ServerAssumption DEF TableInv
    <2>6. \A g \in Fd \ {f} : connections[g].client \in Clients \cup {NoClient}
      BY DEF TypeOK, Entries
    <2> QED
      BY <2>1, <2>2, <2>3, <2>4, <2>5, <2>6, ServerAssumption DEF TableInv
  <1>11. ASSUME NEW c \in Clients, Work(c),
                Begins(c) \/ Reads(c) \/ Responds(c) \/ Ends(c)
         PROVE  TableInv'
    <2>1. job[c] # "none" /\ job'[c] # "none"
      <3>1. CASE Begins(c)
        <4>1. tasks # <<>> /\ c = Head(tasks) /\ job'[c] # "none"
          BY <3>1 DEF Begins
        <4>2. job[c] = "queued"
          BY <4>1, FirstInQueue
        <4> QED
          BY <4>1, <4>2
      <3>2. CASE ~Begins(c)
        BY <1>11, <3>2 DEF Reads, Responds, Ends
      <3> QED
        BY <3>1, <3>2
    <2>2. \A d \in Clients : job'[d] = "none" <=> job[d] = "none"
      BY <1>11, <2>1 DEF Work
    <2>3. \A g \in Fd : connections[g].client \in Clients \cup {NoClient}
      BY DEF TypeOK, Entries
    <2> QED
      BY <1>11, <2>2, <2>3 DEF Work, TableInv
  <1> QED
    BY <1>1, <1>2, <1>3, <1>4, <1>5, <1>6, <1>7, <1>8, <1>9, <1>10, <1>11
       DEF Step

\* The backlog.
LEMMA BacklogStep ==
  ASSUME TypeOK, TableInv, BacklogInv, TypeOK', Step
  PROVE  BacklogInv'
  <1> USE DEF procVars, fileVars, netVars, loopVars, workVars
  <1>1. ASSUME UNCHANGED backlog,
               \A c \in Clients : sock'[c] = "backlog" <=> sock[c] = "backlog"
        PROVE  BacklogInv'
    <2>1. {c \in Clients : sock'[c] = "backlog"} =
            {c \in Clients : sock[c] = "backlog"}
      BY <1>1
    <2>2. Lists(backlog, {c \in Clients : sock[c] = "backlog"})
      BY DEF BacklogInv
    <2>3. Lists(backlog', {c \in Clients : sock'[c] = "backlog"})
      BY <1>1, <2>1, <2>2
    <2> QED
      BY <2>3 DEF BacklogInv, Lists
  <1>2. CASE QuietStep
    BY <1>1, <1>2, QuietFacts DEF Quiet
  <1>3. ASSUME NEW c \in Clients, Connect(c) PROVE BacklogInv'
    <2>1. PICK S : S = {d \in Clients : sock[d] = "backlog"}
      OBVIOUS
    <2>2. /\ backlog \in Seq(Clients) /\ Lists(backlog, S) /\ c \notin S
          /\ backlog' = Append(backlog, c)
          /\ sock' = [sock EXCEPT ![c] = "backlog"]
      BY <1>3, <2>1 DEF BacklogInv, Connect, TypeOK
    <2>3. Lists(backlog', S \cup {c})
      BY <2>2, ListsAppend
    <2>4. {d \in Clients : sock'[d] = "backlog"} = S \cup {c}
      BY <2>1, <2>2 DEF TypeOK
    <2> QED
      BY <2>3, <2>4 DEF BacklogInv, Lists
  <1>4. ASSUME NEW c \in Clients, ClientOwn(c) PROVE BacklogInv'
    BY <1>1, <1>4 DEF ClientOwn, ClientSend, ClientRead, ClientQuit
  <1>5. CASE EpollWait
    BY <1>1, <1>5 DEF EpollWait
  <1>6. CASE AcceptUnwatched
    <2>1. PICK c \in Clients : c = Head(backlog)
      BY <1>6, FirstInBacklog DEF AcceptUnwatched
    <2>2. backlog' = Tail(backlog) /\ sock' = [sock EXCEPT ![c] = "closed"]
      BY <1>6, <2>1 DEF AcceptUnwatched
    <2>3. Lists(backlog', {d \in Clients : sock[d] = "backlog"} \ {c})
      BY <1>6, <2>1, <2>2, FirstInBacklog DEF AcceptUnwatched
    <2>4. {d \in Clients : sock'[d] = "backlog"} =
            {d \in Clients : sock[d] = "backlog"} \ {c}
      BY <2>2 DEF TypeOK
    <2> QED
      BY <2>3, <2>4 DEF BacklogInv, Lists
  <1>7. CASE Destroy
    <2>1. /\ sock' = [c \in Clients |->
                        IF sock[c] = "backlog" THEN "closed" ELSE sock[c]]
          /\ backlog' = <<>>
      BY <1>7 DEF Destroy
    <2>2. {d \in Clients : sock'[d] = "backlog"} = {}
      BY <2>1
    <2>3. Len(backlog') = 0
      BY <2>1
    <2> QED
      BY <2>2, <2>3 DEF BacklogInv, Lists
  <1>8. ASSUME NEW n \in 0..Len(backlog), Accepted(n) PROVE BacklogInv'
    <2>1. PICK S : S = {d \in Clients : sock[d] = "backlog"}
      OBVIOUS
    <2>2. /\ backlog \in Seq(Clients) /\ Lists(backlog, S)
          /\ backlog' = SubSeq(backlog, n + 1, Len(backlog))
          /\ \A c \in Clients : sock'[c] =
               IF \E k \in 1..n : backlog[k] = c THEN "open" ELSE sock[c]
      BY <1>8, <2>1 DEF BacklogInv, Accepted, TypeOK
    <2>3. Lists(backlog', {c \in S : ~\E k \in 1..n : backlog[k] = c})
      <3>1. backlog \in Seq(Clients) /\ Lists(backlog, S) /\ n \in 0..Len(backlog)
        BY <2>2
      <3>2. Lists(SubSeq(backlog, n + 1, Len(backlog)),
                  {c \in S : ~\E k \in 1..n : backlog[k] = c})
        BY <3>1, ListsDrop
      <3> QED
        BY <2>2, <3>2
    <2>4. {d \in Clients : sock'[d] = "backlog"} =
            {c \in S : ~\E k \in 1..n : backlog[k] = c}
      BY <2>1, <2>2
    <2> QED
      BY <2>3, <2>4 DEF BacklogInv, Lists
  <1>9. ASSUME NEW f \in Fd, Skip(f) \/ OutNoBridge(f) PROVE BacklogInv'
    BY <1>1, <1>9 DEF Skip, OutNoBridge
  <1>10. ASSUME NEW S \in SUBSET Fd, Closing(S) PROVE BacklogInv'
    <2>1. /\ UNCHANGED backlog /\ \A f \in S : connections[f].client \in Clients
          /\ \A c \in Clients : sock'[c] =
               IF \E f \in S : connections[f].client = c THEN "closed" ELSE sock[c]
      BY <1>10 DEF Closing, Closed
    <2>2. \A f \in S : sock[connections[f].client] = "open"
      BY <2>1, ServerAssumption DEF TableInv
    <2> QED
      BY <1>1, <2>1, <2>2
  <1>11. ASSUME NEW f \in Fd, Stay(f) PROVE BacklogInv'
    BY <1>1, <1>11 DEF Stay
  <1>12. ASSUME NEW c \in Clients, Work(c) PROVE BacklogInv'
    BY <1>1, <1>12 DEF Work
  <1> QED
    BY <1>2, <1>3, <1>4, <1>5, <1>6, <1>7, <1>8, <1>9, <1>10, <1>11, <1>12
       DEF Step

\* The queue.
LEMMA QueueStep ==
  ASSUME TypeOK, TableInv, QueueInv, TypeOK', Step
  PROVE  QueueInv'
  <1> USE DEF procVars, fileVars, netVars, loopVars, workVars
  <1>1. ASSUME UNCHANGED tasks,
               \A c \in Clients : job'[c] = "queued" <=> job[c] = "queued"
        PROVE  QueueInv'
    <2>1. {c \in Clients : job'[c] = "queued"} =
            {c \in Clients : job[c] = "queued"}
      BY <1>1
    <2>2. Lists(tasks, {c \in Clients : job[c] = "queued"})
      BY DEF QueueInv
    <2>3. Lists(tasks', {c \in Clients : job'[c] = "queued"})
      BY <1>1, <2>1, <2>2
    <2> QED
      BY <2>3 DEF QueueInv, Lists
  <1>2. CASE QuietStep
    BY <1>1, <1>2, QuietFacts DEF Quiet
  <1>3. ASSUME NEW c \in Clients, Connect(c) \/ ClientOwn(c)
        PROVE  QueueInv'
    BY <1>1, <1>3 DEF Connect, ClientOwn, ClientSend, ClientRead, ClientQuit
  <1>4. CASE EpollWait \/ AcceptUnwatched \/ Destroy
    BY <1>1, <1>4 DEF EpollWait, AcceptUnwatched, Destroy
  <1>5. ASSUME NEW n \in 0..Len(backlog), Accepted(n) PROVE QueueInv'
    BY <1>1, <1>5 DEF Accepted
  <1>6. ASSUME NEW f \in Fd, Skip(f) \/ OutNoBridge(f) PROVE QueueInv'
    BY <1>1, <1>6 DEF Skip, OutNoBridge
  <1>7. ASSUME NEW S \in SUBSET Fd, Closing(S) PROVE QueueInv'
    BY <1>1, <1>7 DEF Closing
  <1>8. ASSUME NEW f \in Fd, Received(f) \/ Sent(f) PROVE QueueInv'
    BY <1>1, <1>8 DEF Received, Sent
  <1>9. ASSUME NEW f \in Fd, Stay(f), Submitted(f) PROVE QueueInv'
    <2>1. PICK c \in Clients : c = connections[f].client
      BY <1>9 DEF Stay
    <2>2. PICK S : S = {d \in Clients : job[d] = "queued"}
      OBVIOUS
    <2>3. job[c] = "none"
      BY <1>9, <2>1, ServerAssumption DEF Submitted, TableInv
    <2>4. /\ tasks \in Seq(Clients) /\ Lists(tasks, S) /\ c \notin S
          /\ tasks' = Append(tasks, c) /\ job' = [job EXCEPT ![c] = "queued"]
      BY <1>9, <2>1, <2>2, <2>3 DEF QueueInv, Submitted, TypeOK
    <2>5. Lists(tasks', S \cup {c})
      BY <2>4, ListsAppend
    <2>6. {d \in Clients : job'[d] = "queued"} = S \cup {c}
      BY <2>2, <2>4 DEF TypeOK
    <2> QED
      BY <2>5, <2>6 DEF QueueInv, Lists
  <1>10. ASSUME NEW c \in Clients, Work(c), Begins(c) PROVE QueueInv'
    <2>1. /\ tasks # <<>> /\ c = Head(tasks) /\ tasks' = Tail(tasks)
          /\ job'[c] # "queued" /\ \A d \in Clients \ {c} : job'[d] = job[d]
      BY <1>10 DEF Work, Begins
    <2>2. Lists(tasks', {d \in Clients : job[d] = "queued"} \ {c})
      BY <2>1, FirstInQueue
    <2>3. {d \in Clients : job'[d] = "queued"} =
            {d \in Clients : job[d] = "queued"} \ {c}
      BY <2>1
    <2> QED
      BY <2>2, <2>3 DEF QueueInv, Lists
  <1>11. ASSUME NEW c \in Clients, Work(c), Reads(c) \/ Responds(c) \/ Ends(c)
         PROVE  QueueInv'
    <2>1. /\ UNCHANGED tasks /\ job[c] # "queued" /\ job'[c] # "queued"
          /\ \A d \in Clients \ {c} : job'[d] = job[d]
      BY <1>11 DEF Work, Reads, Responds, Ends
    <2> QED
      BY <1>1, <2>1
  <1> QED
    BY <1>2, <1>3, <1>4, <1>5, <1>6, <1>7, <1>8, <1>9, <1>10, <1>11 DEF Step

\* What is said of one client's bridge.
Bridge(c) ==
  /\ sock[c] \in {"none", "backlog"} => job[c] = "none"
  /\ job[c] = "none" => io[c] = NoIO
  /\ sock[c] = "closed" /\ job[c] \notin {"none", "done"} =>
       io[c].rerr /\ io[c].werr
  /\ sock[c] = "open" =>
       /\ io[c].pend <=> io[c].buf
       /\ io[c].fin <=> job[c] = "done"
       /\ io[c].werr => io[c].fin
       /\ job[c] \in {"finish", "done"} /\ ~io[c].werr =>
            io[c].buf \/ c \in answered

\* A request whose bridge is unused.
LEMMA UnusedBridge ==
  ASSUME TypeOK, NEW c \in Clients, io[c] = NoIO
  PROVE  ~io[c].pend /\ ~io[c].buf /\ ~io[c].fin /\ ~io[c].werr /\ ~io[c].rerr
  BY DEF NoIO

\* The bridges.
LEMMA BridgeStep ==
  ASSUME TypeOK, TableInv, BacklogInv, QueueInv, BridgeInv, TypeOK', Step
  PROVE  BridgeInv'
  <1> USE DEF procVars, fileVars, netVars, loopVars, workVars
  <1>0. \A c \in Clients : Bridge(c)
    BY DEF BridgeInv, Bridge
  <1> SUFFICES ASSUME NEW d \in Clients
               PROVE  Bridge(d)'
    BY DEF BridgeInv, Bridge
  <1>1. Bridge(d)
    BY <1>0
  <1>2. ASSUME sock'[d] = sock[d], job'[d] = job[d], io'[d] = io[d],
               answered \subseteq answered'
        PROVE  Bridge(d)'
    BY <1>1, <1>2 DEF Bridge
  <1>3. ASSUME sock[d] \in {"none", "backlog"}, job'[d] = job[d], io'[d] = io[d]
        PROVE  Bridge(d)'
    <2>1. job'[d] = "none" /\ io'[d] = NoIO
      BY <1>1, <1>3 DEF Bridge
    <2>2. ~io'[d].pend /\ ~io'[d].buf /\ ~io'[d].fin /\ ~io'[d].werr
      BY <2>1 DEF NoIO
    <2> QED
      BY <2>1, <2>2 DEF Bridge
  <1>4. CASE QuietStep
    BY <1>2, <1>4, QuietFacts DEF Quiet
  <1>5. ASSUME NEW c \in Clients, Connect(c) PROVE Bridge(d)'
    BY <1>2, <1>3, <1>5 DEF Connect, TypeOK
  <1>6. ASSUME NEW c \in Clients, ClientOwn(c) PROVE Bridge(d)'
    BY <1>2, <1>6 DEF ClientOwn, ClientSend, ClientRead, ClientQuit
  <1>7. CASE EpollWait
    BY <1>2, <1>7 DEF EpollWait
  <1>8. CASE AcceptUnwatched
    <2>1. PICK c \in Clients : c = Head(backlog) /\ sock[c] = "backlog"
      BY <1>8, FirstInBacklog DEF AcceptUnwatched
    <2>2. sock' = [sock EXCEPT ![c] = "closed"] /\ UNCHANGED <<io, job, answered>>
      BY <1>8, <2>1 DEF AcceptUnwatched
    <2> QED
      BY <1>2, <1>3, <2>1, <2>2 DEF TypeOK
  <1>9. CASE Destroy
    BY <1>2, <1>3, <1>9 DEF Destroy
  <1>10. ASSUME NEW n \in 0..Len(backlog), Accepted(n) PROVE Bridge(d)'
    <2>1. /\ UNCHANGED <<io, job, answered>>
          /\ sock'[d] = IF \E k \in 1..n : backlog[k] = d THEN "open" ELSE sock[d]
      BY <1>10 DEF Accepted
    <2>2. ASSUME NEW k \in 1..n, backlog[k] = d PROVE sock[d] = "backlog"
      <3>1. Len(backlog) \in Nat
        BY DEF TypeOK
      <3>2. k \in 1..Len(backlog)
        BY <3>1
      <3> QED
        BY <2>2, <3>2 DEF BacklogInv, Lists
    <2> QED
      BY <1>2, <1>3, <2>1, <2>2
  <1>11. ASSUME NEW f \in Fd, Skip(f) \/ OutNoBridge(f) PROVE Bridge(d)'
    BY <1>2, <1>11 DEF Skip, OutNoBridge
  <1>12. ASSUME NEW S \in SUBSET Fd, Closing(S) PROVE Bridge(d)'
    <2>1. /\ job'[d] = job[d] /\ answered \subseteq answered'
          /\ IF \E f \in S : connections[f].client = d
             THEN sock'[d] = "closed" /\ io'[d] = Dropped(d)
             ELSE sock'[d] = sock[d] /\ io'[d] = io[d]
      BY <1>12 DEF Closing, Closed
    <2>2. CASE \E f \in S : connections[f].client = d
      BY <2>1, <2>2, DroppedFacts DEF Bridge
    <2>3. CASE ~\E f \in S : connections[f].client = d
      BY <1>2, <2>1, <2>3
    <2> QED
      BY <2>2, <2>3
  <1>13. ASSUME NEW f \in Fd, Stay(f), Received(f) \/ Submitted(f) \/ Sent(f)
         PROVE  Bridge(d)'
    <2>1. PICK c \in Clients : c = connections[f].client
      BY <1>13 DEF Stay
    <2>2. UNCHANGED sock /\ sock[c] = "open" /\ answered \subseteq answered'
      BY <1>13, <2>1 DEF Stay, Received, Submitted, Sent
    <2>3. CASE d # c
      <3>1. io'[d] = io[d] /\ job'[d] = job[d]
        BY <1>13, <2>1, <2>3 DEF Stay
      <3> QED
        BY <1>2, <2>2, <3>1
    <2>4. CASE d = c
      <3>1. /\ io'[c].rerr = io[c].rerr /\ io'[c].fin = io[c].fin
            /\ io'[c].werr = io[c].werr /\ sock[c] = "open" /\ sock'[c] = "open"
        BY <1>13, <2>1, <2>2 DEF Stay
      <3>2. connections[f].active <=> job[c] # "none"
        BY <2>1, ServerAssumption DEF TableInv
      <3>3. io[c] \in Bridges /\ io'[c] \in Bridges
        BY DEF TypeOK
      <3>4. CASE Received(f)
        <4>1. /\ job'[c] = job[c] /\ io'[c].buf = io[c].buf
              /\ io'[c].pend = io[c].pend /\ UNCHANGED answered
              /\ io'[c] = io[c] \/ job[c] # "none"
          BY <2>1, <3>2, <3>4 DEF Received
        <4> QED
          BY <1>1, <2>4, <3>1, <4>1 DEF Bridge
      <3>5. CASE Submitted(f)
        <4>1. job[c] = "none" /\ job'[c] = "queued"
              /\ io'[c].buf = io[c].buf /\ io'[c].pend = io[c].pend
          BY <2>1, <3>2, <3>5 DEF Submitted, TypeOK
        <4>2. ~io[c].pend /\ ~io[c].buf /\ ~io[c].fin /\ ~io[c].werr
          BY <1>1, <2>4, <4>1, UnusedBridge DEF Bridge
        <4> QED
          BY <2>4, <3>1, <4>1, <4>2 DEF Bridge
      <3>6. CASE Sent(f)
        <4>1. /\ job'[c] = job[c] /\ job[c] # "none" /\ ~io'[c].buf
              /\ ~io'[c].fin /\ (io'[c].pend <=> io[c].pend /\ ~io[c].buf)
              /\ answered' = IF io[c].buf /\ job[c] # "more"
                             THEN answered \cup {c} ELSE answered
          BY <2>1, <3>2, <3>6 DEF Sent
        <4>2. /\ io[c].pend <=> io[c].buf
              /\ job[c] # "done" /\ ~io[c].werr
              /\ job[c] = "finish" => io[c].buf \/ c \in answered
          BY <1>1, <2>4, <3>1, <4>1 DEF Bridge
        <4>3. ~io'[c].pend /\ ~io'[c].werr
          BY <3>1, <4>1, <4>2
        <4>4. job[c] = "finish" => c \in answered'
          BY <4>1, <4>2
        <4> QED
          BY <2>4, <3>1, <4>1, <4>2, <4>3, <4>4 DEF Bridge
      <3> QED
        BY <1>13, <3>4, <3>5, <3>6
    <2> QED
      BY <2>3, <2>4
  <1>14. ASSUME NEW c \in Clients, Work(c),
                Begins(c) \/ Reads(c) \/ Responds(c) \/ Ends(c)
         PROVE  Bridge(d)'
    <2>1. UNCHANGED <<sock, answered>>
      BY <1>14 DEF Work
    <2>2. CASE d # c
      BY <1>2, <1>14, <2>1, <2>2 DEF Work
    <2>3. CASE d = c /\ Begins(c)
      <3>1. tasks # <<>> /\ c = Head(tasks) /\ UNCHANGED io
            /\ job'[c] \in {"body", "respond"}
        BY <2>3 DEF Begins
      <3>2. job[c] = "queued"
        BY <3>1, FirstInQueue
      <3> QED
        BY <1>1, <2>1, <2>3, <3>1, <3>2 DEF Bridge
    <2>4. CASE d = c /\ Reads(c)
      BY <1>1, <2>1, <2>4 DEF Bridge, Reads
    <2>5. CASE d = c /\ Responds(c)
      <3>1. /\ job[c] \in {"respond", "more"} /\ job'[c] \in {"more", "finish"}
            /\ io'[c].fin = io[c].fin /\ io'[c].werr = io[c].werr
            /\ io'[c].rerr = io[c].rerr
            /\ io[c].werr \/ (io'[c].buf /\ io'[c].pend)
            /\ io[c].werr => io'[c] = io[c]
        BY <2>5 DEF Responds
      <3>2. sock[c] \in {"open", "closed"}
        BY <1>1, <2>5, <3>1 DEF Bridge, TypeOK
      <3> QED
        BY <1>1, <2>1, <2>5, <3>1, <3>2 DEF Bridge
    <2>6. CASE d = c /\ Ends(c)
      <3>1. /\ job[c] \in {"body", "respond", "finish"} /\ job'[c] = "done"
            /\ sock[c] # "closed" =>
                 /\ io'[c].fin /\ io'[c].buf = io[c].buf
                 /\ io'[c].pend = io[c].pend
                 /\ io'[c].werr \/ (io'[c].werr = io[c].werr /\ job[c] = "finish")
        BY <2>6 DEF Ends
      <3>2. sock[c] \in {"open", "closed"}
        BY <1>1, <2>6, <3>1 DEF Bridge, TypeOK
      <3> QED
        BY <1>1, <2>1, <2>6, <3>1, <3>2 DEF Bridge
    <2> QED
      BY <1>14, <2>2, <2>3, <2>4, <2>5, <2>6
  <1> QED
    BY <1>4, <1>5, <1>6, <1>7, <1>8, <1>9, <1>10, <1>11, <1>12, <1>13,
       <1>14 DEF Step

\* What a worker has left for the loop.
LEMMA AnnouncedStep ==
  ASSUME TypeOK, TableInv, BacklogInv, BridgeInv, AnnouncedInv, TypeOK', Step
  PROVE  AnnouncedInv'
  <1> USE DEF procVars, fileVars, netVars, loopVars, workVars
  <1>0. \A f \in Fd : connections[f].active =>
          /\ connections[f].client \in Clients
          /\ sock[connections[f].client] = "open"
    BY ClientOf, RecordTypes
  <1>1. ASSUME UNCHANGED <<connections, io, event_fd>>, pc' = pc \/ pc # "loop"
        PROVE  AnnouncedInv'
    <2>1. CASE pc' = pc
      BY <1>1, <2>1 DEF AnnouncedInv
    <2>2. CASE pc # "loop"
      <3>1. \A f \in Fd : ~connections'[f].active
        BY <1>1, <2>2, RecordTypes DEF TableInv
      <3> QED
        BY <3>1 DEF AnnouncedInv
    <2> QED
      BY <1>1, <2>1, <2>2
  <1>2. CASE QuietStep
    BY <1>1, <1>2, QuietFacts DEF Quiet
  <1>3. ASSUME NEW c \in Clients, Connect(c) \/ ClientOwn(c)
        PROVE  AnnouncedInv'
    BY <1>1, <1>3 DEF Connect, ClientOwn, ClientSend, ClientRead, ClientQuit
  <1>4. CASE EpollWait \/ AcceptUnwatched
    BY <1>1, <1>4 DEF EpollWait, AcceptUnwatched
  <1>5. CASE Destroy
    BY <1>1, <1>5 DEF Destroy
  <1>6. ASSUME NEW n \in 0..Len(backlog), Accepted(n) PROVE AnnouncedInv'
    <2>1. UNCHANGED <<pc, io, event_fd>>
      BY <1>6 DEF Accepted
    <2>2. ASSUME NEW f \in Fd, connections'[f].active
          PROVE  connections'[f] = connections[f]
      <3>1. SUFFICES ASSUME NEW k \in 1..n,
                            connections'[f] = NewConn(backlog[k])
                     PROVE  FALSE
        BY <1>6 DEF Accepted
      <3>2. Len(backlog) \in Nat
        BY DEF TypeOK
      <3>3. k \in 1..Len(backlog)
        BY <3>2
      <3>4. backlog[k] \in Clients
        BY <3>3 DEF TypeOK
      <3> QED
        BY <2>2, <3>1, <3>4, NewConnType
    <2> QED
      BY <2>1, <2>2 DEF AnnouncedInv
  <1>7. ASSUME NEW f \in Fd, Skip(f) \/ OutNoBridge(f) PROVE AnnouncedInv'
    BY <1>1, <1>7 DEF Skip, OutNoBridge
  <1>8. ASSUME NEW S \in SUBSET Fd, Closing(S) PROVE AnnouncedInv'
    <2>1. SUFFICES ASSUME pc' = "loop", NEW f \in Fd, connections'[f].active,
                          \/ io'[connections'[f].client].pend
                          \/ io'[connections'[f].client].fin
                          \/ io'[connections'[f].client].werr
                   PROVE  event_fd' \/ "out" \in connections'[f].epoll_events
      BY DEF AnnouncedInv
    <2>2. f \notin S /\ connections[f].active
          /\ connections'[f].client = connections[f].client
      BY <1>8, <2>1, RecordTypes DEF Closing, Closed, Kept
    <2>3. PICK c \in Clients : c = connections[f].client /\ sock[c] = "open"
      BY <1>0, <2>2
    <2>4. ~\E g \in S : connections[g].client = c
      BY <2>2, <2>3, ServerAssumption DEF TableInv
    <2>5. io'[c] = io[c]
      BY <1>8, <2>4 DEF Closing, Closed
    <2>6. io[c].pend \/ io[c].fin \/ io[c].werr
      BY <2>1, <2>2, <2>3, <2>5
    <2>7. CASE Scanned(S)
      <3>1. /\ ~(io[c].werr \/ (isFinished(io[c]) /\ ~io[c].pend))
            /\ io[c].pend => "out" \in connections'[f].epoll_events
        BY <2>2, <2>3, <2>7 DEF Scanned
      <3>2. io[c].pend <=> io[c].buf
        BY <2>3 DEF BridgeInv
      <3> QED
        BY <2>6, <3>1, <3>2 DEF isFinished
    <2>8. CASE event_fd' = event_fd
               /\ \A g \in Fd \ S : connections'[g] = connections[g]
      <3>1. pc = "loop" /\ connections'[f] = connections[f]
        BY <1>8, <2>2, <2>8 DEF Closing
      <3> QED
        BY <2>2, <2>3, <2>6, <2>8, <3>1 DEF AnnouncedInv
    <2> QED
      BY <1>8, <2>1, <2>7, <2>8 DEF Closing
  <1>9. ASSUME NEW f \in Fd, Stay(f), Received(f) \/ Submitted(f) \/ Sent(f)
        PROVE  AnnouncedInv'
    <2>1. PICK c \in Clients : c = connections[f].client /\ sock[c] = "open"
      BY <1>9 DEF Stay
    <2>2. /\ UNCHANGED event_fd /\ pc = "loop"
          /\ \A g \in Fd \ {f} : connections'[g] = connections[g]
          /\ \A d \in Clients \ {c} : io'[d] = io[d]
          /\ connections'[f].client = c
          /\ io'[c].fin = io[c].fin /\ io'[c].werr = io[c].werr
      BY <1>9, <2>1 DEF Stay
    <2>3. \A g \in Fd \ {f} : connections[g].client # c
      BY <2>1, ServerAssumption DEF TableInv
    <2>4. ASSUME NEW g \in Fd \ {f}, connections'[g].active,
                 \/ io'[connections'[g].client].pend
                 \/ io'[connections'[g].client].fin
                 \/ io'[connections'[g].client].werr
          PROVE  event_fd' \/ "out" \in connections'[g].epoll_events
      <3>1. connections'[g] = connections[g] /\ connections[g].client \in Clients
        BY <1>0, <2>2, <2>4
      <3>2. io'[connections[g].client] = io[connections[g].client]
        BY <2>2, <2>3, <3>1
      <3> QED
        BY <2>2, <2>4, <3>1, <3>2 DEF AnnouncedInv
    <2>5. ASSUME connections'[f].active, io'[c].pend \/ io'[c].fin \/ io'[c].werr
          PROVE  event_fd' \/ "out" \in connections'[f].epoll_events
      <3>1. connections[f].active <=> job[c] # "none"
        BY <2>1, ServerAssumption DEF TableInv
      <3>2. CASE Received(f)
        BY <2>1, <2>2, <2>5, <3>2 DEF Received, AnnouncedInv
      <3>3. CASE Submitted(f)
        <4>1. job[c] = "none" /\ io'[c].pend = io[c].pend
          BY <2>1, <3>1, <3>3 DEF Submitted
        <4>2. ~io[c].pend /\ ~io[c].fin /\ ~io[c].werr
          BY <4>1, UnusedBridge DEF BridgeInv
        <4> QED
          BY <2>2, <2>5, <4>1, <4>2
      <3>4. CASE Sent(f)
        <4>1. ~io'[c].fin /\ (io'[c].pend <=> io[c].pend /\ ~io[c].buf)
          BY <2>1, <3>4 DEF Sent
        <4>2. (io[c].pend <=> io[c].buf) /\ (io[c].werr => io[c].fin)
          BY <2>1 DEF BridgeInv
        <4> QED
          BY <2>2, <2>5, <4>1, <4>2
      <3> QED
        BY <1>9, <3>2, <3>3, <3>4
    <2> QED
      BY <2>2, <2>4, <2>5 DEF AnnouncedInv
  <1>10. ASSUME NEW c \in Clients, Work(c) PROVE AnnouncedInv'
    <2>1. SUFFICES ASSUME pc' = "loop", NEW f \in Fd, connections'[f].active,
                          \/ io'[connections'[f].client].pend
                          \/ io'[connections'[f].client].fin
                          \/ io'[connections'[f].client].werr
                   PROVE  event_fd' \/ "out" \in connections'[f].epoll_events
      BY DEF AnnouncedInv
    <2>2. /\ connections' = connections /\ pc = "loop" /\ (event_fd => event_fd')
          /\ \A d \in Clients \ {c} : io'[d] = io[d]
          /\ io'[c] # io[c] => event_fd'
      BY <1>10, <2>1 DEF Work
    <2>3. connections[f].client \in Clients
      BY <1>0, <2>1, <2>2
    <2>4. CASE io'[connections[f].client] = io[connections[f].client]
      BY <2>1, <2>2, <2>4 DEF AnnouncedInv
    <2>5. CASE io'[connections[f].client] # io[connections[f].client]
      BY <2>2, <2>3, <2>5
    <2> QED
      BY <2>4, <2>5
  <1> QED
    BY <1>2, <1>3, <1>4, <1>5, <1>6, <1>7, <1>8, <1>9, <1>10 DEF Step

\* What is said of the events of one descriptor.
Pending(f) ==
  batch.fd[f].ev # {} =>
    /\ batch.fd[f].client \in Clients
    /\ sock[batch.fd[f].client] \in {"open", "closed"}
    /\ "hup" \in batch.fd[f].ev /\ connections[f] # NoConn =>
         IF connections[f].client = batch.fd[f].client
         THEN req[connections[f].client].quit = "reset"
         ELSE connections[f] = NewConn(connections[f].client)

\* The batch.
LEMMA BatchStep ==
  ASSUME TypeOK, TableInv, BacklogInv, BatchInv, TypeOK', Step
  PROVE  BatchInv'
  <1> USE DEF procVars, fileVars, netVars, loopVars, workVars
  <1>0. \A f \in Fd : Pending(f)
    BY DEF BatchInv, Pending
  <1> SUFFICES ASSUME NEW f \in Fd
               PROVE  Pending(f)'
    BY DEF BatchInv, Pending
  <1>1. Pending(f)
    BY <1>0
  \* The events of f are old ones, and so is its connection, or it is a new one.
  <1>2. ASSUME \/ batch'.fd[f] = batch.fd[f]
               \/ batch'.fd[f] = NoEvents
               \/ /\ batch'.fd[f].ev = {"out"} /\ batch.fd[f].ev # {}
                  /\ batch'.fd[f].client = batch.fd[f].client,
               \A d \in Clients : sock[d] \in {"open", "closed"} =>
                                    sock'[d] \in {"open", "closed"},
               "hup" \in batch'.fd[f].ev /\ connections'[f] # NoConn =>
                 \/ /\ connections[f] # NoConn
                    /\ connections'[f].client = connections[f].client
                    /\ connections'[f] = connections[f] \/ connections[f].active
                    /\ req[connections[f].client].quit = "reset" =>
                         req'[connections[f].client].quit = "reset"
                 \/ /\ connections'[f] = NewConn(connections'[f].client)
                    /\ batch.fd[f].ev # {} =>
                         connections'[f].client # batch.fd[f].client
        PROVE  Pending(f)'
    <2>1. SUFFICES ASSUME batch'.fd[f].ev # {} PROVE Pending(f)'
      BY DEF Pending
    <2>2. batch.fd[f].ev # {} /\ batch'.fd[f].client = batch.fd[f].client
      BY <1>2, <2>1, RecordTypes
    <2>3. /\ batch'.fd[f].client \in Clients
          /\ sock'[batch'.fd[f].client] \in {"open", "closed"}
      BY <1>1, <1>2, <2>2 DEF Pending
    <2>4. ASSUME "hup" \in batch'.fd[f].ev, connections'[f] # NoConn
          PROVE  IF connections'[f].client = batch'.fd[f].client
                 THEN req'[connections'[f].client].quit = "reset"
                 ELSE connections'[f] = NewConn(connections'[f].client)
      <3>1. "hup" \in batch.fd[f].ev
        BY <1>2, <2>1, <2>4, RecordTypes
      <3>2. CASE /\ connections[f] # NoConn
                 /\ connections'[f].client = connections[f].client
                 /\ connections'[f] = connections[f] \/ connections[f].active
                 /\ req[connections[f].client].quit = "reset" =>
                      req'[connections[f].client].quit = "reset"
        <4>1. IF connections[f].client = batch.fd[f].client
              THEN req[connections[f].client].quit = "reset"
              ELSE connections[f] = NewConn(connections[f].client)
          BY <1>1, <2>2, <3>1, <3>2 DEF Pending
        <4>2. \A c : ~NewConn(c).active
          BY DEF NewConn
        <4> QED
          BY <2>2, <3>2, <4>1, <4>2
      <3>3. CASE /\ connections'[f] = NewConn(connections'[f].client)
                 /\ connections'[f].client # batch.fd[f].client
        BY <2>2, <3>3
      <3> QED
        BY <1>2, <2>2, <2>4, <3>2, <3>3
    <2> QED
      BY <2>3, <2>4 DEF Pending
  <1>3. CASE QuietStep
    BY <1>1, <1>3, QuietFacts DEF Quiet, Pending
  <1>4. ASSUME NEW c \in Clients, Connect(c) PROVE Pending(f)'
    <2>1. sock[c] = "none" /\ sock' = [sock EXCEPT ![c] = "backlog"]
          /\ UNCHANGED <<batch, connections, req>>
      BY <1>4 DEF Connect
    <2> QED
      BY <1>2, <2>1 DEF TypeOK
  <1>5. ASSUME NEW c \in Clients, ClientOwn(c)
        PROVE  Pending(f)'
    <2>1. UNCHANGED <<sock, batch, connections>>
      BY <1>5 DEF ClientOwn, ClientSend, ClientRead, ClientQuit
    <2>2. \A d \in Clients : req[d].quit = "reset" => req'[d].quit = "reset"
      BY <1>5 DEF ClientOwn, ClientSend, ClientRead, ClientQuit, TypeOK, Requests
    <2>3. connections[f] # NoConn => connections[f].client \in Clients
      BY ClientOf
    <2> QED
      BY <1>2, <2>1, <2>2, <2>3
  <1>6. CASE EpollWait
    <2>1. batch' = ReadyBatch /\ UNCHANGED <<sock, req, connections>>
      BY <1>6 DEF EpollWait
    <2>2. batch'.fd[f] = IF Ready(f) = {} THEN NoEvents
                         ELSE [client |-> connections[f].client, ev |-> Ready(f)]
      BY <2>1 DEF ReadyBatch
    <2>3. CASE Ready(f) = {}
      BY <2>2, <2>3, RecordTypes DEF Pending
    <2>4. CASE Ready(f) # {}
      <3>1. batch'.fd[f].client = connections[f].client
            /\ batch'.fd[f].ev = Ready(f)
        BY <2>2, <2>4
      <3>2. connections[f] # NoConn
        BY <2>4, RecordTypes DEF Ready
      <3>3. connections[f].client \in Clients
            /\ sock[connections[f].client] = "open"
            /\ connections[f] \in Entries
        BY <3>2, ClientOf
      <3>4. "hup" \in Ready(f) => req[connections[f].client].quit = "reset"
        BY <3>3 DEF Ready, Entries
      <3> QED
        BY <2>1, <3>1, <3>3, <3>4 DEF Pending
    <2> QED
      BY <2>3, <2>4
  <1>7. CASE AcceptUnwatched
    <2>1. PICK c \in Clients : c = Head(backlog) /\ sock[c] = "backlog"
      BY <1>7, FirstInBacklog DEF AcceptUnwatched
    <2>2. /\ sock' = [sock EXCEPT ![c] = "closed"]
          /\ req' = [req EXCEPT ![c] = Unsent]
          /\ UNCHANGED <<batch, connections>>
      BY <1>7, <2>1 DEF AcceptUnwatched
    <2>3. connections[f] # NoConn => connections[f].client \in Clients \ {c}
      BY <2>1, ClientOf
    <2>4. \A d \in Clients \ {c} : req'[d] = req[d] /\ sock'[d] = sock[d]
      BY <2>2 DEF TypeOK
    <2> QED
      BY <1>2, <2>1, <2>2, <2>3, <2>4
  <1>8. CASE Destroy
    <2>1. /\ sock' = [c \in Clients |->
                        IF sock[c] = "backlog" THEN "closed" ELSE sock[c]]
          /\ pc = "destroy" /\ UNCHANGED <<connections, batch>>
      BY <1>8 DEF Destroy
    <2>2. connections[f] = NoConn
      BY <2>1 DEF TableInv
    <2> QED
      BY <1>2, <2>1, <2>2
  <1>9. ASSUME NEW n \in 0..Len(backlog), Accepted(n) PROVE Pending(f)'
    <2>1. \A k \in 1..n : /\ backlog[k] \in Clients
                          /\ sock[backlog[k]] = "backlog"
      <3>1. Len(backlog) \in Nat
        BY DEF TypeOK
      <3>2. \A k \in 1..n : k \in 1..Len(backlog)
        BY <3>1
      <3> QED
        BY <3>2 DEF BacklogInv, Lists
    <2>2. /\ UNCHANGED req /\ batch'.fd = batch.fd
          /\ \A c \in Clients : sock'[c] =
               IF \E k \in 1..n : backlog[k] = c THEN "open" ELSE sock[c]
          /\ \/ connections'[f] = connections[f]
             \/ /\ connections[f] = NoConn
                /\ \E k \in 1..n : connections'[f] = NewConn(backlog[k])
      BY <1>9 DEF Accepted
    <2>3. CASE connections'[f] = connections[f]
      BY <1>2, <2>2, <2>3
    <2>4. ASSUME NEW k \in 1..n, connections'[f] = NewConn(backlog[k])
          PROVE  Pending(f)'
      <3>1. connections'[f].client = backlog[k]
        BY <2>1, <2>4, NewConnType
      <3>2. batch.fd[f].ev # {} => batch.fd[f].client # backlog[k]
        BY <1>1, <2>1 DEF Pending
      <3> QED
        BY <1>2, <2>2, <2>4, <3>1, <3>2
    <2> QED
      BY <2>2, <2>3, <2>4
  <1>10. ASSUME NEW g \in Fd, Skip(g) \/ OutNoBridge(g) PROVE Pending(f)'
    <2>1. batch' = Handled(g) /\ UNCHANGED <<sock, req, connections>>
      BY <1>10 DEF Skip, OutNoBridge
    <2>2. BatchShrinks
      BY <2>1, HandledFacts
    <2> QED
      BY <1>2, <2>1, <2>2 DEF BatchShrinks
  <1>11. ASSUME NEW S \in SUBSET Fd, Closing(S) PROVE Pending(f)'
    <2>1. /\ BatchShrinks
          /\ \A g \in S : connections'[g] = NoConn
          /\ f \notin S => \/ connections'[f] = connections[f]
                           \/ /\ connections[f].active
                              /\ connections'[f].client = connections[f].client
          /\ \A c \in Clients :
               IF \E g \in S : connections[g].client = c
               THEN sock'[c] = "closed"
               ELSE sock'[c] = sock[c] /\ req'[c] = req[c]
      BY <1>11 DEF Closing, Closed, Kept
    <2>2. ASSUME connections'[f] # NoConn
          PROVE  /\ connections[f] # NoConn
                 /\ connections'[f].client = connections[f].client
                 /\ connections'[f] = connections[f] \/ connections[f].active
                 /\ req'[connections[f].client] = req[connections[f].client]
      <3>1. f \notin S
        BY <2>1, <2>2
      <3>2. connections[f] # NoConn
        BY <2>1, <2>2, <3>1, RecordTypes
      <3>3. connections[f].client \in Clients
        BY <3>2, ClientOf
      <3>4. ~\E g \in S : connections[g].client = connections[f].client
        BY <3>1, <3>3, ServerAssumption DEF TableInv
      <3> QED
        BY <2>1, <3>1, <3>2, <3>3, <3>4
    <2>3. \A d \in Clients : sock[d] \in {"open", "closed"} =>
                               sock'[d] \in {"open", "closed"}
      BY <2>1
    <2> QED
      BY <1>2, <2>1, <2>2, <2>3 DEF BatchShrinks
  <1>12. ASSUME NEW g \in Fd, Stay(g) PROVE Pending(f)'
    <2>1. PICK c \in Clients : c = connections[g].client
      BY <1>12 DEF Stay
    <2>2. /\ BatchShrinks /\ UNCHANGED sock
          /\ "hup" \notin batch'.fd[g].ev
          /\ \A h \in Fd \ {g} : connections'[h] = connections[h]
          /\ \A d \in Clients \ {c} : req'[d] = req[d]
          /\ req'[c].quit = req[c].quit
      BY <1>12, <2>1 DEF Stay
    <2>3. connections[f] # NoConn => connections[f].client \in Clients
      BY ClientOf
    <2>4. "hup" \in batch'.fd[f].ev => connections'[f] = connections[f]
      BY <2>2
    <2> QED
      BY <1>2, <2>2, <2>3, <2>4 DEF BatchShrinks
  <1>13. ASSUME NEW c \in Clients, Work(c) PROVE Pending(f)'
    BY <1>1, <1>13 DEF Work, Pending
  <1> QED
    BY <1>3, <1>4, <1>5, <1>6, <1>7, <1>8, <1>9, <1>10, <1>11, <1>12,
       <1>13 DEF Step

\* The socket file.
LEMMA SocketFileStep ==
  ASSUME TypeOK, TableInv, SocketFile, Step
  PROVE  SocketFile'
  <1> USE DEF procVars, fileVars
  <1>1. ASSUME UNCHANGED <<config, fileVars>>,
               pc' = pc \/ (pc = "loop" /\ pc' = "drain")
        PROVE  SocketFile'
    BY <1>1 DEF SocketFile
  <1>2. CASE StartStep
    <2>1. CASE Construct
      BY <2>1 DEF Construct, Unlink, Goto, SocketFile
    <2>2. CASE RemoveStale
      BY <2>2 DEF RemoveStale, Unlink, Goto, SocketFile
    <2>3. CASE Bind
      BY <2>3 DEF Bind, Goto, SocketFile
    <2>4. CASE Listen \/ Setup
      BY <2>4 DEF Listen, Setup, Goto, SocketFile
    <2>5. CASE StartFails
      BY <2>5 DEF StartFails, Unlink, Goto, SocketFile
    <2>6. CASE FailedExit
      BY <2>6 DEF FailedExit, Unlink, Goto, SocketFile
    <2> QED
      BY <1>2, <2>1, <2>2, <2>3, <2>4, <2>5, <2>6 DEF StartStep
  <1>3. CASE Drain \/ Cleanup
    BY <1>3 DEF Drain, Cleanup, Unlink, Goto, SocketFile
  <1>4. CASE OtherUnlink \/ OtherBind
    <2>1. meddled' # 0 /\ file' # "mine" /\ config' = config /\ pc' = pc
      <3>1. meddled \in Nat
        BY ServerAssumption DEF TypeOK
      <3> QED
        BY <1>4, <3>1 DEF OtherUnlink, OtherBind
    <2>2. config.mode = "uds" /\ pc \in {"listen", "setup", "loop", "drain"} =>
            robbed'
      <3>1. CASE OtherUnlink
        <4>1. robbed' = (robbed \/ file = "mine")
          BY <3>1 DEF OtherUnlink
        <4> QED
          BY <4>1, Zenon DEF SocketFile
      <3>2. CASE OtherBind
        <4>1. robbed' = robbed /\ file # "mine"
          BY <3>2 DEF OtherBind
        <4> QED
          BY <4>1 DEF SocketFile
      <3> QED
        BY <1>4, <3>1, <3>2
    <2> QED
      BY <2>1, <2>2 DEF SocketFile
  <1>5. CASE Signal
    BY <1>1, <1>5 DEF Signal
  <1>6. ASSUME NEW c \in Clients, Connect(c) \/ ClientOwn(c)
        PROVE  SocketFile'
    BY <1>1, <1>6 DEF Connect, ClientOwn, ClientSend, ClientRead, ClientQuit
  <1>7. CASE EpollWait \/ AcceptUnwatched
    BY <1>1, <1>7 DEF EpollWait, AcceptUnwatched
  <1>8. CASE Destroy
    BY <1>8 DEF Destroy, Unlink, SocketFile
  <1>9. ASSUME NEW n \in 0..Len(backlog), Accepted(n) PROVE SocketFile'
    BY <1>1, <1>9 DEF Accepted
  <1>10. ASSUME NEW f \in Fd, Skip(f) \/ OutNoBridge(f) PROVE SocketFile'
    BY <1>1, <1>10 DEF Skip, OutNoBridge
  <1>11. ASSUME NEW S \in SUBSET Fd, Closing(S) PROVE SocketFile'
    BY <1>1, <1>11 DEF Closing
  <1>12. ASSUME NEW f \in Fd, Stay(f) PROVE SocketFile'
    BY <1>1, <1>12 DEF Stay
  <1>13. ASSUME NEW c \in Clients, Work(c) PROVE SocketFile'
    BY <1>1, <1>13 DEF Work
  <1> QED
    BY <1>2, <1>3, <1>4, <1>5, <1>6, <1>7, <1>8, <1>9, <1>10, <1>11, <1>12,
       <1>13 DEF Step, QuietStep

----------------------------------------------------------------------------
(* The theorems *)

\* A process that begins.
LEMMA ServerInit ==
  ASSUME Init
  PROVE  ServerInv
  <1>1. /\ config \in [mode : {"tcp", "uds"}, limit : Fd]
        /\ pc = "construct" /\ g_shutdown = FALSE /\ refusing = FALSE
        /\ file \in {"none", "stale"} /\ meddled = 0 /\ robbed = FALSE
        /\ sock = [c \in Clients |-> "none"] /\ req = [c \in Clients |-> Unsent]
        /\ connections = [f \in Fd |-> NoConn] /\ batch = NoBatch /\ cur = 0
        /\ event_fd = FALSE /\ io = [c \in Clients |-> NoIO]
        /\ job = [c \in Clients |-> "none"] /\ answered = {}
    BY DEF Init
  <1>2. backlog = <<>> /\ tasks = <<>>
    BY DEF Init
  <1>3. backlog \in Seq(Clients) /\ tasks \in Seq(Clients)
    BY <1>2
  <1>4. NoBatch \in Batches /\ \A f \in Fd : NoBatch.fd[f] = NoEvents
    BY RecordTypes DEF NoBatch, Batches
  <1>5. TypeOK
    <2>1. req \in [Clients -> Requests] /\ \A c \in Clients :
            req[c].got <= req[c].sent /\ req[c].sent <= Pieces(c)
      BY <1>1, RecordTypes DEF Pieces
    <2>2. /\ connections \in [Fd -> Entries] /\ io \in [Clients -> Bridges]
          /\ sock \in [Clients -> {"none", "backlog", "open", "closed"}]
          /\ job \in [Clients -> {"none", "queued", "body", "respond", "more",
                                  "finish", "done"}]
      BY <1>1, RecordTypes
    <2>3. /\ file \in {"none", "stale", "mine", "theirs"}
          /\ meddled \in 0..MaxMeddle /\ cur \in 0..MaxFd /\ cur = 0
      BY <1>1, ServerAssumption
    <2>4. /\ g_shutdown \in BOOLEAN /\ refusing \in BOOLEAN
          /\ robbed \in BOOLEAN /\ event_fd \in BOOLEAN
      BY <1>1
    <2>5. batch \in Batches /\ answered \subseteq Clients
      BY <1>1, <1>4
    <2> QED
      BY <1>1, <1>3, <2>1, <2>2, <2>3, <2>4, <2>5 DEF TypeOK
  <1>6. TableInv
    BY <1>1, RecordTypes DEF TableInv
  <1>7. BacklogInv /\ QueueInv
    BY <1>1, <1>2 DEF BacklogInv, QueueInv, Lists
  <1>8. BridgeInv
    BY <1>1 DEF BridgeInv
  <1>9. AnnouncedInv /\ SocketFile
    BY <1>1 DEF AnnouncedInv, SocketFile
  <1>10. BatchInv
    BY <1>1, <1>4, RecordTypes DEF BatchInv
  <1> QED
    BY <1>5, <1>6, <1>7, <1>8, <1>9, <1>10 DEF ServerInv

\* Every step of the server keeps the invariant.
LEMMA ServerNext ==
  ASSUME ServerInv, [Next]_vars
  PROVE  ServerInv'
  <1>1. /\ TypeOK /\ TableInv /\ BacklogInv /\ QueueInv /\ BridgeInv
        /\ AnnouncedInv /\ BatchInv /\ SocketFile
    BY DEF ServerInv
  <1>2. CASE Next
    <2>1. Step
      BY <1>1, <1>2, StepKinds
    <2>2. TypeOK'
      BY <1>1, <2>1, TypeStep
    <2>3. TableInv'
      BY <1>1, <2>1, <2>2, TableStep
    <2>4. BacklogInv'
      BY <1>1, <2>1, <2>2, BacklogStep
    <2>5. QueueInv'
      BY <1>1, <2>1, <2>2, QueueStep
    <2>6. BridgeInv'
      BY <1>1, <2>1, <2>2, BridgeStep
    <2>7. AnnouncedInv'
      BY <1>1, <2>1, <2>2, AnnouncedStep
    <2>8. BatchInv'
      BY <1>1, <2>1, <2>2, BatchStep
    <2>9. SocketFile'
      BY <1>1, <2>1, SocketFileStep
    <2> QED
      BY <2>2, <2>3, <2>4, <2>5, <2>6, <2>7, <2>8, <2>9 DEF ServerInv
  <1>3. CASE UNCHANGED vars
    <2>1. /\ UNCHANGED <<pc, config, g_shutdown, refusing, file, meddled, robbed>>
          /\ UNCHANGED <<sock, req, backlog, connections, batch, cur, event_fd>>
          /\ UNCHANGED <<io, tasks, job, answered>>
      BY <1>3 DEF vars, procVars, fileVars, netVars, loopVars, workVars
    <2>2. TypeOK'
      BY <1>1, <2>1 DEF TypeOK, Pieces
    <2>3. TableInv'
      BY <1>1, <2>1 DEF TableInv
    <2>4. BacklogInv' /\ QueueInv'
      BY <1>1, <2>1 DEF BacklogInv, QueueInv, Lists
    <2>5. BridgeInv'
      BY <1>1, <2>1 DEF BridgeInv
    <2>6. AnnouncedInv' /\ SocketFile'
      BY <1>1, <2>1 DEF AnnouncedInv, SocketFile
    <2>7. BatchInv'
      BY <1>1, <2>1 DEF BatchInv
    <2> QED
      BY <2>2, <2>3, <2>4, <2>5, <2>6, <2>7 DEF ServerInv
  <1> QED
    BY <1>2, <1>3

\* The inductive invariant holds in every reachable state of the server.
THEOREM ServerInvariant == SafeSpec => []ServerInv
  BY ServerInit, ServerNext, PTL DEF SafeSpec

\* The variables of the event loop, the pool and the start sequence keep their
\* types.
THEOREM ServerTypeCorrect == SafeSpec => []TypeOK
  <1>1. ServerInv => TypeOK
    BY DEF ServerInv
  <1> QED
    BY <1>1, ServerInvariant, PTL

\* The connection table, the descriptors, the bridges and the queue of the pool
\* agree, with any number of connections: main.cpp erases an entry, closes its
\* descriptor and drops its bridge in one step of the loop, so none of them is
\* left behind, and a worker of a connection that is gone finds both error flags.
THEOREM TablesAgree == SafeSpec => []TableAgrees
  <1>1. ASSUME ServerInv PROVE TableAgrees
    <2>1. TypeOK /\ TableInv /\ BacklogInv /\ QueueInv /\ BridgeInv
      BY <1>1 DEF ServerInv
    <2>2. ASSUME NEW c \in Clients
          PROVE  Cardinality({f \in Fd : connections[f].client = c}) =
                   (IF sock[c] = "open" THEN 1 ELSE 0)
      <3>1. c # NoClient
        BY ServerAssumption
      <3>2. CASE sock[c] = "open"
        <4>1. PICK f \in Fd : connections[f].client = c
          BY <2>1, <3>2 DEF TableInv
        <4>2. {g \in Fd : connections[g].client = c} = {f}
          BY <2>1, <3>1, <4>1 DEF TableInv
        <4> QED
          BY <3>2, <4>2, FS_Singleton
      <3>3. CASE sock[c] # "open"
        <4>1. {g \in Fd : connections[g].client = c} = {}
          BY <2>1, <3>1, <3>3 DEF TableInv
        <4> QED
          BY <3>3, <4>1, FS_EmptySet
      <3> QED
        BY <3>2, <3>3
    <2>3. ASSUME NEW c \in Clients
          PROVE  Cardinality({i \in 1..Len(backlog) : backlog[i] = c}) =
                   (IF sock[c] = "backlog" THEN 1 ELSE 0)
      <3>1. PICK S : S = {d \in Clients : sock[d] = "backlog"}
        OBVIOUS
      <3>2. backlog \in Seq(Clients) /\ Lists(backlog, S)
        BY <2>1, <3>1 DEF TypeOK, BacklogInv
      <3>3. Cardinality({i \in 1..Len(backlog) : backlog[i] = c}) =
              IF c \in S THEN 1 ELSE 0
        BY <3>2, ListsCount
      <3> QED
        BY <3>1, <3>3
    <2>4. ASSUME NEW c \in Clients
          PROVE  Cardinality({i \in 1..Len(tasks) : tasks[i] = c}) =
                   (IF job[c] = "queued" THEN 1 ELSE 0)
      <3>1. PICK S : S = {d \in Clients : job[d] = "queued"}
        OBVIOUS
      <3>2. tasks \in Seq(Clients) /\ Lists(tasks, S)
        BY <2>1, <3>1 DEF TypeOK, QueueInv
      <3>3. Cardinality({i \in 1..Len(tasks) : tasks[i] = c}) =
              IF c \in S THEN 1 ELSE 0
        BY <3>2, ListsCount
      <3> QED
        BY <3>1, <3>3
    <2>5. \A c \in Clients : sock[c] = "closed" /\ job[c] \notin {"none", "done"} =>
                               io[c].rerr /\ io[c].werr
      BY <2>1 DEF BridgeInv
    <2>6. \A f \in Fd : connections[f] # NoConn =>
            (connections[f].active <=> job[connections[f].client] # "none")
      BY <2>1 DEF TableInv
    <2>7. \A f \in Fd : pc # "loop" => connections[f] = NoConn
      BY <2>1 DEF TableInv
    <2> QED
      BY <2>2, <2>3, <2>4, <2>5, <2>6, <2>7 DEF TableAgrees
  <1> QED
    BY <1>1, ServerInvariant, PTL

\* Whatever workers have left for the loop when it goes back to epoll_wait has an
\* event that will bring it back: one eventfd read for all workers loses nothing.
THEOREM NothingIsForgotten == SafeSpec => []NothingForgotten
  <1>1. ServerInv => NothingForgotten
    BY DEF ServerInv, AnnouncedInv, NothingForgotten
  <1> QED
    BY <1>1, ServerInvariant, PTL

\* The socket file is the instance's own while it serves, a stale one never stops
\* a start, and none is left behind, on the failure paths too.
THEOREM SocketFileKept == SafeSpec => []SocketFile
  <1>1. ServerInv => SocketFile
    BY DEF ServerInv
  <1> QED
    BY <1>1, ServerInvariant, PTL

\* The reasons for which the loop closes a connection.
Cause(f) ==
  LET c == connections[f].client IN
  \/ job[c] = "done" /\ (c \in answered' \/ io[c].werr)
  \/ req[c].quit # "no"
  \/ pc' = "drain"
  \/ batch.fd[f].client # c /\ connections[f] = NewConn(c)

\* The loop closes the connections it means to close, and no other.
LEMMA OnlyThose ==
  ASSUME TypeOK, TableInv, NEW S \in SUBSET Fd, Closing(S), NEW f \in Fd,
         connections[f] # NoConn, connections'[f] = NoConn
  PROVE  f \in S
  <1>1. connections[f].client # NoClient
    BY ClientOf, ServerAssumption
  <1> QED
    BY <1>1, RecordTypes DEF Closing, Kept

\* Whatever step closes a connection, there is a reason.
LEMMA ClosesWithCause ==
  ASSUME ServerInv, Next, NEW f \in Fd,
         connections[f] # NoConn, connections'[f] = NoConn
  PROVE  Cause(f)
  <1>1. TypeOK /\ TableInv /\ BacklogInv /\ BridgeInv /\ BatchInv
    BY DEF ServerInv
  <1>2. PICK c \in Clients : c = connections[f].client /\ sock[c] = "open"
    BY <1>1, ClientOf
  <1>3. /\ io[c].fin <=> job[c] = "done"
        /\ io[c].werr => io[c].fin
        /\ job[c] = "done" /\ ~io[c].werr => io[c].buf \/ c \in answered
    BY <1>1, <1>2 DEF BridgeInv
  <1>4. CASE EpollFails \/ ExitLoop
    BY <1>4 DEF EpollFails, ExitLoop, LeaveLoop, Cause
  <1>5. CASE ScanConnections
    <2>1. PICK S \in SUBSET Fd : Closing(S) /\ Scanned(S)
      BY <1>1, <1>5, ScanFacts
    <2>2. f \in S
      BY <1>1, <2>1, OnlyThose
    <2>3. io[c].werr \/ isFinished(io[c])
      BY <1>2, <2>1, <2>2 DEF Scanned
    <2>4. answered \subseteq answered'
      BY <2>1 DEF Closing
    <2> QED
      BY <1>2, <1>3, <2>3, <2>4 DEF Cause, isFinished
  <1>6. ASSUME NEW g \in Fd, HangUp(g) PROVE Cause(f)
    <2>1. Closing({g}) /\ {g} \in SUBSET Fd
      BY <1>1, <1>6, ClosingOne
    <2>2. f = g
      BY <1>1, <2>1, OnlyThose
    <2>3. "hup" \in batch.fd[f].ev
      BY <1>6, <2>2 DEF HangUp
    <2>4. IF connections[f].client = batch.fd[f].client
          THEN req[connections[f].client].quit = "reset"
          ELSE connections[f] = NewConn(connections[f].client)
      BY <1>1, <2>3 DEF BatchInv
    <2> QED
      BY <2>4 DEF Cause
  <1>7. ASSUME NEW g \in Fd, RecvClose(g) \/ OutError(g) PROVE Cause(f)
    <2>1. Closing({g}) /\ {g} \in SUBSET Fd
      BY <1>1, <1>7, ClosingOne
    <2>2. f = g
      BY <1>1, <2>1, OnlyThose
    <2> QED
      BY <1>7, <2>2 DEF RecvClose, OutError, Cause
  <1>8. ASSUME NEW g \in Fd, OutSend(g) PROVE Cause(f)
    <2>1. CASE OutStays(g)
      <3>1. Stay(g)
        BY <1>1, <2>1, OutStaysFacts
      <3>2. connections'[f].client = connections[f].client
        BY <3>1 DEF Stay
      <3> QED
        BY <1>2, <3>2, RecordTypes, ServerAssumption
    <2>2. CASE ~OutStays(g)
      <3>1. PICK b : b = [io[connections[g].client] EXCEPT
                            !.buf = FALSE,
                            !.pend = @ /\ ~io[connections[g].client].buf]
        OBVIOUS
      <3>2. isFinished(b) /\ Close(connections, {g})
        BY <1>8, <2>2, <3>1 DEF OutSend, OutStays
      <3>3. OutCloses(g)
        BY <1>8, <3>2 DEF OutCloses
      <3>4. Closing({g}) /\ {g} \in SUBSET Fd
        BY <1>1, <3>3, ClosingOne
      <3>5. f = g
        BY <1>1, <3>4, OnlyThose
      <3>6. io[c] \in Bridges
        BY <1>1 DEF TypeOK
      <3>7. io[c].fin
        BY <1>2, <3>1, <3>2, <3>5, <3>6 DEF isFinished, Bridges
      <3>8. answered' = IF io[c].buf /\ job[c] # "more"
                        THEN answered \cup {c} ELSE answered
        BY <1>2, <1>8, <3>5 DEF OutSend
      <3> QED
        BY <1>2, <1>3, <3>7, <3>8 DEF Cause
    <2> QED
      BY <2>1, <2>2
  <1>9. ASSUME NEW g \in Fd,
               RecvNothing(g) \/ RecvHeaders(g) \/ RecvBody(g) \/ OutBlocked(g)
        PROVE  FALSE
    <2>1. Stay(g)
      BY <1>1, <1>9, RecvNothingFacts, RecvHeadersFacts, RecvBodyFacts,
         OutBlockedFacts
    <2>2. connections'[f].client = connections[f].client
      BY <2>1 DEF Stay
    <2> QED
      BY <1>2, <2>2, RecordTypes, ServerAssumption
  <1>10. CASE Accept
    <2>1. PICK n \in 0..Len(backlog) : Accepted(n)
      BY <1>1, <1>10, AcceptFacts
    <2> QED
      BY <2>1 DEF Accepted
  <1>11. UNCHANGED connections => FALSE
    OBVIOUS
  <1>12. CASE StartStep \/ EndStep \/ OtherUnlink \/ OtherBind \/ Signal
    <2>1. CASE Destroy
      BY <1>11, <2>1 DEF Destroy, loopVars
    <2>2. CASE QuietStep
      BY <1>11, <2>2, QuietFacts DEF Quiet, loopVars
    <2> QED
      BY <1>12, <2>1, <2>2 DEF EndStep, QuietStep
  <1>13. CASE EpollWait \/ AcceptUnwatched
    BY <1>11, <1>13 DEF EpollWait, AcceptUnwatched, loopVars
  <1>14. ASSUME NEW g \in Fd, Skip(g) \/ OutNoBridge(g) PROVE FALSE
    BY <1>11, <1>14 DEF Skip, OutNoBridge
  <1>15. ASSUME NEW d \in Clients,
                Connect(d) \/ ClientOwn(d)
         PROVE  FALSE
    BY <1>11, <1>15 DEF Connect, ClientOwn, ClientSend, ClientRead, ClientQuit, loopVars
  <1>16. ASSUME NEW d \in Clients, WorkerStep(d) PROVE FALSE
    <2>1. Work(d)
      BY <1>1, <1>16, WorkFacts
    <2> QED
      BY <1>11, <2>1 DEF Work
  <1> QED
    BY <1>4, <1>5, <1>6, <1>7, <1>8, <1>9, <1>10, <1>12, <1>13, <1>14, <1>15,
       <1>16 DEF Next, LoopStep, ClientOwn

\* A connection is closed for a reason of its own (it is answered, its worker or
\* its client has given up, the loop ends), or as a new one by a hang-up of the
\* connection whose descriptor number it took (main.cpp:419-427).
THEOREM ClosesForCause == SafeSpec => ClosedForCause
  <1>1. ServerInv /\ [Next]_vars =>
          [\A f \in Fd :
             LET c == connections[f].client IN
             connections[f] # NoConn /\ connections'[f] = NoConn =>
               \/ job[c] = "done" /\ (c \in answered' \/ io[c].werr)
               \/ req[c].quit # "no"
               \/ pc' = "drain"
               \/ batch.fd[f].client # c /\ connections[f] = NewConn(c)]_vars
    <2>1. ASSUME ServerInv, Next, NEW f \in Fd,
                 connections[f] # NoConn, connections'[f] = NoConn
          PROVE  Cause(f)
      BY <2>1, ClosesWithCause
    <2> QED
      BY <2>1 DEF Cause
  <1> QED
    BY <1>1, ServerInvariant, PTL DEF SafeSpec, ClosedForCause
===============================================================================
