--------------------------- MODULE FilterChainProofs ---------------------------
(***************************************************************************)
(* Proofs about the filter chain and the samples, for any number of        *)
(* modules, body pieces and calls.                                         *)
(***************************************************************************)
EXTENDS SampleFilters, FiniteSetTheorems, SequenceTheorems, TLAPS

----------------------------------------------------------------------------
(* The inductive invariant *)

\* Module m has been reached by the loop of the current phase.
Called(m) == m < next \/ (calling /\ m = next)

\* The contexts of the modules are being destroyed, or are gone.
Late == phase \in {"teardown", "finish_r", "ended"}

\* Where the request may be: callbacks run only in the loops, not after a local
\* response, and a local response is known to the host once its callback has
\* returned.
PosInv ==
  /\ calling => phase \in RequestPhases \cup ResponsePhases \cup {"teardown"}
  /\ calling /\ ~Late => ~has_local_response
  /\ phase \in {"parse", "request_headers"} => consumed = 0
  /\ phase = "parse" => next = 1 /\ transport = "http"
  /\ outcome # "none" => Late
  /\ \A m \in Modules : local_response[m] =>
       has_local_response \/ (calling /\ next = m) \/ Late

\* A module has a scope from its first callback to the end of its last.
ScopeInv ==
  /\ calling => scope[next] = "live"
  /\ calling /\ phase = "teardown" =>
       seen[next][Len(seen[next])][1] = "teardown"
  /\ \A m \in Modules :
       /\ scope[m] = "none" <=> seen[m] = <<>>
       /\ phase = "parse" => scope[m] = "none"
       /\ phase = "request_headers" /\ ~Called(m) => scope[m] = "none"
       /\ scope[m] = "gone" => Late /\ seen[m][Len(seen[m])][1] = "teardown"
       /\ phase \in {"finish_r", "ended"} => scope[m] # "live"

\* The phase of the i-th callback of module m, as a number, and whether it was
\* told that the body is complete.
RankAt(m, i) == Rank[seen[m][i][1]]
EosAt(m, i) == RankAt(m, i) <= 2 /\ seen[m][i][2]

\* What module m has seen is in order.
Ordered(m) ==
  /\ seen[m] # <<>> => seen[m][1][1] = "request_headers"
  /\ \A i, j \in 1..Len(seen[m]) : i < j =>
       \/ RankAt(m, i) < RankAt(m, j)
       \/ RankAt(m, i) = 2 /\ RankAt(m, j) = 2

\* A callback of module m with rank r is not ahead of the request, and strictly
\* behind it while the loop of the phase has not reached the module.
Behind(m, r) ==
  /\ phase # "parse"
  /\ phase \in {"request_headers", "read_body", "request_body"} => r <= 2
  /\ phase \in {"request_trailers"} \cup ResponsePhases =>
       r < Rank[phase] \/ (Called(m) /\ r = Rank[phase])
  /\ ~Late => r <= 6
  /\ phase = "teardown" /\ scope[m] = "live" /\ ~(calling /\ next = m) => r <= 6

OrderInv ==
  \A m \in Modules :
    Ordered(m) /\ \A i \in 1..Len(seen[m]) : Behind(m, RankAt(m, i))

\* Module m was told that the body is complete.
Told(m) == \E i \in 1..Len(seen[m]) : EosAt(m, i)

\* A module is told once, and before anything that follows the body.
ToldInOrder(m) ==
  /\ \A i, j \in 1..Len(seen[m]) : i < j /\ EosAt(m, i) => RankAt(m, j) # 2
  /\ \A i \in 1..Len(seen[m]) : RankAt(m, i) \in 3..6 =>
       \E j \in 1..(i - 1) : EosAt(m, j)

\* It is told only when the body is complete, and then at once.
ToldInTime(m) ==
  /\ Told(m) => consumed >= total
  /\ phase = "request_body" /\ ~Called(m) => ~Told(m)
  /\ scope[m] = "live" /\ consumed >= total =>
       \/ Told(m)
       \/ phase = "read_body" /\ has_local_response
       \/ phase = "request_body" /\ ~Called(m)
       \/ phase \in {"respond_head", "respond_body", "respond_finish"}
       \/ Late
  /\ scope[m] = "live" /\ consumed < total =>
       phase \notin {"request_trailers"} \cup ResponsePhases

EosInv == \A m \in Modules : ToldInOrder(m) /\ ToldInTime(m)

\* While no module has answered, all have seen the same number of callbacks, up
\* to the loop of the current phase; one that answered locally is ahead of those
\* behind it.
ChainInv ==
  /\ phase = "request_headers" =>
       \A m \in Modules : scope[m] = "live" => Len(seen[m]) = 1
  /\ \A m, k \in Modules :
       m < k /\ scope[m] = "live" /\ scope[k] = "live" /\ ~Late =>
         IF has_local_response
         THEN local_response[m] => Len(seen[k]) < Len(seen[m])
         ELSE Len(seen[m]) = Len(seen[k]) +
                (IF phase \in CallbackPhases /\ Called(m) /\ ~Called(k)
                 THEN 1 ELSE 0)

\* No onDone has run.
Fresh == ~Late \/ Decided

\* Module m is the only one that streams.
Only(m) ==
  /\ streaming_state[m] # "Idle"
  /\ \A k \in Modules : streaming_state[k] # "Idle" => k = m

\* What a module that streams alone has written.
StreamWire(m) ==
  /\ Len(wire) >= 1
  /\ transport = "http" =>
       /\ wire[1] = <<"chunked_head", m>>
       /\ streaming_state[m] = "HeadersSent" =>
            \A i \in 2..Len(wire) : wire[i] = <<"chunk", m>>
       /\ streaming_state[m] = "Finished" => Complete(wire, m)
  /\ transport = "lsapi" => sink_error \/ Complete(wire, m)

Responding == phase \in {"respond_body", "respond_finish", "teardown"}

\* What is on the wire before the contexts are destroyed, if at most one module
\* streams.
WireInv ==
  Fresh =>
    /\ ~hasStreamingResponse /\ ~Responding => wire = <<>> /\ resp_header
    /\ \A m \in Modules : Only(m) /\ ~Responding => StreamWire(m)
    /\ phase \in {"respond_head", "respond_body", "respond_finish"} =>
         ~hasStreamingResponse \/ has_local_response
    /\ ~hasStreamingResponse /\ phase = "respond_body" =>
         \/ wire = << <<"head", Origin>> >>
         \/ transport = "lsapi" /\ sink_error
    /\ ~hasStreamingResponse /\ phase = "respond_finish" =>
         \/ Complete(wire, Origin)
         \/ transport = "lsapi" /\ sink_error
    /\ phase = "teardown" /\ Succeeds =>
         \/ ~hasStreamingResponse /\ Complete(wire, Origin)
         \/ \E m \in Modules : streaming_state[m] # "Idle"
              /\ (Only(m) => Complete(wire, m) \/ has_local_response)

\* Over LSAPI the header block is open exactly until a head was written, and
\* nobody writes a body before that.
LsapiInv ==
  transport = "lsapi" =>
    /\ phase # "ended" =>
         /\ resp_header <=> wire = <<>>
         /\ \A m \in Modules : streaming_state[m] # "Idle" => ~resp_header
         /\ phase = "respond_body" => sink_error \/ ~resp_header
         /\ wire # <<>> => wire[1][1] = "head"
         /\ \A i \in 2..Len(wire) : wire[i][1] \in {"body", "stray_headers"}
    /\ LsapiOneResponse

FilterInv ==
  /\ TypeOK /\ PosInv /\ ScopeInv /\ OrderInv /\ EosInv /\ ChainInv
  /\ WireInv /\ LsapiInv

----------------------------------------------------------------------------
(* Facts about the constants *)

\* The phases in which a module is called, and their order.
LEMMA Ranks ==
  /\ DOMAIN Rank = RequestPhases \cup ResponsePhases \cup {"teardown"}
  /\ Rank["request_headers"] = 1 /\ Rank["request_body"] = 2
  /\ Rank["request_trailers"] = 3 /\ Rank["response_headers"] = 4
  /\ Rank["response_body"] = 5 /\ Rank["response_trailers"] = 6
  /\ Rank["teardown"] = 7
  BY DEF Rank, RequestPhases, ResponsePhases

\* The parties that write.
LEMMA OriginsAll ==
  /\ \A m \in Modules : m \in Origins
  /\ Local \in Origins /\ Default \in Origins /\ Lsapi \in Origins
  /\ Local \notin Modules /\ Default \notin Modules /\ Lsapi \notin Modules
  BY ChainAssumption DEF Modules, Origins, Local, Default, Lsapi

----------------------------------------------------------------------------
(* What the sinks and the callbacks do *)

\* The part of the type invariant that a sink may disturb.
SinkType ==
  /\ sink_error \in BOOLEAN /\ resp_header \in BOOLEAN /\ resp_body \in BOOLEAN
  /\ fd_open \in BOOLEAN /\ wire \in Seq(Kinds \X Origins)

\* A piece is added behind the others.
LEMMA PutFacts ==
  ASSUME wire \in Seq(Kinds \X Origins), NEW k \in Kinds, NEW o \in Origins,
         Put(k, o)
  PROVE  /\ wire' \in Seq(Kinds \X Origins)
         /\ Len(wire') = Len(wire) + 1 /\ wire' # <<>>
         /\ wire'[Len(wire) + 1] = <<k, o>>
         /\ \A i \in 1..Len(wire) : wire'[i] = wire[i]
  BY DEF Put

\* Only the empty sequence has no elements.
LEMMA EmptyLen ==
  ASSUME NEW S, NEW s \in Seq(S)
  PROVE  Len(s) = 0 <=> s = << >>
  OBVIOUS

\* Sequences put together.
LEMMA ConcatType ==
  ASSUME NEW S, NEW a \in Seq(S), NEW b \in Seq(S), NEW c \in Seq(S)
  PROVE  a \o b \o c \in Seq(S)
  OBVIOUS

\* Two pieces put together.
LEMMA ConcatTwo ==
  ASSUME NEW a, NEW b
  PROVE  << >> \o <<a>> \o <<b>> = <<a, b>>
  <1>1. << >> \o <<a>> = <<a>>
    OBVIOUS
  <1>2. <<a>> \in Seq({a, b}) /\ <<b>> \in Seq({a, b})
    OBVIOUS
  <1>3. PICK s \in Seq({a, b}) : s = <<a>> \o <<b>>
    BY <1>2, ConcatProperties
  <1>4. <<a, b>> \in Seq({a, b})
    OBVIOUS
  <1>5. PICK t \in Seq({a, b}) : t = <<a, b>>
    BY <1>4
  <1>6. Len(s) = 2 /\ s[1] = a /\ s[2] = b
    BY <1>3
  <1>7. Len(t) = 2 /\ t[1] = a /\ t[2] = b
    BY <1>5
  <1>8. s = t
    BY <1>6, <1>7, SeqEqual
  <1> QED
    BY <1>1, <1>3, <1>5, <1>8

\* The first piece.
LEMMA PutFirst ==
  ASSUME wire = << >>, NEW k, NEW o, Put(k, o)
  PROVE  wire' = << <<k, o>> >>
  BY DEF Put

\* The kinds of pieces the steps use.
LEMMA KindsAll ==
  {"head", "chunked_head", "body", "chunk", "last", "stray_headers", "end"}
    \subseteq Kinds
  BY DEF Kinds

\* No call of a sink breaks the types.
LEMMA SinkTypes ==
  ASSUME SinkType, NEW o \in Origins, NEW ok \in BOOLEAN, NEW named \in BOOLEAN,
         NEW k \in Kinds,
         \/ HttpSendHeaders(o, ok) \/ LsapiSendHeaders(o, named, ok)
         \/ writeBody(k, o) \/ finishBody(o, ok)
  PROVE  SinkType'
  <1> USE KindsAll DEF SinkType
  <1>1. CASE HttpSendHeaders(o, ok)
    BY <1>1, PutFacts DEF HttpSendHeaders
  <1>2. CASE LsapiSendHeaders(o, named, ok)
    BY <1>2, PutFacts DEF LsapiSendHeaders
  <1>3. CASE writeBody(k, o)
    BY <1>3, PutFacts DEF writeBody, sinkVars
  <1>4. CASE finishBody(o, ok)
    BY <1>4, PutFacts DEF finishBody, sinkVars
  <1> QED
    BY <1>1, <1>2, <1>3, <1>4

\* What a filter may do in a callback leaves the request where it is.
LEMMA FilterFacts ==
  ASSUME TypeOK, Filter
  PROVE  /\ calling /\ next \in Modules /\ calls' = calls + 1
         /\ UNCHANGED <<transport, total, phase, next, calling, consumed, scope,
                        has_local_response, outcome, seen>>
         /\ streaming_state' \in
              [Modules -> {"Idle", "HeadersSent", "Finished"}]
         /\ local_response' \in [Modules -> BOOLEAN]
         /\ \A m \in Modules :
              /\ m # next => local_response'[m] = local_response[m]
              /\ m # next => streaming_state'[m] = streaming_state[m]
              /\ streaming_state[m] # "Idle" => streaming_state'[m] # "Idle"
         /\ SinkType'
  <1> USE DEF InCallback, hostVars, posVars
  <1>0. SinkType /\ next \in Origins /\ "chunk" \in Kinds
    <2>1. calling
      BY DEF Filter, streamingSendHeaders, streamingWriteChunk,
         streamingFinish, sendLocalResponse
    <2> QED
      BY <2>1, OriginsAll, KindsAll DEF TypeOK, SinkType
  <1>1. CASE streamingSendHeaders
    <2>1. PICK ok \in BOOLEAN, named \in BOOLEAN :
            /\ \/ transport = "http" /\ HttpSendHeaders(next, ok)
               \/ transport = "lsapi" /\ LsapiSendHeaders(next, named, ok)
            /\ streaming_state' = [streaming_state EXCEPT ![next] =
                                     IF ok THEN "HeadersSent" ELSE "Idle"]
      BY <1>1 DEF streamingSendHeaders
    <2>2. SinkType'
      BY <1>0, <2>1, SinkTypes
    <2> QED
      BY <1>1, <2>1, <2>2 DEF streamingSendHeaders, TypeOK
  <1>2. CASE streamingWriteChunk
    <2>1. SinkType'
      BY <1>0, <1>2, SinkTypes DEF streamingWriteChunk
    <2> QED
      BY <1>2, <2>1 DEF streamingWriteChunk, TypeOK
  <1>3. CASE streamingFinish
    <2>1. PICK ok \in BOOLEAN :
            /\ finishBody(next, ok)
            /\ streaming_state' = [streaming_state EXCEPT ![next] =
                                     IF ok THEN "Finished" ELSE "HeadersSent"]
      BY <1>3 DEF streamingFinish
    <2>2. SinkType'
      BY <1>0, <2>1, SinkTypes
    <2> QED
      BY <1>3, <2>1, <2>2 DEF streamingFinish, TypeOK
  <1>4. CASE sendLocalResponse
    <2>1. SinkType'
      BY <1>0, <1>4 DEF sendLocalResponse, SinkType, sinkVars
    <2> QED
      BY <1>4, <2>1 DEF sendLocalResponse, TypeOK
  <1> QED
    BY <1>1, <1>2, <1>3, <1>4 DEF Filter

\* A callback starts.
CallStep == CreateScope \/ Callback \/ Done

\* One more callback of one module is recorded; the loop of the phase has not
\* reached the module before, and has skipped only modules without a scope.
CallOf(m) ==
  /\ ~calling /\ calling' = TRUE /\ next' = m
  /\ UNCHANGED <<transport, total, phase, consumed, streaming_state,
                 local_response, calls, has_local_response, sink_error,
                 resp_header, resp_body, fd_open, wire, outcome>>
  /\ seen' \in [Modules -> Seq((DOMAIN Rank) \X BOOLEAN)]
  /\ Len(seen'[m]) = Len(seen[m]) + 1
  /\ \A i \in 1..Len(seen[m]) : seen'[m][i] = seen[m][i]
  /\ seen'[m][Len(seen[m]) + 1] = <<phase, consumed >= total>>
  /\ \A k \in Modules : k # m =>
       seen'[k] = seen[k] /\ scope'[k] = scope[k]
  /\ scope' \in [Modules -> {"none", "live", "gone"}]
  /\ scope'[m] = "live"
  /\ \/ /\ phase = "request_headers" /\ m = next
        /\ scope[m] = "none" /\ ~has_local_response
     \/ /\ phase \in CallbackPhases /\ m >= next
        /\ scope[m] = "live" /\ ~has_local_response
        /\ \A k \in Modules : next <= k /\ k < m => scope[k] # "live"
     \/ phase = "teardown" /\ scope[m] = "live"

\* A callback of a module starts: what every such step does.
LEMMA CallFacts ==
  ASSUME TypeOK, PosInv, ScopeInv, CallStep
  PROVE  \E m \in Modules : CallOf(m)
  <1> USE ChainAssumption DEF hostVars, filterVars, sinkVars, Call
  <1>1. PICK m \in Modules :
          /\ Call(m) /\ ~calling
          /\ scope' \in [Modules -> {"none", "live", "gone"}]
          /\ scope'[m] = "live"
          /\ \A k \in Modules : k # m => scope'[k] = scope[k]
          /\ \/ /\ phase = "request_headers" /\ m = next
                /\ scope[m] = "none" /\ ~has_local_response
             \/ /\ phase \in CallbackPhases /\ m >= next
                /\ scope[m] = "live" /\ ~has_local_response
                /\ \A k \in Modules : next <= k /\ k < m => scope[k] # "live"
             \/ phase = "teardown" /\ scope[m] = "live"
    <2>1. CASE CreateScope
      <3>1. next \in Modules
        BY <2>1 DEF CreateScope, TypeOK, Modules
      <3>2. scope[next] = "none"
        BY <2>1, <3>1 DEF CreateScope, ScopeInv, Called, TypeOK, Modules
      <3> QED
        BY <2>1, <3>1, <3>2 DEF CreateScope, TypeOK
    <2>2. CASE Callback
      <3>1. PICK m \in next..N :
              /\ scope[m] = "live" /\ Call(m)
              /\ \A k \in next..(m - 1) : scope[k] # "live"
        BY <2>2 DEF Callback
      <3>2. m \in Modules /\ m >= next
        BY <3>1 DEF TypeOK, Modules
      <3>3. \A k \in Modules : next <= k /\ k < m => scope[k] # "live"
        BY <3>1, <3>2 DEF TypeOK, Modules
      <3> QED
        BY <2>2, <3>1, <3>2, <3>3 DEF Callback, Stopped, TypeOK
    <2>3. CASE Done
      BY <2>3 DEF Done, TypeOK
    <2> QED
      BY <2>1, <2>2, <2>3 DEF CallStep
  <1>2. <<phase, consumed >= total>> \in (DOMAIN Rank) \X BOOLEAN
    <2>1. phase \in DOMAIN Rank
      BY <1>1, Ranks DEF CallbackPhases, RequestPhases, ResponsePhases
    <2>2. (consumed >= total) \in BOOLEAN
      OBVIOUS
    <2> QED
      BY <2>1, <2>2, Zenon
  <1>3. seen[m] \in Seq((DOMAIN Rank) \X BOOLEAN)
    BY DEF TypeOK
  <1>4. seen'[m] = Append(seen[m], <<phase, consumed >= total>>)
    BY <1>1 DEF EndOfStream, TypeOK
  <1>5. \A k \in Modules : k # m => seen'[k] = seen[k]
    BY <1>1 DEF TypeOK
  <1>6. seen' \in [Modules -> Seq((DOMAIN Rank) \X BOOLEAN)]
    <2>1. Append(seen[m], <<phase, consumed >= total>>)
            \in Seq((DOMAIN Rank) \X BOOLEAN)
      BY <1>2, <1>3
    <2> QED
      BY <1>1, <2>1 DEF EndOfStream, TypeOK
  <1>7. /\ Len(seen'[m]) = Len(seen[m]) + 1
        /\ \A i \in 1..Len(seen[m]) : seen'[m][i] = seen[m][i]
        /\ seen'[m][Len(seen[m]) + 1] = <<phase, consumed >= total>>
    BY <1>2, <1>3, <1>4
  <1> QED
    BY <1>1, <1>5, <1>6, <1>7 DEF CallOf

\* What a module has seen are phases in which a module is called.
LEMMA RankTypes ==
  ASSUME TypeOK, NEW m \in Modules, NEW i \in 1..Len(seen[m])
  PROVE  /\ seen[m][i][1] \in DOMAIN Rank /\ seen[m][i][2] \in BOOLEAN
         /\ RankAt(m, i) \in 1..7
         /\ RankAt(m, i) = 1 <=> seen[m][i][1] = "request_headers"
         /\ RankAt(m, i) = 2 <=> seen[m][i][1] = "request_body"
         /\ RankAt(m, i) = 7 <=> seen[m][i][1] = "teardown"
  <1>1. seen[m][i] \in (DOMAIN Rank) \X BOOLEAN
    BY DEF TypeOK
  <1>2. seen[m][i][1] \in DOMAIN Rank /\ seen[m][i][2] \in BOOLEAN
    BY <1>1
  <1> QED
    BY <1>2, Ranks DEF RankAt, RequestPhases, ResponsePhases

\* The steps of the host that call no module.
MoveStep ==
  \/ Parse \/ CreateScopeFails \/ EndCallback \/ Throw
  \/ EndRequestHeaders \/ ReadBody \/ EndRequestBody \/ EndRequestTrailers
  \/ EndResponsePhase \/ EndResponseTrailers
  \/ RespondHead \/ RespondBody \/ RespondFinish
  \/ EndDone \/ Returned \/ LSAPI_Finish_r

\* The loops that a step may leave: all modules with a scope were reached, or a
\* local response stopped the loop.
LoopOver ==
  has_local_response \/ \A m \in Modules : scope[m] = "live" => m < next

\* From one phase to another, between two callbacks.
Moved(from, to) ==
  /\ phase = from /\ phase' = to /\ ~calling /\ ~calling'
  /\ UNCHANGED scope
  /\ (to \notin {"respond_body", "respond_finish", "ended"} => next' = 1)

\* A module without a scope is left out of the loop; a callback ends, with an
\* exception or without one, or the last callback of a module does; a piece of
\* the body is read; or the request passes to another phase.
ModuleSkipped ==
  /\ phase = "request_headers" /\ ~calling /\ ~calling'
  /\ next \in Modules /\ next' = next + 1
  /\ UNCHANGED <<phase, scope, consumed, has_local_response>>
CallbackEnds ==
  /\ phase \in RequestPhases \cup ResponsePhases
  /\ calling /\ ~calling' /\ next' = next + 1
  /\ UNCHANGED <<phase, scope, consumed>>
  /\ has_local_response' = (has_local_response \/ local_response[next])
CallbackThrows ==
  /\ phase \in RequestPhases \cup ResponsePhases
  /\ calling /\ ~calling' /\ phase' = "teardown"
  /\ UNCHANGED <<next, scope, consumed, has_local_response>>
DoneEnds ==
  /\ phase = "teardown" /\ calling /\ ~calling'
  /\ UNCHANGED <<phase, next, consumed, has_local_response>>
  /\ scope' = [scope EXCEPT ![next] = "gone"]
PieceRead ==
  /\ Moved("read_body", "request_body")
  /\ consumed < total /\ consumed' = consumed + 1
  /\ ~has_local_response /\ UNCHANGED has_local_response
PhasePassed ==
  /\ UNCHANGED <<consumed, has_local_response>>
  /\ \/ Moved("parse", "request_headers") \/ Moved("parse", "ended")
     \/ Moved("request_headers", "respond_head") /\ has_local_response
     \/ /\ Moved("request_headers", "read_body") /\ ~has_local_response
        /\ LoopOver
     \/ /\ Moved("read_body", "request_trailers")
        /\ consumed >= total /\ ~has_local_response
     \/ Moved("read_body", "respond_head") /\ has_local_response
     \/ Moved("read_body", "teardown")
     \/ Moved("request_body", "read_body") /\ LoopOver
     \/ Moved("request_trailers", "respond_head") /\ has_local_response
     \/ Moved("request_trailers", "teardown")
     \/ /\ Moved("request_trailers", "response_headers")
        /\ LoopOver /\ ~has_local_response
     \/ Moved("response_headers", "response_body") /\ LoopOver
     \/ Moved("response_body", "response_trailers") /\ LoopOver
     \/ Moved("response_trailers", "teardown")
     \/ Moved("response_trailers", "respond_head") /\ LoopOver
     \/ Moved("respond_head", "respond_body")
     \/ Moved("respond_body", "respond_finish")
     \/ Moved("respond_finish", "teardown")
     \/ /\ Moved("teardown", "ended") \/ Moved("teardown", "finish_r")
        /\ \A m \in Modules : scope[m] # "live"
     \/ Moved("finish_r", "ended")
MoveOf ==
  \/ ModuleSkipped \/ CallbackEnds \/ CallbackThrows \/ DoneEnds \/ PieceRead
  \/ PhasePassed

\* A step that moves the request on: what every such step does.
LEMMA MoveFacts ==
  ASSUME TypeOK, PosInv, MoveStep
  PROVE  /\ MoveOf
         /\ UNCHANGED <<transport, total, seen, streaming_state, local_response,
                        calls>>
  <1> USE ChainAssumption DEF hostVars, filterVars, RequestPhases,
         ResponsePhases, CallbackPhases
  <1>1. CASE Parse
    BY <1>1 DEF Parse, Continue, Go, MoveOf, Moved, TypeOK, PhasePassed, PosInv
  <1>2. CASE CreateScopeFails
    BY <1>2 DEF CreateScopeFails, MoveOf, Moved, TypeOK, ModuleSkipped, Modules
  <1>3. CASE EndCallback
    <2>1. phase \in RequestPhases \cup ResponsePhases
      BY <1>3 DEF EndCallback, PosInv
    <2>2. /\ calling /\ ~calling' /\ next' = next + 1
          /\ UNCHANGED <<phase, scope, consumed>>
          /\ has_local_response' = (has_local_response \/ local_response[next])
      BY <1>3 DEF EndCallback
    <2>3. UNCHANGED <<transport, total, seen, streaming_state, local_response,
                      calls>>
      BY <1>3 DEF EndCallback
    <2> QED
      BY <2>1, <2>2, <2>3, Zenon DEF MoveOf, CallbackEnds
  <1>4. CASE Throw
    <2>1. phase \in RequestPhases \cup ResponsePhases
      BY <1>4 DEF Throw, PosInv
    <2> QED
      BY <1>4, <2>1 DEF Throw, MoveOf, CallbackThrows
  <1>5. CASE EndRequestHeaders
    BY <1>5 DEF EndRequestHeaders, Continue, Go, PhaseOver, LoopOver, Stopped,
       Modules, MoveOf, Moved, TypeOK, PhasePassed
  <1>6. CASE ReadBody
    BY <1>6 DEF ReadBody, Continue, Return, Go, MoveOf, Moved, TypeOK,
       PieceRead, PhasePassed, PosInv
  <1>7. CASE EndRequestBody
    BY <1>7 DEF EndRequestBody, Continue, Go, PhaseOver, LoopOver, Stopped,
       Modules, MoveOf, Moved, TypeOK, PhasePassed
  <1>8. CASE EndRequestTrailers
    BY <1>8 DEF EndRequestTrailers, Continue, Return, Go, PhaseOver, LoopOver,
       Stopped, Modules, MoveOf, Moved, TypeOK, PhasePassed
  <1>9. CASE EndResponsePhase
    BY <1>9 DEF EndResponsePhase, Continue, Go, PhaseOver, LoopOver, Stopped,
       Modules, MoveOf, Moved, TypeOK, PhasePassed
  <1>10. CASE EndResponseTrailers
    BY <1>10 DEF EndResponseTrailers, Continue, Return, Go, PhaseOver,
       LoopOver, Stopped, Modules, MoveOf, Moved, TypeOK, PhasePassed
  <1>11. CASE RespondHead
    BY <1>11 DEF RespondHead, Respond, MoveOf, Moved, TypeOK, PhasePassed,
       PosInv
  <1>12. CASE RespondBody
    BY <1>12 DEF RespondBody, Respond, MoveOf, Moved, TypeOK, PhasePassed,
       PosInv
  <1>13. CASE RespondFinish
    BY <1>13 DEF RespondFinish, MoveOf, Moved, TypeOK, PhasePassed, PosInv
  <1>14. CASE EndDone
    BY <1>14 DEF EndDone, MoveOf, Moved, TypeOK, DoneEnds
  <1>15. CASE Returned
    BY <1>15 DEF Returned, Continue, Go, MoveOf, Moved, TypeOK, PhasePassed
  <1>16. CASE LSAPI_Finish_r
    BY <1>16 DEF LSAPI_Finish_r, MoveOf, Moved, TypeOK, PhasePassed, PosInv
  <1> QED
    BY <1>1, <1>2, <1>3, <1>4, <1>5, <1>6, <1>7, <1>8, <1>9, <1>10, <1>11,
       <1>12, <1>13, <1>14, <1>15, <1>16 DEF MoveStep

\* What the invariants say of the wire depends only on these variables.
LEMMA WireFrame ==
  ASSUME UNCHANGED <<transport, streaming_state, wire, sink_error>>
  PROVE  /\ hasStreamingResponse' <=> hasStreamingResponse
         /\ \A m \in Modules : Only(m)' <=> Only(m)
         /\ \A m \in Modules : StreamWire(m)' <=> StreamWire(m)
         /\ \A o \in Origins : Complete(wire, o)' <=> Complete(wire, o)
  <1>1. hasStreamingResponse' <=> hasStreamingResponse
    BY DEF hasStreamingResponse
  <1>2. ASSUME NEW m \in Modules PROVE Only(m)' <=> Only(m)
    BY DEF Only
  <1>3. ASSUME NEW o PROVE Complete(wire, o)' <=> Complete(wire, o)
    BY DEF Complete
  <1>4. ASSUME NEW m \in Modules PROVE StreamWire(m)' <=> StreamWire(m)
    BY <1>3 DEF StreamWire
  <1> QED
    BY <1>1, <1>2, <1>3, <1>4

\* A module that does not stream alone, or did not before the step.
LEMMA OnlyBefore ==
  ASSUME TypeOK, Filter, NEW m \in Modules, Only(m)'
  PROVE  /\ streaming_state[m] # "Idle" => Only(m)
         /\ streaming_state[m] = "Idle" => ~hasStreamingResponse
         /\ streaming_state[next] # "Idle" => m = next
  BY FilterFacts DEF Only, hasStreamingResponse

\* What LsapiInv says before the end.
LsapiWire ==
  /\ resp_header <=> wire = <<>>
  /\ \A m \in Modules : streaming_state[m] # "Idle" => ~resp_header
  /\ phase = "respond_body" => sink_error \/ ~resp_header
  /\ wire # <<>> => wire[1][1] = "head"
  /\ \A i \in 2..Len(wire) : wire[i][1] \in {"body", "stray_headers"}

\* A head in an open block, or a body piece or stray headers behind a head.
LEMMA LsapiPut ==
  ASSUME TypeOK, LsapiWire, NEW k \in Kinds, NEW o \in Origins, Put(k, o),
         IF resp_header THEN k = "head" ELSE k \in {"body", "stray_headers"}
  PROVE  /\ wire' # <<>> /\ wire'[1][1] = "head"
         /\ \A i \in 2..Len(wire') : wire'[i][1] \in {"body", "stray_headers"}
  <1>0. wire \in Seq(Kinds \X Origins)
    BY DEF TypeOK
  <1>1. /\ Len(wire') = Len(wire) + 1 /\ Len(wire) \in Nat /\ wire' # <<>>
        /\ wire'[Len(wire) + 1] = <<k, o>>
        /\ \A i \in 1..Len(wire) : wire'[i] = wire[i]
    BY <1>0, PutFacts
  <1>2. wire = <<>> <=> Len(wire) = 0
    BY <1>0, EmptyLen
  <1>3. CASE resp_header
    BY <1>1, <1>2, <1>3 DEF LsapiWire
  <1>4. CASE ~resp_header
    <2>1. Len(wire) >= 1 /\ wire[1][1] = "head"
      BY <1>1, <1>2, <1>4 DEF LsapiWire
    <2> QED
      BY <1>1, <1>4, <2>1 DEF LsapiWire
  <1> QED
    BY <1>3, <1>4

\* LSAPI calls keep it.
LEMMA LsapiCalls ==
  ASSUME TypeOK, LsapiWire, transport = "lsapi", NEW o \in Origins,
         NEW ok \in BOOLEAN, NEW named \in BOOLEAN, NEW k \in Kinds,
         \/ LsapiSendHeaders(o, named, ok)
         \/ writeBody(k, o) /\ (~sink_error => ~resp_header)
         \/ finishBody(o, ok)
  PROVE  /\ resp_header' <=> wire' = <<>>
         /\ wire' # <<>> => wire'[1][1] = "head"
         /\ \A i \in 2..Len(wire') : wire'[i][1] \in {"body", "stray_headers"}
         /\ ~resp_header => ~resp_header'
  <1> USE KindsAll
  <1>1. CASE UNCHANGED <<wire, resp_header>>
    BY <1>1 DEF LsapiWire
  <1>2. CASE resp_header /\ Put("head", o) /\ resp_header' = FALSE
    BY <1>2, LsapiPut
  <1>3. CASE ~resp_header /\ Put("stray_headers", o) /\ UNCHANGED resp_header
    BY <1>3, LsapiPut
  <1>4. CASE ~resp_header /\ Put("body", o) /\ UNCHANGED resp_header
    BY <1>4, LsapiPut
  <1>5. CASE LsapiSendHeaders(o, named, ok)
    BY <1>1, <1>2, <1>3, <1>5 DEF LsapiSendHeaders
  <1>6. CASE writeBody(k, o) /\ (~sink_error => ~resp_header)
    BY <1>1, <1>4, <1>6 DEF writeBody, sinkVars
  <1>7. CASE finishBody(o, ok)
    BY <1>1, <1>7 DEF finishBody, sinkVars
  <1> QED
    BY <1>5, <1>6, <1>7

----------------------------------------------------------------------------
(* The steps *)

\* Every step keeps the types.
LEMMA TypeOKStep ==
  ASSUME FilterInv, Next
  PROVE  TypeOK'
  <1> USE ChainAssumption
  <1> /\ TypeOK /\ PosInv /\ ScopeInv /\ OrderInv /\ EosInv /\ ChainInv
      /\ WireInv /\ LsapiInv
    BY DEF FilterInv
  <1>1. CASE Filter
    BY <1>1, FilterFacts DEF TypeOK, SinkType
  <1>2. CASE CallStep
    <2>1. PICK m \in Modules : CallOf(m)
      BY <1>2, CallFacts
    <2>2. m \in 1..(N + 1)
      BY DEF Modules
    <2> QED
      BY <2>1, <2>2 DEF CallOf, TypeOK
  <1>3. CASE Parse
    <2>1. ~calling /\ 1 \in 1..(N + 1)
      BY <1>3 DEF Parse, PosInv, RequestPhases, ResponsePhases
    <2> QED
      BY <1>3, <2>1 DEF TypeOK, Parse, Continue, Go, hostVars, filterVars,
         sinkVars, Phases, RequestPhases
  <1>4. CASE CreateScopeFails
    BY <1>4 DEF TypeOK, CreateScopeFails, hostVars, filterVars, sinkVars,
       Phases, Modules, RequestPhases, ResponsePhases, CallbackPhases
  <1>5. CASE EndCallback
    <2>1. has_local_response' \in BOOLEAN
      BY <1>5, Zenon DEF EndCallback, TypeOK
    <2>2. next' \in 1..(N + 1) /\ calling' = FALSE
      BY <1>5 DEF EndCallback, TypeOK, Modules
    <2> QED
      BY <1>5, <2>1, <2>2 DEF EndCallback, TypeOK, hostVars, filterVars,
         sinkVars
  <1>6. CASE Throw
    BY <1>6 DEF TypeOK, Throw, hostVars, filterVars, sinkVars, Phases,
       Modules, RequestPhases, ResponsePhases, CallbackPhases
  <1>7. CASE EndRequestHeaders
    BY <1>7 DEF TypeOK, EndRequestHeaders, Continue, Go, hostVars, filterVars,
       sinkVars, PhaseOver, Phases, Modules, RequestPhases, ResponsePhases,
       CallbackPhases
  <1>8. CASE ReadBody
    BY <1>8 DEF TypeOK, ReadBody, Continue, Return, Go, hostVars, filterVars,
       sinkVars, Phases, Modules, RequestPhases, ResponsePhases, CallbackPhases
  <1>9. CASE EndRequestBody
    BY <1>9 DEF TypeOK, EndRequestBody, Continue, Go, hostVars, filterVars,
       sinkVars, PhaseOver, Phases, Modules, RequestPhases, ResponsePhases,
       CallbackPhases
  <1>10. CASE EndRequestTrailers
    BY <1>10 DEF TypeOK, EndRequestTrailers, Continue, Return, Go, hostVars,
       filterVars, sinkVars, PhaseOver, Phases, Modules, RequestPhases,
       ResponsePhases, CallbackPhases
  <1>11. CASE EndResponsePhase
    BY <1>11 DEF TypeOK, EndResponsePhase, Continue, Go, hostVars, filterVars,
       sinkVars, PhaseOver, Phases, Modules, RequestPhases, ResponsePhases,
       CallbackPhases
  <1>12. CASE EndResponseTrailers
    BY <1>12 DEF TypeOK, EndResponseTrailers, Continue, Return, Go, hostVars,
       filterVars, sinkVars, PhaseOver, Phases, Modules, RequestPhases,
       ResponsePhases, CallbackPhases
  <1>13. CASE RespondHead
    <2>1. Origin \in Origins /\ SinkType
      BY OriginsAll DEF Origin, TypeOK, SinkType
    <2>2. SinkType'
      <3>1. CASE transport = "http"
        BY <1>13, <2>1, <3>1, PutFacts, KindsAll DEF RespondHead, SinkType
      <3>2. CASE transport = "lsapi"
        <4>1. PICK ok \in BOOLEAN, named \in BOOLEAN :
                LsapiSendHeaders(Origin, named, ok)
          BY <1>13, <3>2 DEF RespondHead
        <4> QED
          BY <2>1, <4>1, SinkTypes, KindsAll
      <3> QED
        BY <3>1, <3>2 DEF TypeOK
    <2> QED
      BY <1>13, <2>2 DEF RespondHead, Respond, TypeOK, SinkType, Phases,
         hostVars, filterVars
  <1>14. CASE RespondBody
    <2>1. Origin \in Origins /\ SinkType
      BY OriginsAll DEF Origin, TypeOK, SinkType
    <2>2. SinkType'
      <3>1. CASE UNCHANGED sinkVars
        BY <2>1, <3>1 DEF SinkType, sinkVars
      <3>2. CASE Put("body", Origin) /\ UNCHANGED <<sink_error, resp_header, resp_body, fd_open>>
        BY <2>1, <3>2, PutFacts, KindsAll DEF SinkType
      <3>3. CASE writeBody("body", Origin)
        BY <2>1, <3>3, SinkTypes, KindsAll
      <3> QED
        BY <1>14, <3>1, <3>2, <3>3 DEF RespondBody
    <2> QED
      BY <1>14, <2>2 DEF RespondBody, Respond, TypeOK, SinkType, Phases,
         hostVars, filterVars
  <1>15. CASE RespondFinish
    <2>1. Origin \in Origins /\ SinkType
      BY OriginsAll DEF Origin, TypeOK, SinkType
    <2>2. SinkType' /\ outcome' \in {"finished", "returned"}
      <3>1. CASE transport = "http"
        BY <1>15, <2>1, <3>1 DEF RespondFinish, SinkType, sinkVars
      <3>2. CASE transport = "lsapi"
        <4>1. PICK ok \in BOOLEAN : finishBody(Origin, ok)
          BY <1>15, <3>2 DEF RespondFinish
        <4>2. SinkType'
          BY <2>1, <4>1, SinkTypes, KindsAll
        <4> QED
          BY <1>15, <3>2, <4>2 DEF RespondFinish
      <3> QED
        BY <3>1, <3>2 DEF TypeOK
    <2> QED
      BY <1>15, <2>2 DEF RespondFinish, TypeOK, PosInv, RequestPhases,
         ResponsePhases, SinkType, Phases, hostVars, filterVars
  <1>16. CASE EndDone
    BY <1>16 DEF TypeOK, EndDone, hostVars, filterVars, sinkVars, Phases,
       Modules, RequestPhases, ResponsePhases, CallbackPhases
  <1>17. CASE Returned
    BY <1>17 DEF TypeOK, Returned, Continue, Go, hostVars, filterVars,
       sinkVars, Phases, Modules, RequestPhases, ResponsePhases, CallbackPhases
  <1>18. CASE LSAPI_Finish_r
    <2>1. /\ <<"end", Lsapi>> \in Kinds \X Origins
          /\ <<"head", Lsapi>> \in Kinds \X Origins
      BY OriginsAll, KindsAll
    <2>2. wire' \in Seq(Kinds \X Origins) /\ resp_header' \in BOOLEAN
      <3>1. wire \in Seq(Kinds \X Origins) /\ resp_header \in BOOLEAN
        BY DEF TypeOK
      <3>2. /\ << <<"head", Lsapi>> >> \in Seq(Kinds \X Origins)
            /\ << <<"end", Lsapi>> >> \in Seq(Kinds \X Origins)
        BY <2>1
      <3>3. << >> \in Seq(Kinds \X Origins)
        OBVIOUS
      <3>4. CASE resp_header
        <4>1. wire \o << <<"head", Lsapi>> >> \o << <<"end", Lsapi>> >>
                \in Seq(Kinds \X Origins)
          BY <3>1, <3>2, ConcatType
        <4> QED
          BY <1>18, <3>1, <3>4, <4>1 DEF LSAPI_Finish_r
      <3>5. CASE ~resp_header
        <4>1. wire \o << >> \o << <<"end", Lsapi>> >>
                \in Seq(Kinds \X Origins)
          BY <3>1, <3>2, <3>3, ConcatType
        <4> QED
          BY <1>18, <3>1, <3>5, <4>1 DEF LSAPI_Finish_r
      <3> QED
        BY <3>4, <3>5
    <2> QED
      BY <1>18, <2>2 DEF LSAPI_Finish_r, TypeOK, Phases, hostVars, filterVars
  <1> QED
    BY <1>1, <1>2, <1>3, <1>4, <1>5, <1>6, <1>7, <1>8, <1>9, <1>10, <1>11,
       <1>12, <1>13, <1>14, <1>15, <1>16, <1>17, <1>18 DEF Next, Host, CallStep

\* Every step keeps the position consistent.
LEMMA PosInvStep ==
  ASSUME FilterInv, Next
  PROVE  PosInv'
  <1> USE ChainAssumption
  <1> /\ TypeOK /\ PosInv /\ ScopeInv /\ OrderInv /\ EosInv /\ ChainInv
      /\ WireInv /\ LsapiInv
    BY DEF FilterInv
  <1>1. CASE Filter
    BY <1>1, FilterFacts DEF PosInv, Late
  <1>2. CASE CallStep
    <2>1. PICK m \in Modules : CallOf(m)
      BY <1>2, CallFacts
    <2>2. phase \in RequestPhases \cup ResponsePhases \cup {"teardown"}
      BY <2>1 DEF CallOf, CallbackPhases, RequestPhases
    <2>3. phase # "parse" /\ (~Late => ~has_local_response)
      BY <2>1 DEF CallOf, CallbackPhases, ResponsePhases, Late
    <2> QED
      BY <2>1, <2>2, <2>3 DEF CallOf, PosInv, Late
  <1>3. CASE Parse
    BY <1>3 DEF PosInv, Parse, Continue, Go, hostVars, filterVars, sinkVars,
       Late, TypeOK, Stopped, Modules, RequestPhases, ResponsePhases,
       CallbackPhases
  <1>4. CASE CreateScopeFails
    BY <1>4 DEF PosInv, CreateScopeFails, hostVars, filterVars, sinkVars,
       Late, TypeOK, Stopped, Modules, RequestPhases, ResponsePhases,
       CallbackPhases
  <1>5. CASE EndCallback
    BY <1>5 DEF PosInv, EndCallback, hostVars, filterVars, sinkVars, Late,
       TypeOK, Stopped, Modules, RequestPhases, ResponsePhases, CallbackPhases
  <1>6. CASE Throw
    BY <1>6 DEF PosInv, Throw, hostVars, filterVars, sinkVars, Late, TypeOK,
       Stopped, Modules, RequestPhases, ResponsePhases, CallbackPhases
  <1>7. CASE EndRequestHeaders
    BY <1>7 DEF PosInv, EndRequestHeaders, Continue, Go, hostVars, filterVars,
       sinkVars, PhaseOver, Late, TypeOK, Stopped, Modules, RequestPhases,
       ResponsePhases, CallbackPhases
  <1>8. CASE ReadBody
    BY <1>8 DEF PosInv, ReadBody, Continue, Return, Go, hostVars, filterVars,
       sinkVars, Late, TypeOK, Stopped, Modules, RequestPhases,
       ResponsePhases, CallbackPhases
  <1>9. CASE EndRequestBody
    BY <1>9 DEF PosInv, EndRequestBody, Continue, Go, hostVars, filterVars,
       sinkVars, PhaseOver, Late, TypeOK, Stopped, Modules, RequestPhases,
       ResponsePhases, CallbackPhases
  <1>10. CASE EndRequestTrailers
    BY <1>10 DEF PosInv, EndRequestTrailers, Continue, Return, Go, hostVars,
       filterVars, sinkVars, PhaseOver, Late, TypeOK, Stopped, Modules,
       RequestPhases, ResponsePhases, CallbackPhases
  <1>11. CASE EndResponsePhase
    BY <1>11 DEF PosInv, EndResponsePhase, Continue, Go, hostVars, filterVars,
       sinkVars, PhaseOver, Late, TypeOK, Stopped, Modules, RequestPhases,
       ResponsePhases, CallbackPhases
  <1>12. CASE EndResponseTrailers
    BY <1>12 DEF PosInv, EndResponseTrailers, Continue, Return, Go, hostVars,
       filterVars, sinkVars, PhaseOver, Late, TypeOK, Stopped, Modules,
       RequestPhases, ResponsePhases, CallbackPhases
  <1>13. CASE RespondHead
    BY <1>13 DEF PosInv, RespondHead, Respond, LsapiSendHeaders, Put,
       hostVars, filterVars, Late, TypeOK, Stopped, Modules, RequestPhases,
       ResponsePhases, CallbackPhases
  <1>14. CASE RespondBody
    BY <1>14 DEF PosInv, RespondBody, Respond, writeBody, Put, hostVars,
       filterVars, sinkVars, Late, TypeOK, Stopped, Modules, RequestPhases,
       ResponsePhases, CallbackPhases
  <1>15. CASE RespondFinish
    BY <1>15 DEF PosInv, RespondFinish, finishBody, Put, hostVars, filterVars,
       sinkVars, Late, TypeOK, Stopped, Modules, RequestPhases,
       ResponsePhases, CallbackPhases
  <1>16. CASE EndDone
    BY <1>16 DEF PosInv, EndDone, hostVars, filterVars, sinkVars, Late,
       TypeOK, Stopped, Modules, RequestPhases, ResponsePhases, CallbackPhases
  <1>17. CASE Returned
    BY <1>17 DEF PosInv, Returned, Continue, Go, hostVars, filterVars,
       sinkVars, Late, TypeOK, Stopped, Modules, RequestPhases,
       ResponsePhases, CallbackPhases
  <1>18. CASE LSAPI_Finish_r
    BY <1>18 DEF PosInv, LSAPI_Finish_r, hostVars, filterVars, Late, TypeOK,
       Stopped, Modules, RequestPhases, ResponsePhases, CallbackPhases
  <1> QED
    BY <1>1, <1>2, <1>3, <1>4, <1>5, <1>6, <1>7, <1>8, <1>9, <1>10, <1>11,
       <1>12, <1>13, <1>14, <1>15, <1>16, <1>17, <1>18 DEF Next, Host, CallStep

\* Every step keeps the scopes.
LEMMA ScopeInvStep ==
  ASSUME FilterInv, Next
  PROVE  ScopeInv'
  <1> USE ChainAssumption
  <1> /\ TypeOK /\ PosInv /\ ScopeInv /\ OrderInv /\ EosInv /\ ChainInv
      /\ WireInv /\ LsapiInv
    BY DEF FilterInv
  <1>1. CASE Filter
    BY <1>1, FilterFacts DEF ScopeInv, Called, Late
  <1>2. CASE CallStep
    <2>1. PICK m \in Modules : CallOf(m)
      BY <1>2, CallFacts
    <2>2. ASSUME NEW k \in Modules
          PROVE  /\ scope'[k] = "none" <=> seen'[k] = <<>>
                 /\ phase' = "parse" => scope'[k] = "none"
                 /\ phase' = "request_headers" /\ ~Called(k)' => scope'[k] = "none"
                 /\ scope'[k] = "gone" =>
                      Late' /\ seen'[k][Len(seen'[k])][1] = "teardown"
                 /\ phase' \in {"finish_r", "ended"} => scope'[k] # "live"
      <3>1. CASE k = m
        <4>1. seen'[m] # <<>>
          BY <2>1 DEF CallOf, TypeOK
        <4> QED
          BY <2>1, <3>1, <4>1 DEF CallOf, CallbackPhases, ResponsePhases,
             Called
      <3>2. CASE k # m
        <4>1. phase = "request_headers" /\ ~Called(k)' => ~Called(k)
          BY <2>1 DEF CallOf, Called, CallbackPhases, ResponsePhases
        <4>2. Late' = Late
          BY <2>1 DEF CallOf, Late
        <4> QED
          <5>1. phase' = phase /\ seen'[k] = seen[k] /\ scope'[k] = scope[k]
            BY <2>1, <3>2 DEF CallOf
          <5> QED
            BY <4>1, <4>2, <5>1 DEF ScopeInv
      <3> QED
        BY <3>1, <3>2
    <2>3. phase' = "teardown" => seen'[m][Len(seen'[m])][1] = "teardown"
      BY <2>1 DEF CallOf
    <2> QED
      BY <2>1, <2>2, <2>3 DEF CallOf, ScopeInv
  <1>3. CASE Parse
    BY <1>3 DEF ScopeInv, Parse, Continue, Go, hostVars, filterVars, sinkVars,
       Late, Called, TypeOK, PosInv, Stopped, Modules, RequestPhases,
       ResponsePhases, CallbackPhases
  <1>4. CASE CreateScopeFails
    BY <1>4 DEF ScopeInv, CreateScopeFails, hostVars, filterVars, sinkVars,
       Late, Called, TypeOK, PosInv, Stopped, Modules, RequestPhases,
       ResponsePhases, CallbackPhases
  <1>5. CASE EndCallback
    BY <1>5 DEF ScopeInv, EndCallback, hostVars, filterVars, sinkVars, Late,
       Called, TypeOK, PosInv, Stopped, Modules, RequestPhases,
       ResponsePhases, CallbackPhases
  <1>6. CASE Throw
    BY <1>6 DEF ScopeInv, Throw, hostVars, filterVars, sinkVars, Late, Called,
       TypeOK, PosInv, Stopped, Modules, RequestPhases, ResponsePhases,
       CallbackPhases
  <1>7. CASE EndRequestHeaders
    BY <1>7 DEF ScopeInv, EndRequestHeaders, Continue, Go, hostVars,
       filterVars, sinkVars, PhaseOver, Late, Called, TypeOK, PosInv, Stopped,
       Modules, RequestPhases, ResponsePhases, CallbackPhases
  <1>8. CASE ReadBody
    BY <1>8 DEF ScopeInv, ReadBody, Continue, Return, Go, hostVars,
       filterVars, sinkVars, Late, Called, TypeOK, PosInv, Stopped, Modules,
       RequestPhases, ResponsePhases, CallbackPhases
  <1>9. CASE EndRequestBody
    BY <1>9 DEF ScopeInv, EndRequestBody, Continue, Go, hostVars, filterVars,
       sinkVars, PhaseOver, Late, Called, TypeOK, PosInv, Stopped, Modules,
       RequestPhases, ResponsePhases, CallbackPhases
  <1>10. CASE EndRequestTrailers
    BY <1>10 DEF ScopeInv, EndRequestTrailers, Continue, Return, Go, hostVars,
       filterVars, sinkVars, PhaseOver, Late, Called, TypeOK, PosInv, Stopped,
       Modules, RequestPhases, ResponsePhases, CallbackPhases
  <1>11. CASE EndResponsePhase
    BY <1>11 DEF ScopeInv, EndResponsePhase, Continue, Go, hostVars,
       filterVars, sinkVars, PhaseOver, Late, Called, TypeOK, PosInv, Stopped,
       Modules, RequestPhases, ResponsePhases, CallbackPhases
  <1>12. CASE EndResponseTrailers
    <2>1. /\ UNCHANGED <<scope, seen, calling>> /\ ~calling
          /\ phase = "response_trailers" /\ phase' \in {"teardown", "respond_head"}
      BY <1>12 DEF EndResponseTrailers, Continue, Return, Go, hostVars,
         filterVars, sinkVars, PhaseOver
    <2> QED
      BY <2>1 DEF ScopeInv, Late, Called
  <1>13. CASE RespondHead
    BY <1>13 DEF ScopeInv, RespondHead, Respond, LsapiSendHeaders, Put,
       hostVars, filterVars, Late, Called, TypeOK, PosInv, Stopped, Modules,
       RequestPhases, ResponsePhases, CallbackPhases
  <1>14. CASE RespondBody
    BY <1>14 DEF ScopeInv, RespondBody, Respond, writeBody, Put, hostVars,
       filterVars, sinkVars, Late, Called, TypeOK, PosInv, Stopped, Modules,
       RequestPhases, ResponsePhases, CallbackPhases
  <1>15. CASE RespondFinish
    BY <1>15 DEF ScopeInv, RespondFinish, finishBody, Put, hostVars,
       filterVars, sinkVars, Late, Called, TypeOK, PosInv, Stopped, Modules,
       RequestPhases, ResponsePhases, CallbackPhases
  <1>16. CASE EndDone
    <2>1. /\ scope'[next] = "gone" /\ UNCHANGED <<phase, next, seen>>
          /\ \A m \in Modules : m # next => scope'[m] = scope[m]
          /\ phase = "teardown" /\ calling /\ ~calling'
      BY <1>16 DEF EndDone, TypeOK
    <2> QED
      BY <2>1 DEF ScopeInv, Late, Called
  <1>17. CASE Returned
    BY <1>17 DEF ScopeInv, Returned, Continue, Go, hostVars, filterVars,
       sinkVars, Late, Called, TypeOK, PosInv, Stopped, Modules,
       RequestPhases, ResponsePhases, CallbackPhases
  <1>18. CASE LSAPI_Finish_r
    BY <1>18 DEF ScopeInv, LSAPI_Finish_r, hostVars, filterVars, Late, Called,
       TypeOK, PosInv, Stopped, Modules, RequestPhases, ResponsePhases,
       CallbackPhases
  <1> QED
    BY <1>1, <1>2, <1>3, <1>4, <1>5, <1>6, <1>7, <1>8, <1>9, <1>10, <1>11,
       <1>12, <1>13, <1>14, <1>15, <1>16, <1>17, <1>18 DEF Next, Host, CallStep

\* Every step keeps the order of the callbacks.
LEMMA OrderInvStep ==
  ASSUME FilterInv, Next
  PROVE  OrderInv'
  <1> USE ChainAssumption
  <1> /\ TypeOK /\ PosInv /\ ScopeInv /\ OrderInv /\ EosInv /\ ChainInv
      /\ WireInv /\ LsapiInv
    BY DEF FilterInv
  <1>1. CASE Filter
    BY <1>1, FilterFacts DEF OrderInv, Ordered, Behind, RankAt, Called, Late
  <1>2. CASE CallStep
    <2>1. PICK m \in Modules : CallOf(m)
      BY <1>2, CallFacts
    <2>2. ASSUME NEW k \in Modules, k # m, NEW r \in 1..7, Behind(k, r)
          PROVE  Behind(k, r)'
      <3>1. Called(k) => Called(k)' \/ phase = "teardown"
        BY <2>1 DEF CallOf, Called, TypeOK, Modules
      <3>2. phase' = phase /\ scope'[k] = scope[k] /\ Late' = Late /\ next' # k
        BY <2>1, <2>2 DEF CallOf, Late
      <3> QED
        BY <2>1, <2>2, <3>1, <3>2 DEF CallOf, Behind, ResponsePhases
    <2>3. ASSUME NEW r \in 1..7, Behind(m, r) PROVE Behind(m, r)'
      BY <2>1, <2>3, Ranks DEF CallOf, Behind, Called, Late, TypeOK, Modules
    <2>4. /\ phase \in DOMAIN Rank /\ Rank[phase] \in 1..7
          /\ Behind(m, Rank[phase])'
      BY <2>1, Ranks DEF CallOf, Behind, Called, Late, CallbackPhases,
         RequestPhases, ResponsePhases
    <2>5. ASSUME NEW r \in 1..7, Behind(m, r), phase # "request_headers"
          PROVE  r < Rank[phase] \/ (r = 2 /\ Rank[phase] = 2)
      BY SMTT(30), <2>1, <2>5, Ranks DEF CallOf, Behind, Called, Late, CallbackPhases,
         RequestPhases, ResponsePhases, TypeOK, Modules
    <2>6. ASSUME NEW k \in Modules, k # m
          PROVE  /\ Ordered(k)'
                 /\ \A i \in 1..Len(seen'[k]) : Behind(k, RankAt(k, i))'
      <3>1. seen'[k] = seen[k]
        BY <2>1, <2>6 DEF CallOf
      <3>2. Ordered(k)'
        BY <3>1 DEF OrderInv, Ordered, RankAt
      <3>3. ASSUME NEW i \in 1..Len(seen'[k]) PROVE Behind(k, RankAt(k, i))'
        <4>1. i \in 1..Len(seen[k])
          BY <3>1, <3>3
        <4>2. PICK r \in 1..7 : r = RankAt(k, i) /\ Behind(k, r)
          BY <4>1, RankTypes DEF OrderInv
        <4>3. RankAt(k, i)' = r
          BY <3>1, <4>2 DEF RankAt
        <4>4. Behind(k, r)'
          BY <2>2, <2>6, <4>2
        <4> QED
          BY <4>3, <4>4 DEF Behind
      <3> QED
        BY <3>2, <3>3
    <2>7. ASSUME NEW i \in 1..Len(seen'[m])
          PROVE  Behind(m, RankAt(m, i))'
      <3>1. CASE i \in 1..Len(seen[m])
        <4>1. PICK r \in 1..7 : r = RankAt(m, i) /\ Behind(m, r)
          BY <3>1, RankTypes DEF OrderInv
        <4>2. RankAt(m, i)' = r
          BY <2>1, <3>1, <4>1 DEF CallOf, RankAt
        <4>3. Behind(m, r)'
          BY <2>3, <4>1
        <4> QED
          BY <4>2, <4>3 DEF Behind
      <3>2. CASE i = Len(seen[m]) + 1
        <4>1. PICK r \in 1..7 : r = Rank[phase] /\ Behind(m, Rank[phase])'
          BY <2>4
        <4>2. RankAt(m, i)' = r /\ phase' = phase
          BY <2>1, <3>2, <4>1 DEF CallOf, RankAt
        <4> QED
          BY <4>1, <4>2 DEF Behind
      <3>3. Len(seen[m]) \in Nat /\ Len(seen'[m]) = Len(seen[m]) + 1
        BY <2>1 DEF CallOf, TypeOK
      <3> QED
        BY <2>7, <3>1, <3>2, <3>3
    <2>8. Ordered(m)'
      <3>1. PICK n \in Nat : n = Len(seen[m]) /\ Len(seen'[m]) = n + 1
        BY <2>1 DEF CallOf, TypeOK
      <3>2. /\ \A i \in 1..n : RankAt(m, i)' = RankAt(m, i)
            /\ RankAt(m, n + 1)' = Rank[phase]
        BY <2>1, <3>1 DEF CallOf, RankAt
      <3>3. ASSUME NEW i \in 1..n
            PROVE  RankAt(m, i) < Rank[phase] \/ (RankAt(m, i) = 2 /\ Rank[phase] = 2)
        <4>1. phase # "request_headers"
          BY <2>1, <3>1, <3>3 DEF CallOf, ScopeInv, CallbackPhases,
             ResponsePhases
        <4> QED
          BY <2>5, <3>1, <3>3, <4>1, RankTypes DEF OrderInv
      <3>4. seen'[m][1][1] = "request_headers"
        <4>1. CASE n = 0
          <5>1. seen[m] = <<>>
            <6>1. seen[m] \in Seq((DOMAIN Rank) \X BOOLEAN)
              BY DEF TypeOK
            <6> QED
              BY <3>1, <4>1, <6>1, EmptyLen
          <5> QED
            BY <2>1, <3>1, <4>1, <5>1 DEF CallOf, ScopeInv, CallbackPhases,
               ResponsePhases
        <4>2. CASE n # 0
          <5>1. 1 \in 1..n /\ seen[m] # <<>>
            BY <3>1, <4>2
          <5> QED
            BY <2>1, <3>1, <5>1 DEF CallOf, OrderInv, Ordered
        <4> QED
          BY <4>1, <4>2
      <3>5. ASSUME NEW i \in 1..(n + 1), NEW j \in 1..(n + 1), i < j
            PROVE  \/ RankAt(m, i)' < RankAt(m, j)'
                   \/ RankAt(m, i)' = 2 /\ RankAt(m, j)' = 2
        <4>1. i \in 1..n
          BY <3>1, <3>5
        <4>2. CASE j = n + 1
          BY <3>2, <3>3, <4>1, <4>2
        <4>3. CASE j \in 1..n
          BY <3>1, <3>2, <3>5, <4>1, <4>3 DEF OrderInv, Ordered
        <4> QED
          BY <3>1, <4>2, <4>3
      <3> QED
        BY <3>1, <3>4, <3>5 DEF Ordered
    <2> QED
      BY <2>6, <2>7, <2>8 DEF OrderInv
  <1>3. CASE MoveStep
    <2>1. MoveOf /\ UNCHANGED seen
      BY <1>3, MoveFacts
    <2>2. ASSUME NEW m \in Modules, NEW r \in 1..7, Behind(m, r)
          PROVE  Behind(m, r)'
      <3>1. CASE ModuleSkipped
        BY <2>2, Ranks, <3>1 DEF ModuleSkipped, Behind, Late, Called,
           RequestPhases, ResponsePhases, TypeOK, Modules
      <3>2. CASE CallbackEnds
        BY <2>2, Ranks, <3>2 DEF CallbackEnds, Behind, Late, Called,
           RequestPhases, ResponsePhases, TypeOK, Modules
      <3>3. CASE CallbackThrows
        BY <2>2, Ranks, <3>3 DEF CallbackThrows, Behind, Late, Called,
           RequestPhases, ResponsePhases, TypeOK, Modules
      <3>4. CASE DoneEnds
        BY <2>2, Ranks, <3>4 DEF DoneEnds, Behind, Late, Called,
           RequestPhases, ResponsePhases, TypeOK, Modules
      <3>5. CASE PieceRead
        BY <2>2, Ranks, <3>5 DEF PieceRead, Behind, Late, Called,
           RequestPhases, ResponsePhases, TypeOK, Modules, Moved
      <3>6. CASE PhasePassed
        BY SMTT(30), <2>2, Ranks, <3>6 DEF PhasePassed, Behind, Late, Called,
           RequestPhases, ResponsePhases, TypeOK, Modules, Moved
      <3> QED
        BY <2>1, <3>1, <3>2, <3>3, <3>4, <3>5, <3>6 DEF MoveOf
    <2>3. ASSUME NEW m \in Modules, NEW i \in 1..Len(seen[m])
          PROVE  Behind(m, RankAt(m, i))'
      <3>1. PICK r \in 1..7 : r = RankAt(m, i) /\ Behind(m, r)
        BY <2>3, RankTypes DEF OrderInv
      <3>2. RankAt(m, i)' = r
        BY <2>1, <3>1 DEF RankAt
      <3>3. Behind(m, r)'
        BY <2>2, <3>1
      <3> QED
        BY <3>2, <3>3 DEF Behind
    <2> QED
      BY <2>1, <2>3 DEF OrderInv, Ordered, RankAt
  <1> QED
    BY <1>1, <1>2, <1>3 DEF Next, Host, CallStep, MoveStep

\* Every step keeps the marks for the end of the body.
LEMMA EosInvStep ==
  ASSUME FilterInv, Next
  PROVE  EosInv'
  <1> USE ChainAssumption
  <1> /\ TypeOK /\ PosInv /\ ScopeInv /\ OrderInv /\ EosInv /\ ChainInv
      /\ WireInv /\ LsapiInv
    BY DEF FilterInv
  <1>1. CASE Filter
    BY <1>1, FilterFacts DEF EosInv, ToldInOrder, ToldInTime, Told, EosAt,
       RankAt, Called, Late
  <1>2. CASE CallStep
    <2>1. PICK m \in Modules : CallOf(m)
      BY <1>2, CallFacts
    <2>2. ASSUME NEW k \in Modules, k # m
          PROVE  ToldInOrder(k)' /\ ToldInTime(k)'
      <3>1. phase' = phase /\ scope'[k] = scope[k] /\ seen'[k] = seen[k]
        BY <2>1, <2>2 DEF CallOf
      <3>2. ToldInOrder(k)'
        BY <3>1 DEF EosInv, ToldInOrder, EosAt, RankAt
      <3>3. Told(k)' <=> Told(k)
        BY <3>1 DEF Told, EosAt, RankAt
      <3>4. /\ phase \in CallbackPhases /\ Called(k) => Called(k)'
            /\ phase \in CallbackPhases /\ scope[k] = "live" /\ Called(k)' =>
                 Called(k)
        <4> SUFFICES ASSUME phase \in CallbackPhases
                     PROVE  /\ Called(k) => Called(k)'
                            /\ scope[k] = "live" /\ Called(k)' => Called(k)
          OBVIOUS
        <4>1. /\ ~calling /\ calling' /\ next' = m /\ m >= next
              /\ \A j \in Modules : next <= j /\ j < m => scope[j] # "live"
          BY <2>1 DEF CallOf, CallbackPhases, ResponsePhases
        <4>2. next \in Nat /\ m \in Nat /\ k \in Nat
          BY DEF TypeOK, Modules
        <4> QED
          BY <2>2, <4>1, <4>2 DEF Called
      <3>5. /\ Late' <=> Late
            /\ UNCHANGED <<consumed, total, has_local_response>>
        BY <2>1 DEF CallOf, Late
      <3> QED
        BY <3>1, <3>2, <3>3, <3>4, <3>5 DEF EosInv, ToldInTime, CallbackPhases
    <2>3. PICK n \in Nat : n = Len(seen[m]) /\ Len(seen'[m]) = n + 1
      BY <2>1 DEF CallOf, TypeOK
    <2>4. /\ \A i \in 1..n : /\ RankAt(m, i)' = RankAt(m, i)
                             /\ EosAt(m, i)' <=> EosAt(m, i)
          /\ RankAt(m, n + 1)' = Rank[phase]
          /\ EosAt(m, n + 1)' <=> Rank[phase] <= 2 /\ consumed >= total
      BY <2>1, <2>3 DEF CallOf, RankAt, EosAt
    <2>5. Told(m)' <=> Told(m) \/ (Rank[phase] <= 2 /\ consumed >= total)
      BY <2>3, <2>4 DEF Told
    <2>6. ToldInTime(m) /\ ToldInOrder(m) /\ consumed \in Nat /\ total \in Nat
      BY DEF EosInv, TypeOK
    <2>7. phase \in {"request_trailers"} \cup ResponsePhases => Told(m)
      BY <2>1, <2>6 DEF CallOf, ToldInTime, Late, CallbackPhases,
         ResponsePhases
    <2>8. ToldInTime(m)'
      <3>1. Called(m)' /\ UNCHANGED <<phase, consumed, total, has_local_response>>
        BY <2>1 DEF CallOf, Called
      <3>2. Told(m)' => consumed >= total
        BY <2>5, <2>6 DEF ToldInTime
      <3>3. consumed >= total => Told(m)' \/ Late'
        BY <2>1, <2>5, <2>7, Ranks DEF CallOf, Late, CallbackPhases,
           ResponsePhases
      <3>4. phase \in {"request_trailers"} \cup ResponsePhases => consumed >= total
        BY <2>6, <2>7 DEF ToldInTime
      <3> QED
        BY <2>6, <3>1, <3>2, <3>3, <3>4 DEF ToldInTime
    <2>9. ToldInOrder(m)'
      <3>1. ASSUME NEW i \in 1..(n + 1), NEW j \in 1..(n + 1), i < j, EosAt(m, i)'
            PROVE  RankAt(m, j)' # 2
        <4>1. i \in 1..n /\ EosAt(m, i) /\ Told(m)
          BY <2>3, <2>4, <3>1 DEF Told
        <4>2. CASE j \in 1..n
          BY <2>3, <2>4, <2>6, <3>1, <4>1, <4>2 DEF ToldInOrder
        <4>3. CASE j = n + 1
          <5>1. phase # "request_body"
            BY <2>1, <2>6, <4>1 DEF CallOf, ToldInTime, Called, TypeOK, Modules
          <5> QED
            BY <2>1, <2>4, <4>3, <5>1, Ranks DEF CallOf, CallbackPhases,
               ResponsePhases
        <4> QED
          BY <4>2, <4>3
      <3>2. ASSUME NEW i \in 1..(n + 1), RankAt(m, i)' \in 3..6
            PROVE  \E j \in 1..(i - 1) : EosAt(m, j)'
        <4>1. CASE i \in 1..n
          <5>1. PICK j \in 1..(i - 1) : EosAt(m, j)
            BY <2>3, <2>4, <2>6, <3>2, <4>1 DEF ToldInOrder
          <5>2. j \in 1..n
            BY <4>1, <5>1
          <5> QED
            BY <2>4, <5>1, <5>2
        <4>2. CASE i = n + 1
          <5>1. phase \in {"request_trailers"} \cup ResponsePhases
            BY <2>1, <2>4, <3>2, <4>2, Ranks DEF CallOf, CallbackPhases,
               ResponsePhases
          <5>2. PICK j \in 1..n : EosAt(m, j)
            BY <2>3, <2>7, <5>1 DEF Told
          <5>3. j \in 1..(i - 1)
            BY <4>2, <5>2
          <5> QED
            BY <2>4, <5>2, <5>3
        <4> QED
          BY <4>1, <4>2
      <3> QED
        BY <2>3, <3>1, <3>2 DEF ToldInOrder
    <2> QED
      BY <2>2, <2>8, <2>9 DEF EosInv
  <1>3. CASE MoveStep
    <2>1. MoveOf /\ UNCHANGED <<seen, total>>
      BY <1>3, MoveFacts
    <2>2. ASSUME NEW m \in Modules
          PROVE  ToldInOrder(m)' /\ ToldInTime(m)'
      <3>1. ToldInOrder(m)'
        BY <2>1 DEF EosInv, ToldInOrder, EosAt, RankAt
      <3>2. Told(m)' <=> Told(m)
        BY <2>1 DEF Told, EosAt, RankAt
      <3>3. ToldInTime(m)'
        <4>0. ToldInTime(m)
          BY DEF EosInv
        <4>1. CASE ModuleSkipped
          BY <2>1, <3>2, <4>0, <4>1 DEF ModuleSkipped, ToldInTime, Late,
             Called, RequestPhases, ResponsePhases, TypeOK, Modules
        <4>2. CASE CallbackEnds
          BY <2>1, <3>2, <4>0, <4>2 DEF CallbackEnds, ToldInTime, Late,
             Called, RequestPhases, ResponsePhases, TypeOK, Modules
        <4>3. CASE CallbackThrows
          BY <2>1, <3>2, <4>0, <4>3 DEF CallbackThrows, ToldInTime, Late,
             Called, RequestPhases, ResponsePhases, TypeOK, Modules
        <4>4. CASE DoneEnds
          BY <2>1, <3>2, <4>0, <4>4 DEF DoneEnds, ToldInTime, Late, Called,
             RequestPhases, ResponsePhases, TypeOK, Modules
        <4>5. CASE PieceRead
          BY <2>1, <3>2, <4>0, <4>5 DEF PieceRead, ToldInTime, Late, Called,
             RequestPhases, ResponsePhases, TypeOK, Modules, Moved
        <4>6. CASE PhasePassed
          BY <2>1, <3>2, <4>0, <4>6 DEF PhasePassed, ToldInTime, Late, Called,
             RequestPhases, ResponsePhases, TypeOK, Modules, Moved, LoopOver,
             ScopeInv, PosInv
        <4> QED
          BY <2>1, <3>2, <4>0, <4>1, <4>2, <4>3, <4>4, <4>5, <4>6 DEF MoveOf
      <3> QED
        BY <3>1, <3>3
    <2> QED
      BY <2>2 DEF EosInv
  <1> QED
    BY <1>1, <1>2, <1>3 DEF Next, Host, CallStep, MoveStep

\* Every step keeps the modules in step with each other.
LEMMA ChainInvStep ==
  ASSUME FilterInv, Next
  PROVE  ChainInv'
  <1> USE ChainAssumption
  <1> /\ TypeOK /\ PosInv /\ ScopeInv /\ OrderInv /\ EosInv /\ ChainInv
      /\ WireInv /\ LsapiInv
    BY DEF FilterInv
  <1>1. CASE Filter
    <2>1. /\ UNCHANGED <<phase, next, calling, scope, has_local_response, seen>>
          /\ \A m \in Modules : m # next => local_response'[m] = local_response[m]
          /\ calling
      BY <1>1, FilterFacts
    <2>2. has_local_response => Late
      BY <2>1 DEF PosInv
    <2> QED
      BY <2>1, <2>2 DEF ChainInv, Called, Late
  <1>2. CASE CallStep
    <2>1. PICK m \in Modules : CallOf(m)
      BY <1>2, CallFacts
    <2>2. \A k \in Modules : Len(seen[k]) \in Nat
      BY DEF TypeOK
    <2>3. CASE phase = "request_headers"
      <3>1. Len(seen'[m]) = 1
        BY <2>1, <2>3 DEF CallOf, CallbackPhases, ResponsePhases, ScopeInv
      <3>2. ASSUME NEW k \in Modules, scope'[k] = "live"
            PROVE  Len(seen'[k]) = 1
        BY <2>1, <2>3, <3>1, <3>2 DEF CallOf, ChainInv
      <3> QED
        BY <2>1, <2>3, <3>2 DEF CallOf, ChainInv, CallbackPhases,
           ResponsePhases
    <2>4. CASE phase \in CallbackPhases
      <3>1. /\ scope[m] = "live" /\ m >= next /\ ~has_local_response
            /\ phase' = phase /\ ~has_local_response' /\ ~Late
            /\ phase # "request_headers"
            /\ \A k \in Modules : scope'[k] = scope[k]
            /\ \A k \in Modules : k # m => seen'[k] = seen[k]
            /\ Len(seen'[m]) = Len(seen[m]) + 1
        BY <2>1, <2>4 DEF CallOf, CallbackPhases, ResponsePhases, Late
      <3>2. \A k \in Modules : scope[k] = "live" =>
              /\ Called(k) <=> k < m
              /\ Called(k)' <=> k <= m
        BY <2>1, <3>1 DEF CallOf, Called, TypeOK, Modules, Late
      <3>3. ASSUME NEW a \in Modules, NEW b \in Modules, a < b,
                   scope[a] = "live", scope[b] = "live"
            PROVE  Len(seen'[a]) = Len(seen'[b]) +
                     (IF Called(a)' /\ ~Called(b)' THEN 1 ELSE 0)
        <4>1. Len(seen[a]) = Len(seen[b]) +
                (IF Called(a) /\ ~Called(b) THEN 1 ELSE 0)
          BY <2>4, <3>1, <3>3 DEF ChainInv
        <4>2. a \in Nat /\ b \in Nat /\ m \in Nat
          BY DEF Modules
        <4>3. /\ Called(a) <=> a < m
              /\ Called(b) <=> b < m
              /\ Called(a)' <=> a <= m
              /\ Called(b)' <=> b <= m
          BY <3>2, <3>3
        <4>4. CASE a = m
          <5>0. ~(a < m)
            BY <4>2, <4>4
          <5>1. Len(seen[a]) = Len(seen[b])
            <6>1. ~Called(a) /\ Len(seen[b]) \in Nat
              BY <2>2, <4>3, <5>0
            <6>2. Len(seen[a]) = Len(seen[b]) + 0
              BY <4>1, <6>1
            <6> QED
              BY <6>1, <6>2
          <5>2. Called(a)' /\ ~Called(b)'
            BY <3>3, <4>2, <4>3, <4>4
          <5>3. Len(seen'[a]) = Len(seen[a]) + 1 /\ seen'[b] = seen[b]
            BY <3>1, <3>3, <4>2, <4>4
          <5> QED
            BY <2>2, <4>1, <5>1, <5>2, <5>3
        <4>5. CASE b = m
          <5>0. a < m /\ ~(b < m)
            BY <3>3, <4>2, <4>5
          <5>1. Len(seen[a]) = Len(seen[b]) + 1
            BY <2>2, <4>1, <4>3, <5>0
          <5>2. Called(a)' /\ Called(b)'
            BY <3>3, <4>2, <4>3, <4>5
          <5>3. Len(seen'[b]) = Len(seen[b]) + 1 /\ seen'[a] = seen[a]
            BY <3>1, <3>3, <4>2, <4>5
          <5> QED
            BY <2>2, <4>1, <5>1, <5>2, <5>3
        <4>6. CASE a # m /\ b # m
          <5>1. (Called(a) <=> Called(a)') /\ (Called(b) <=> Called(b)')
            BY <3>3, <4>1, <4>2, <4>3, <4>6
          <5>2. seen'[a] = seen[a] /\ seen'[b] = seen[b]
            BY <3>1, <3>3, <4>6
          <5> QED
            BY <2>2, <4>1, <5>1, <5>2
        <4> QED
          BY <4>4, <4>5, <4>6
      <3> QED
        BY ZenonT(60), <2>4, <3>1, <3>3 DEF ChainInv
    <2>5. CASE phase = "teardown"
      BY <2>1, <2>5 DEF CallOf, ChainInv, Late
    <2> QED
      BY <2>1, <2>3, <2>4, <2>5 DEF CallOf
  <1>3. CASE MoveStep
    <2>1. MoveOf /\ UNCHANGED <<seen, local_response>>
      BY <1>3, MoveFacts
    <2>2. \A k \in Modules : Len(seen[k]) \in Nat
      BY DEF TypeOK
    <2>3. CASE ModuleSkipped
      BY <2>1, <2>2, <2>3 DEF ModuleSkipped, ChainInv, Late, Called,
         CallbackPhases, RequestPhases, ResponsePhases, TypeOK, Modules
    <2>4. CASE CallbackEnds
      <3>1. /\ ~has_local_response /\ ~Late /\ ~Late' /\ UNCHANGED <<phase, scope>>
            /\ next \in Modules
        BY <2>4 DEF CallbackEnds, PosInv, Late, RequestPhases, ResponsePhases,
           TypeOK
      <3>2. \A m \in Modules : Called(m)' <=> Called(m)
        BY <2>4, <3>1 DEF CallbackEnds, Called, Modules
      <3>3. CASE ~local_response[next]
        <4>1. ~has_local_response'
          BY <2>4, <3>1, <3>3 DEF CallbackEnds
        <4> QED
          BY <2>1, <3>1, <3>2, <4>1 DEF ChainInv
      <3>4. CASE local_response[next]
        <4>1. ASSUME NEW m \in Modules, NEW k \in Modules, m < k,
                     scope[m] = "live", scope[k] = "live", local_response[m]
              PROVE  Len(seen[k]) < Len(seen[m])
          <5>1. m = next /\ Called(m) /\ ~Called(k)
            BY <2>4, <3>1, <4>1 DEF PosInv, Called, CallbackEnds, Modules
          <5>2. phase \in CallbackPhases
            BY <2>4, <4>1, <5>1 DEF CallbackEnds, ScopeInv, CallbackPhases,
               RequestPhases
          <5>3. Len(seen[m]) = Len(seen[k]) + 1
            BY <3>1, <4>1, <5>1, <5>2 DEF ChainInv
          <5> QED
            BY <2>2, <5>3
        <4>2. has_local_response'
          BY <2>4, <3>4 DEF CallbackEnds
        <4> QED
          BY <2>1, <3>1, <4>1, <4>2 DEF ChainInv
      <3> QED
        BY <3>3, <3>4
    <2>5. CASE CallbackThrows
      BY <2>1, <2>2, <2>5 DEF CallbackThrows, ChainInv, Late, Called,
         CallbackPhases, RequestPhases, ResponsePhases, TypeOK, Modules
    <2>6. CASE DoneEnds
      BY <2>1, <2>2, <2>6 DEF DoneEnds, ChainInv, Late, Called,
         CallbackPhases, RequestPhases, ResponsePhases, TypeOK, Modules
    <2>7. CASE PieceRead
      BY <2>1, <2>2, <2>7 DEF PieceRead, ChainInv, Late, Called,
         CallbackPhases, RequestPhases, ResponsePhases, TypeOK, Modules, Moved
    <2>8. CASE PhasePassed
      <3>1. /\ UNCHANGED <<scope, has_local_response>>
            /\ ~calling /\ ~calling' /\ (~Late' => ~Late)
        BY <2>8 DEF PhasePassed, Moved, Late
      <3>2. phase' = "request_headers" =>
              \A m \in Modules : scope'[m] # "live"
        BY <2>8, <3>1 DEF PhasePassed, Moved, ScopeInv
      <3>3. ASSUME NEW a \in Modules, NEW b \in Modules, scope[a] = "live",
                   scope[b] = "live", ~has_local_response
            PROVE  /\ ~(phase \in CallbackPhases /\ Called(a) /\ ~Called(b))
                   /\ ~(phase' \in CallbackPhases /\ Called(a)')
                   \/ Late'
        <4>1. CASE phase' \in CallbackPhases
          <5>1. next' = 1
            BY <2>8, <4>1 DEF PhasePassed, Moved, CallbackPhases, ResponsePhases
          <5>2. ~Called(a)'
            BY <3>1, <5>1 DEF Called, Modules
          <5>3. phase \in CallbackPhases => LoopOver
            BY <2>8, <3>3, <4>1 DEF PhasePassed, Moved, CallbackPhases,
               ResponsePhases
          <5> QED
            BY <3>3, <5>2, <5>3 DEF LoopOver, Called
        <4>2. CASE phase' \notin CallbackPhases
          <5>1. phase \in CallbackPhases => LoopOver \/ Late'
            BY <2>8, <3>3, <4>2 DEF PhasePassed, Moved, CallbackPhases,
               ResponsePhases, Late
          <5> QED
            BY <3>3, <4>2, <5>1 DEF LoopOver, Called
        <4> QED
          BY <4>1, <4>2
      <3> QED
        BY <2>1, <2>2, <3>1, <3>2, <3>3 DEF ChainInv
    <2> QED
      BY <2>1, <2>3, <2>4, <2>5, <2>6, <2>7, <2>8 DEF MoveOf
  <1> QED
    BY <1>1, <1>2, <1>3 DEF Next, Host, CallStep, MoveStep

\* Every step keeps what is known of the wire.
LEMMA WireInvStep ==
  ASSUME FilterInv, Next
  PROVE  WireInv'
  <1> USE ChainAssumption
  <1> /\ TypeOK /\ PosInv /\ ScopeInv /\ OrderInv /\ EosInv /\ ChainInv
      /\ WireInv /\ LsapiInv
    BY DEF FilterInv
  <1>1. CASE Filter
    <2>1. /\ calling /\ next \in Modules
          /\ UNCHANGED <<transport, phase, next, calling, scope,
                         has_local_response, outcome>>
      BY <1>1, FilterFacts
    <2>2. SUFFICES ASSUME ~Late
                   PROVE  /\ ~hasStreamingResponse' => wire' = <<>> /\ resp_header'
                          /\ \A m \in Modules : Only(m)' => StreamWire(m)'
      <3>1. Fresh' => ~Late
        BY <2>1 DEF Fresh, Late, Decided
      <3>2. ~Late => phase \in RequestPhases \cup ResponsePhases
        BY <2>1 DEF PosInv, Late
      <3> QED
        BY <2>1, <3>1, <3>2 DEF WireInv, Responding, RequestPhases,
           ResponsePhases, Late
    <2>3. /\ ~hasStreamingResponse => wire = <<>> /\ resp_header
          /\ \A m \in Modules : Only(m) => StreamWire(m)
      <3>1. Fresh /\ ~Responding
        BY <2>1, <2>2 DEF Fresh, Responding, PosInv, Late, RequestPhases,
           ResponsePhases
      <3> QED
        BY <3>1 DEF WireInv
    <2>4. CASE streamingSendHeaders
      <3>1. PICK ok \in BOOLEAN, named \in BOOLEAN :
              /\ \/ transport = "http" /\ HttpSendHeaders(next, ok)
                 \/ transport = "lsapi" /\ LsapiSendHeaders(next, named, ok)
              /\ streaming_state' = [streaming_state EXCEPT ![next] =
                                       IF ok THEN "HeadersSent" ELSE "Idle"]
              /\ streaming_state[next] = "Idle"
        BY <2>4 DEF streamingSendHeaders
      <3>2. CASE ~ok
        <4>1. UNCHANGED <<transport, streaming_state>>
          BY <2>1, <3>1, <3>2 DEF TypeOK
        <4>2. /\ hasStreamingResponse' <=> hasStreamingResponse
              /\ \A m \in Modules : Only(m)' <=> Only(m)
          BY <4>1 DEF hasStreamingResponse, Only
        <4>3. CASE UNCHANGED <<wire, resp_header>> /\ transport = "http"
          BY <2>3, <4>1, <4>2, <4>3 DEF StreamWire, Complete
        <4>4. CASE UNCHANGED <<wire, resp_header>> /\ sink_error'
                   /\ transport = "lsapi"
          BY <2>3, <4>1, <4>2, <4>4 DEF StreamWire
        <4>5. CASE ~resp_header /\ Put("stray_headers", next) /\ sink_error'
                   /\ transport = "lsapi"
          <5>1. Len(wire') >= 1
            <6>1. wire \in Seq(Kinds \X Origins) /\ next \in Origins
              BY <2>1, OriginsAll DEF TypeOK
            <6>2. Len(wire') = Len(wire) + 1 /\ Len(wire) \in Nat
              BY <4>5, <6>1, PutFacts, KindsAll
            <6> QED
              BY <6>2
          <5> QED
            BY <2>3, <4>1, <4>2, <4>5, <5>1 DEF StreamWire
        <4> QED
          BY <3>1, <3>2, <4>3, <4>4, <4>5 DEF HttpSendHeaders, LsapiSendHeaders
      <3>3. CASE ok
        <4>1. streaming_state'[next] = "HeadersSent"
          BY <2>1, <3>1, <3>3 DEF TypeOK
        <4>2. hasStreamingResponse'
          BY <2>1, <4>1 DEF hasStreamingResponse
        <4>3. ASSUME NEW m \in Modules, Only(m)' PROVE StreamWire(m)'
          <5>1. m = next
            BY <2>1, <4>1, <4>3 DEF Only
          <5>2. wire = <<>> /\ resp_header
            BY <1>1, <2>3, <3>1, <4>3, <5>1, OnlyBefore
          <5>3. \/ transport = "http" /\ wire' = << <<"chunked_head", m>> >>
                \/ transport = "lsapi" /\ wire' = << <<"head", m>> >>
            <6>1. \/ transport = "http" /\ Put("chunked_head", m)
                  \/ transport = "lsapi" /\ Put("head", m)
              BY <3>1, <3>3, <5>1, <5>2 DEF HttpSendHeaders, LsapiSendHeaders
            <6> QED
              BY <5>2, <6>1, PutFirst
          <5> QED
            BY <2>1, <4>1, <5>1, <5>3 DEF StreamWire, Complete
        <4> QED
          BY <4>2, <4>3
      <3> QED
        BY <3>2, <3>3
    <2>5. CASE streamingWriteChunk
      <3>1. /\ streaming_state[next] = "HeadersSent" /\ UNCHANGED streaming_state
            /\ writeBody("chunk", next)
        BY <2>5 DEF streamingWriteChunk
      <3>2. hasStreamingResponse'
        BY <2>1, <3>1 DEF hasStreamingResponse
      <3>3. ASSUME NEW m \in Modules, Only(m)' PROVE StreamWire(m)'
        <4>1. m = next /\ StreamWire(m)
          BY <1>1, <2>3, <3>1, <3>3, OnlyBefore
        <4>2. CASE UNCHANGED wire /\ (sink_error => sink_error')
          BY <2>1, <3>1, <4>1, <4>2 DEF StreamWire, Complete
        <4>3. CASE transport = "http" /\ Put("chunk", m)
          <5>1. wire \in Seq(Kinds \X Origins) /\ m \in Origins
            BY OriginsAll DEF TypeOK
          <5>2. /\ Len(wire') = Len(wire) + 1 /\ Len(wire) \in Nat
                /\ wire'[Len(wire) + 1] = <<"chunk", m>>
                /\ \A i \in 1..Len(wire) : wire'[i] = wire[i]
            BY <4>3, <5>1, PutFacts, KindsAll
          <5> QED
            BY <2>1, <3>1, <4>1, <4>3, <5>2 DEF StreamWire
        <4>4. CASE transport = "lsapi" /\ Put("body", m)
          <5>1. wire \in Seq(Kinds \X Origins) /\ m \in Origins
            BY OriginsAll DEF TypeOK
          <5>2. /\ Len(wire') = Len(wire) + 1 /\ Len(wire) \in Nat
                /\ wire'[Len(wire) + 1] = <<"body", m>>
                /\ \A i \in 1..Len(wire) : wire'[i] = wire[i]
            BY <4>4, <5>1, PutFacts, KindsAll
          <5>3. CASE sink_error'
            BY <2>1, <4>4, <5>2, <5>3 DEF StreamWire
          <5>4. CASE Complete(wire, m)
            <6>1. Complete(wire, m)'
              BY <2>1, <4>1, <4>4, <5>2, <5>4 DEF Complete
            <6> QED
              BY <2>1, <4>4, <5>2, <6>1 DEF StreamWire
          <5> QED
            BY <3>1, <4>1, <4>4, <5>3, <5>4 DEF StreamWire, writeBody, sinkVars
        <4> QED
          BY <3>1, <4>1, <4>2, <4>3, <4>4 DEF writeBody, sinkVars
      <3> QED
        BY <3>2, <3>3
    <2>6. CASE streamingFinish
      <3>1. PICK ok \in BOOLEAN :
              /\ finishBody(next, ok)
              /\ streaming_state' = [streaming_state EXCEPT ![next] =
                                       IF ok THEN "Finished" ELSE "HeadersSent"]
              /\ streaming_state[next] = "HeadersSent"
        BY <2>6 DEF streamingFinish
      <3>2. /\ streaming_state'[next] = IF ok THEN "Finished" ELSE "HeadersSent"
            /\ hasStreamingResponse'
        BY <2>1, <3>1 DEF TypeOK, hasStreamingResponse
      <3>3. ASSUME NEW m \in Modules, Only(m)' PROVE StreamWire(m)'
        <4>1. m = next /\ StreamWire(m)
          BY <1>1, <2>3, <3>1, <3>3, OnlyBefore
        <4>2. CASE transport = "lsapi"
          BY <2>1, <3>1, <4>1, <4>2 DEF finishBody, sinkVars, StreamWire,
             Complete
        <4>3. CASE transport = "http" /\ ~ok
          BY <2>1, <3>1, <3>2, <4>1, <4>3 DEF finishBody, sinkVars, StreamWire
        <4>4. CASE transport = "http" /\ ok
          <5>1. wire \in Seq(Kinds \X Origins) /\ m \in Origins
            BY OriginsAll DEF TypeOK
          <5>2. Put("last", m)
            BY <3>1, <4>1, <4>4 DEF finishBody
          <5>3. /\ Len(wire') = Len(wire) + 1 /\ Len(wire) \in Nat
                /\ wire'[Len(wire) + 1] = <<"last", m>>
                /\ \A i \in 1..Len(wire) : wire'[i] = wire[i]
            BY <5>1, <5>2, PutFacts, KindsAll
          <5>4. /\ Len(wire) >= 1 /\ wire[1] = <<"chunked_head", m>>
                /\ \A i \in 2..Len(wire) : wire[i] = <<"chunk", m>>
            BY <3>1, <4>1, <4>4 DEF StreamWire
          <5>5. Complete(wire, m)'
            BY <2>1, <4>1, <4>4, <5>3, <5>4 DEF Complete
          <5> QED
            BY <2>1, <3>2, <4>1, <4>4, <5>3, <5>4, <5>5 DEF StreamWire
        <4> QED
          BY <4>2, <4>3, <4>4 DEF TypeOK
      <3> QED
        BY <3>2, <3>3
    <2>7. CASE sendLocalResponse
      <3>1. UNCHANGED <<transport, streaming_state, wire, resp_header, sink_error>>
        BY <2>1, <2>7 DEF sendLocalResponse, sinkVars
      <3> QED
        BY <2>3, <3>1, WireFrame
    <2> QED
      BY <1>1, <2>4, <2>5, <2>6, <2>7 DEF Filter
  <1>2. CASE CallStep
    <2>1. PICK m \in Modules : CallOf(m)
      BY <1>2, CallFacts
    <2>2. /\ UNCHANGED <<transport, streaming_state, wire, sink_error,
                         resp_header, phase>>
          /\ phase = "teardown" => ~Fresh'
          /\ phase \notin {"respond_head", "respond_body", "respond_finish"}
      BY <2>1 DEF CallOf, Fresh, Late, Decided, CallbackPhases, ResponsePhases
    <2>3. /\ Fresh' => Fresh /\ phase # "teardown"
          /\ Responding' <=> Responding
      BY <2>2 DEF Fresh, Late, Decided, Responding
    <2> QED
      BY <2>2, <2>3, WireFrame DEF WireInv
  <1>3. CASE Parse
    BY <1>3, WireFrame DEF WireInv, Parse, Continue, Go, hostVars, filterVars,
       sinkVars, WireInv, Fresh, Late, Decided, Responding
  <1>4. CASE CreateScopeFails
    BY <1>4, WireFrame DEF WireInv, CreateScopeFails, hostVars, filterVars,
       sinkVars, WireInv, Fresh, Late, Decided, Responding
  <1>5. CASE EndCallback
    <2>1. /\ UNCHANGED <<transport, streaming_state, wire, sink_error,
                         resp_header, phase, outcome>>
          /\ calling /\ phase # "teardown" /\ ~Late /\ ~Responding /\ ~Responding'
          /\ phase \notin {"respond_head", "respond_body", "respond_finish"}
      BY <1>5 DEF EndCallback, hostVars, filterVars, sinkVars, PosInv, Late,
         Responding, RequestPhases, ResponsePhases
    <2> QED
      BY <2>1, WireFrame DEF WireInv, Fresh
  <1>6. CASE Throw
    BY <1>6, WireFrame DEF WireInv, Throw, hostVars, filterVars, sinkVars,
       Fresh, Late, Decided, Responding, Succeeds
  <1>7. CASE EndRequestHeaders
    BY <1>7, WireFrame DEF WireInv, EndRequestHeaders, Continue, Go, hostVars,
       filterVars, sinkVars, PhaseOver, WireInv, Fresh, Late, Decided,
       Responding
  <1>8. CASE ReadBody
    <2>1. /\ UNCHANGED <<transport, total, streaming_state, wire, sink_error,
                         resp_header, has_local_response>>
          /\ ~Late /\ Fresh /\ ~Responding
      BY <1>8 DEF ReadBody, Continue, Return, Go, hostVars, filterVars,
         sinkVars, Late, Fresh, Responding
    <2>2. ASSUME phase' = "teardown" PROVE ~Succeeds'
      <3>1. /\ consumed < total /\ ~has_local_response /\ UNCHANGED consumed
            /\ outcome' = IF transport = "http" THEN "error" ELSE "returned"
        BY <1>8, <2>2 DEF ReadBody, Continue, Return, Go
      <3> QED
        BY <2>1, <3>1 DEF Succeeds, Unharmed, TypeOK
    <2>3. /\ phase' \in {"teardown", "respond_head", "request_body",
                         "request_trailers"}
          /\ phase' = "respond_head" => has_local_response
      BY <1>8 DEF ReadBody, Continue, Return, Go
    <2> QED
      BY <2>1, <2>2, <2>3, WireFrame DEF WireInv, Responding
  <1>9. CASE EndRequestBody
    BY <1>9, WireFrame DEF WireInv, EndRequestBody, Continue, Go, hostVars,
       filterVars, sinkVars, PhaseOver, WireInv, Fresh, Late, Decided,
       Responding
  <1>10. CASE EndRequestTrailers
    <2>1. /\ UNCHANGED <<transport, streaming_state, wire, sink_error,
                         resp_header, has_local_response>>
          /\ ~Late /\ Fresh /\ ~Responding
      BY <1>10 DEF EndRequestTrailers, Continue, Return, Go, hostVars,
         filterVars, sinkVars, PhaseOver, Late, Fresh, Responding
    <2>2. ASSUME phase' = "teardown", Succeeds'
          PROVE  \E m \in Modules : streaming_state'[m] # "Idle"
                   /\ (Only(m)' => Complete(wire, m)' \/ has_local_response')
      <3>0. /\ hasStreamingResponse
            /\ has_local_response \/ isStreamingFinished
            /\ transport = "lsapi" => ~sink_error
        BY <1>10, <2>1, <2>2 DEF EndRequestTrailers, Continue, Return, Go,
           hostVars, filterVars, sinkVars, Succeeds, Unharmed,
           hasStreamingResponse, isStreamingFinished, TypeOK
      <3>1. PICK m \in Modules : /\ streaming_state[m] # "Idle"
                                 /\ \/ has_local_response
                                    \/ streaming_state[m] = "Finished"
        BY <3>0 DEF hasStreamingResponse, isStreamingFinished
      <3>2. Only(m) => Complete(wire, m) \/ has_local_response
        BY <2>1, <3>0, <3>1 DEF WireInv, StreamWire, TypeOK
      <3>3. m \in Origins
        BY OriginsAll
      <3> QED
        BY <2>1, <3>1, <3>2, <3>3, WireFrame
    <2>3. /\ phase' \in {"teardown", "respond_head", "response_headers"}
          /\ phase' = "respond_head" => ~hasStreamingResponse \/ has_local_response
      BY <1>10 DEF EndRequestTrailers, Continue, Return, Go, hostVars,
         filterVars, sinkVars, PhaseOver
    <2> QED
      BY <2>1, <2>2, <2>3, WireFrame DEF WireInv, Responding
  <1>11. CASE EndResponsePhase
    BY <1>11, WireFrame DEF WireInv, EndResponsePhase, Continue, Go, hostVars,
       filterVars, sinkVars, PhaseOver, WireInv, Fresh, Late, Decided,
       Responding
  <1>12. CASE EndResponseTrailers
    <2>1. /\ UNCHANGED <<transport, streaming_state, wire, sink_error,
                         resp_header, has_local_response>>
          /\ ~Late /\ Fresh /\ ~Responding
      BY <1>12 DEF EndResponseTrailers, Continue, Return, Go, hostVars,
         filterVars, sinkVars, PhaseOver, Late, Fresh, Responding
    <2>2. ASSUME phase' = "teardown", Succeeds'
          PROVE  \E m \in Modules : streaming_state'[m] # "Idle"
                   /\ (Only(m)' => Complete(wire, m)' \/ has_local_response')
      <3>0. /\ hasStreamingResponse
            /\ has_local_response \/ isStreamingFinished
            /\ transport = "lsapi" => ~sink_error
        BY <1>12, <2>1, <2>2 DEF EndResponseTrailers, Continue, Return, Go,
           hostVars, filterVars, sinkVars, Succeeds, Unharmed,
           hasStreamingResponse, isStreamingFinished, TypeOK
      <3>1. PICK m \in Modules : /\ streaming_state[m] # "Idle"
                                 /\ \/ has_local_response
                                    \/ streaming_state[m] = "Finished"
        BY <3>0 DEF hasStreamingResponse, isStreamingFinished
      <3>2. Only(m) => Complete(wire, m) \/ has_local_response
        BY <2>1, <3>0, <3>1 DEF WireInv, StreamWire, TypeOK
      <3>3. m \in Origins
        BY OriginsAll
      <3> QED
        BY <2>1, <3>1, <3>2, <3>3, WireFrame
    <2>3. /\ phase' \in {"teardown", "respond_head", "response_headers"}
          /\ phase' = "respond_head" => ~hasStreamingResponse \/ has_local_response
      BY <1>12 DEF EndResponseTrailers, Continue, Return, Go, hostVars,
         filterVars, sinkVars, PhaseOver
    <2> QED
      BY <2>1, <2>2, <2>3, WireFrame DEF WireInv, Responding
  <1>13. CASE RespondHead
    <2>1. /\ ~Late /\ Fresh /\ ~Responding /\ phase = "respond_head"
          /\ phase' = "respond_body"
          /\ UNCHANGED <<transport, streaming_state, has_local_response>>
      BY <1>13 DEF RespondHead, Respond, hostVars, filterVars, Late, Fresh,
         Responding
    <2>2. hasStreamingResponse' <=> hasStreamingResponse
      BY <2>1 DEF hasStreamingResponse
    <2>3. Origin' = Origin
      BY <2>1 DEF Origin
    <2>4. ASSUME ~hasStreamingResponse
          PROVE  \/ wire' = << <<"head", Origin>> >>
                 \/ transport = "lsapi" /\ sink_error'
      <3>1. wire = << >> /\ resp_header
        BY <2>1, <2>4 DEF WireInv
      <3>2. Put("head", Origin) \/ (transport = "lsapi" /\ sink_error')
        BY <1>13, <3>1 DEF RespondHead, LsapiSendHeaders
      <3> QED
        BY <3>1, <3>2, PutFirst
    <2> QED
      BY <2>1, <2>2, <2>3, <2>4 DEF WireInv, Responding
  <1>14. CASE RespondBody
    <2>1. /\ ~Late /\ Fresh /\ phase = "respond_body" /\ phase' = "respond_finish"
          /\ UNCHANGED <<transport, streaming_state, has_local_response>>
      BY <1>14 DEF RespondBody, Respond, hostVars, filterVars, Late, Fresh
    <2>2. hasStreamingResponse' <=> hasStreamingResponse
      BY <2>1 DEF hasStreamingResponse
    <2>3. Origin' = Origin /\ Origin \in Origins \ Modules
      BY <2>1, OriginsAll DEF Origin
    <2>4. ASSUME ~hasStreamingResponse
          PROVE  Complete(wire, Origin)' \/ (transport = "lsapi" /\ sink_error')
      <3>1. \/ transport = "lsapi" /\ sink_error'
            \/ /\ wire = << <<"head", Origin>> >>
               /\ wire' = wire \/ wire' = Append(wire, <<"body", Origin>>)
        BY <1>14, <2>1, <2>4 DEF WireInv, RespondBody, writeBody, sinkVars, Put
      <3>2. ASSUME wire = << <<"head", Origin>> >>,
                   wire' = wire \/ wire' = Append(wire, <<"body", Origin>>)
            PROVE  Complete(wire, Origin)'
        <4>1. \/ wire' = << <<"head", Origin>> >>
              \/ wire' = << <<"head", Origin>>, <<"body", Origin>> >>
          BY <3>2
        <4> QED
          BY <2>3, <4>1 DEF Complete
      <3> QED
        BY <3>1, <3>2
    <2> QED
      BY <2>1, <2>2, <2>3, <2>4 DEF WireInv, Responding
  <1>15. CASE RespondFinish
    <2>1. /\ ~Late /\ Fresh /\ phase = "respond_finish" /\ phase' = "teardown"
          /\ UNCHANGED <<transport, streaming_state, has_local_response>>
      BY <1>15 DEF RespondFinish, hostVars, filterVars, Late, Fresh
    <2>2. Origin' = Origin /\ Origin \in Origins
      BY <2>1, OriginsAll DEF Origin
    <2>3. ASSUME Succeeds'
          PROVE  \/ ~hasStreamingResponse' /\ Complete(wire, Origin)'
                 \/ \E m \in Modules : streaming_state'[m] # "Idle"
                      /\ (Only(m)' => Complete(wire, m)' \/ has_local_response')
      <3>1. UNCHANGED wire /\ ~(transport = "lsapi" /\ sink_error)
        BY <1>15, <2>1, <2>3 DEF RespondFinish, finishBody, sinkVars, Succeeds,
           Unharmed
      <3>2. CASE hasStreamingResponse
        BY <2>1, <3>2 DEF WireInv, hasStreamingResponse
      <3>3. CASE ~hasStreamingResponse
        <4>1. Complete(wire, Origin)
          BY <2>1, <3>1, <3>3 DEF WireInv
        <4> QED
          BY <2>1, <2>2, <3>1, <3>3, <4>1 DEF Complete, hasStreamingResponse
      <3> QED
        BY <3>2, <3>3
    <2> QED
      BY <2>1, <2>3 DEF WireInv, Responding
  <1>16. CASE EndDone
    <2>1. phase' = "teardown" /\ scope'[next] = "gone" /\ next \in Modules
      BY <1>16 DEF EndDone, TypeOK
    <2> QED
      BY <2>1 DEF WireInv, Fresh, Late, Decided
  <1>17. CASE Returned
    BY <1>17, WireFrame DEF WireInv, Returned, Continue, Go, hostVars,
       filterVars, sinkVars, WireInv, Fresh, Late, Decided, Responding
  <1>18. CASE LSAPI_Finish_r
    BY <1>18, WireFrame DEF WireInv, LSAPI_Finish_r, hostVars, filterVars,
       WireInv, Fresh, Late, Decided, Responding
  <1> QED
    BY <1>1, <1>2, <1>3, <1>4, <1>5, <1>6, <1>7, <1>8, <1>9, <1>10, <1>11,
       <1>12, <1>13, <1>14, <1>15, <1>16, <1>17, <1>18 DEF Next, Host, CallStep

\* Every step keeps what is known of an LSAPI response.
LEMMA LsapiInvStep ==
  ASSUME FilterInv, Next
  PROVE  LsapiInv'
  <1> USE ChainAssumption
  <1> /\ TypeOK /\ PosInv /\ ScopeInv /\ OrderInv /\ EosInv /\ ChainInv
      /\ WireInv /\ LsapiInv
    BY DEF FilterInv
  <1>1. CASE Filter
    <2>1. /\ calling /\ next \in Modules /\ next \in Origins
          /\ phase # "ended" /\ phase # "respond_body"
          /\ UNCHANGED <<transport, phase>>
          /\ \A m \in Modules : m # next => streaming_state'[m] = streaming_state[m]
      BY <1>1, FilterFacts, OriginsAll DEF PosInv, RequestPhases,
         ResponsePhases
    <2>2. SUFFICES ASSUME transport = "lsapi" PROVE LsapiWire'
      BY <2>1 DEF LsapiInv, LsapiWire, LsapiOneResponse
    <2>3. LsapiWire
      BY <2>1, <2>2 DEF LsapiInv, LsapiWire
    <2>4. CASE streamingSendHeaders
      <3>1. PICK ok \in BOOLEAN, named \in BOOLEAN :
              /\ LsapiSendHeaders(next, named, ok)
              /\ streaming_state' = [streaming_state EXCEPT ![next] =
                                       IF ok THEN "HeadersSent" ELSE "Idle"]
        BY <2>2, <2>4 DEF streamingSendHeaders
      <3>2. ~ok => streaming_state'[next] = "Idle"
        BY <2>1, <3>1 DEF TypeOK
      <3>3. ok => ~resp_header'
        BY <3>1 DEF LsapiSendHeaders
      <3>4. "head" \in Kinds
        BY KindsAll
      <3>5. /\ resp_header' <=> wire' = <<>>
            /\ wire' # <<>> => wire'[1][1] = "head"
            /\ \A i \in 2..Len(wire') : wire'[i][1] \in {"body", "stray_headers"}
            /\ ~resp_header => ~resp_header'
        BY <2>1, <2>2, <2>3, <3>1, <3>4, LsapiCalls
      <3> QED
        BY <2>1, <2>3, <3>2, <3>3, <3>5 DEF LsapiWire
    <2>5. CASE streamingWriteChunk
      <3>1. /\ writeBody("chunk", next) /\ UNCHANGED streaming_state
            /\ ~resp_header /\ "chunk" \in Kinds
        BY <2>1, <2>3, <2>5, KindsAll DEF streamingWriteChunk, LsapiWire
      <3>2. /\ resp_header' <=> wire' = <<>>
            /\ wire' # <<>> => wire'[1][1] = "head"
            /\ \A i \in 2..Len(wire') : wire'[i][1] \in {"body", "stray_headers"}
            /\ ~resp_header => ~resp_header'
        BY <2>1, <2>2, <2>3, <3>1, LsapiCalls
      <3> QED
        BY <2>1, <2>3, <3>1, <3>2 DEF LsapiWire
    <2>6. CASE streamingFinish
      <3>1. ~resp_header /\ UNCHANGED <<wire, resp_header>>
        BY <2>1, <2>2, <2>3, <2>6 DEF streamingFinish, LsapiWire, finishBody,
           sinkVars
      <3> QED
        BY <2>1, <2>3, <3>1 DEF LsapiWire
    <2>7. CASE sendLocalResponse
      BY <2>1, <2>3, <2>7 DEF LsapiWire, sendLocalResponse, sinkVars
    <2> QED
      BY <1>1, <2>4, <2>5, <2>6, <2>7 DEF Filter
  <1>2. CASE CallStep
    <2>1. PICK m \in Modules : CallOf(m)
      BY <1>2, CallFacts
    <2>2. /\ UNCHANGED <<transport, wire, resp_header, streaming_state, phase>>
          /\ phase # "ended" /\ phase # "respond_body"
      BY <2>1 DEF CallOf, CallbackPhases, ResponsePhases
    <2> QED
      BY <2>2 DEF LsapiInv, LsapiOneResponse
  <1>3. CASE Parse
    BY <1>3 DEF Parse, Continue, Go, hostVars, filterVars, sinkVars, LsapiInv,
       PosInv
  <1>4. CASE CreateScopeFails
    <2>1. /\ phase # "ended" /\ phase' # "ended" /\ phase' # "respond_body"
          /\ UNCHANGED <<transport, wire, resp_header, streaming_state>>
      BY <1>4 DEF CreateScopeFails, hostVars, filterVars, sinkVars
    <2> QED
      BY <2>1 DEF LsapiInv, LsapiOneResponse
  <1>5. CASE EndCallback
    <2>1. /\ phase # "ended" /\ phase' # "ended" /\ phase' # "respond_body"
          /\ UNCHANGED <<transport, wire, resp_header, streaming_state>>
      BY <1>5 DEF EndCallback, hostVars, filterVars, sinkVars, PosInv,
         RequestPhases, ResponsePhases
    <2> QED
      BY <2>1 DEF LsapiInv, LsapiOneResponse
  <1>6. CASE Throw
    <2>1. /\ phase # "ended" /\ phase' # "ended" /\ phase' # "respond_body"
          /\ UNCHANGED <<transport, wire, resp_header, streaming_state>>
      BY <1>6 DEF Throw, hostVars, filterVars, sinkVars, PosInv,
         RequestPhases, ResponsePhases
    <2> QED
      BY <2>1 DEF LsapiInv, LsapiOneResponse
  <1>7. CASE EndRequestHeaders
    <2>1. /\ phase # "ended" /\ phase' # "ended" /\ phase' # "respond_body"
          /\ UNCHANGED <<transport, wire, resp_header, streaming_state>>
      BY <1>7 DEF EndRequestHeaders, Continue, Go, hostVars, filterVars,
         sinkVars, PhaseOver
    <2> QED
      BY <2>1 DEF LsapiInv, LsapiOneResponse
  <1>8. CASE ReadBody
    <2>1. /\ phase # "ended" /\ phase' # "ended" /\ phase' # "respond_body"
          /\ UNCHANGED <<transport, wire, resp_header, streaming_state>>
      BY <1>8 DEF ReadBody, Continue, Return, Go, hostVars, filterVars,
         sinkVars, PosInv, RequestPhases, ResponsePhases
    <2> QED
      BY <2>1 DEF LsapiInv, LsapiOneResponse
  <1>9. CASE EndRequestBody
    <2>1. /\ phase # "ended" /\ phase' # "ended" /\ phase' # "respond_body"
          /\ UNCHANGED <<transport, wire, resp_header, streaming_state>>
      BY <1>9 DEF EndRequestBody, Continue, Go, hostVars, filterVars,
         sinkVars, PhaseOver, PosInv, RequestPhases, ResponsePhases
    <2> QED
      BY <2>1 DEF LsapiInv, LsapiOneResponse
  <1>10. CASE EndRequestTrailers
    <2>1. /\ phase # "ended" /\ phase' # "ended" /\ phase' # "respond_body"
          /\ UNCHANGED <<transport, wire, resp_header, streaming_state>>
      BY <1>10 DEF EndRequestTrailers, Continue, Return, Go, hostVars,
         filterVars, sinkVars, PhaseOver, PosInv, RequestPhases, ResponsePhases
    <2> QED
      BY <2>1 DEF LsapiInv, LsapiOneResponse
  <1>11. CASE EndResponsePhase
    <2>1. /\ phase # "ended" /\ phase' # "ended" /\ phase' # "respond_body"
          /\ UNCHANGED <<transport, wire, resp_header, streaming_state>>
      BY <1>11 DEF EndResponsePhase, Continue, Go, hostVars, filterVars,
         sinkVars, PhaseOver, PosInv, RequestPhases, ResponsePhases
    <2> QED
      BY <2>1 DEF LsapiInv, LsapiOneResponse
  <1>12. CASE EndResponseTrailers
    <2>1. /\ phase # "ended" /\ phase' # "ended" /\ phase' # "respond_body"
          /\ UNCHANGED <<transport, wire, resp_header, streaming_state>>
      BY <1>12 DEF EndResponseTrailers, Continue, Return, Go, hostVars,
         filterVars, sinkVars, PhaseOver, PosInv, RequestPhases, ResponsePhases
    <2> QED
      BY <2>1 DEF LsapiInv, LsapiOneResponse
  <1>13. CASE RespondHead
    <2>1. /\ Origin \in Origins /\ phase = "respond_head" /\ phase' = "respond_body"
          /\ UNCHANGED <<transport, streaming_state>>
      BY <1>13, OriginsAll DEF RespondHead, Respond, hostVars, filterVars,
         Origin
    <2>2. SUFFICES ASSUME transport = "lsapi" PROVE LsapiWire'
      BY <2>1 DEF LsapiInv, LsapiWire, LsapiOneResponse
    <2>3. LsapiWire /\ "body" \in Kinds
      BY <2>1, <2>2, KindsAll DEF LsapiInv, LsapiWire
    <2>4. /\ resp_header' <=> wire' = <<>>
          /\ wire' # <<>> => wire'[1][1] = "head"
          /\ \A i \in 2..Len(wire') : wire'[i][1] \in {"body", "stray_headers"}
          /\ ~resp_header => ~resp_header'
      <3>1. PICK ok \in BOOLEAN, named \in BOOLEAN :
              LsapiSendHeaders(Origin, named, ok)
        BY <1>13, <2>2 DEF RespondHead
      <3> QED
        BY <2>1, <2>2, <2>3, <3>1, LsapiCalls
    <2>5. sink_error' \/ ~resp_header'
      BY <1>13, <2>2 DEF RespondHead, LsapiSendHeaders
    <2> QED
      BY <2>1, <2>3, <2>4, <2>5 DEF LsapiWire
  <1>14. CASE RespondBody
    <2>1. /\ Origin \in Origins /\ phase = "respond_body" /\ phase' = "respond_finish"
          /\ UNCHANGED <<transport, streaming_state>>
      BY <1>14, OriginsAll DEF RespondBody, Respond, hostVars, filterVars,
         Origin
    <2>2. SUFFICES ASSUME transport = "lsapi" PROVE LsapiWire'
      BY <2>1 DEF LsapiInv, LsapiWire, LsapiOneResponse
    <2>3. LsapiWire /\ "body" \in Kinds
      BY <2>1, <2>2, KindsAll DEF LsapiInv, LsapiWire
    <2>4. /\ resp_header' <=> wire' = <<>>
          /\ wire' # <<>> => wire'[1][1] = "head"
          /\ \A i \in 2..Len(wire') : wire'[i][1] \in {"body", "stray_headers"}
          /\ ~resp_header => ~resp_header'
      <3>1. \/ UNCHANGED <<wire, resp_header>>
            \/ writeBody("body", Origin) /\ (~sink_error => ~resp_header)
        BY <1>14, <2>1, <2>2, <2>3 DEF RespondBody, LsapiWire, sinkVars
      <3>2. CASE UNCHANGED <<wire, resp_header>>
        BY <2>3, <3>2 DEF LsapiWire
      <3>3. CASE writeBody("body", Origin) /\ (~sink_error => ~resp_header)
        BY <2>1, <2>2, <2>3, <3>3, LsapiCalls
      <3> QED
        BY <3>1, <3>2, <3>3
    <2> QED
      BY <2>1, <2>3, <2>4 DEF LsapiWire
  <1>15. CASE RespondFinish
    <2>1. /\ Origin \in Origins /\ phase = "respond_finish" /\ phase' = "teardown"
          /\ UNCHANGED <<transport, streaming_state>>
      BY <1>15, OriginsAll DEF RespondFinish, hostVars, filterVars, Origin
    <2>2. SUFFICES ASSUME transport = "lsapi" PROVE LsapiWire'
      BY <2>1 DEF LsapiInv, LsapiWire, LsapiOneResponse
    <2>3. LsapiWire /\ "body" \in Kinds
      BY <2>1, <2>2, KindsAll DEF LsapiInv, LsapiWire
    <2>4. /\ resp_header' <=> wire' = <<>>
          /\ wire' # <<>> => wire'[1][1] = "head"
          /\ \A i \in 2..Len(wire') : wire'[i][1] \in {"body", "stray_headers"}
          /\ ~resp_header => ~resp_header'
      <3>1. UNCHANGED <<wire, resp_header>>
        BY <1>15, <2>2 DEF RespondFinish, finishBody, sinkVars
      <3> QED
        BY <2>3, <3>1 DEF LsapiWire
    <2> QED
      BY <2>1, <2>3, <2>4 DEF LsapiWire
  <1>16. CASE EndDone
    <2>1. /\ phase # "ended" /\ phase' # "ended" /\ phase' # "respond_body"
          /\ UNCHANGED <<transport, wire, resp_header, streaming_state>>
      BY <1>16 DEF EndDone, hostVars, filterVars, sinkVars, PosInv,
         RequestPhases, ResponsePhases
    <2> QED
      BY <2>1 DEF LsapiInv, LsapiOneResponse
  <1>17. CASE Returned
    <2>1. /\ UNCHANGED <<transport, wire, resp_header, streaming_state>>
          /\ phase = "teardown"
          /\ transport = "lsapi" => phase' = "finish_r"
      BY <1>17 DEF Returned, Continue, Go, hostVars, filterVars, sinkVars
    <2> QED
      BY <2>1 DEF LsapiInv, LsapiOneResponse
  <1>18. CASE LSAPI_Finish_r
    <2>1. /\ phase = "finish_r" /\ phase' = "ended" /\ UNCHANGED <<transport, fd_open>>
      BY <1>18 DEF LSAPI_Finish_r, hostVars, filterVars
    <2>2. SUFFICES ASSUME transport = "lsapi", fd_open
                   PROVE  /\ Len(wire') >= 2
                          /\ wire'[1][1] = "head"
                          /\ wire'[Len(wire')] = <<"end", Lsapi>>
                          /\ \A i \in 2..(Len(wire') - 1) :
                               wire'[i][1] \in {"body", "stray_headers"}
      BY <2>1 DEF LsapiInv, LsapiOneResponse
    <2>3. LsapiWire /\ wire \in Seq(Kinds \X Origins)
      BY <2>1, <2>2 DEF LsapiInv, LsapiWire, TypeOK
    <2>4. CASE resp_header
      <3>1. wire = << >>
        BY <2>3, <2>4 DEF LsapiWire
      <3>2. wire' = << >> \o << <<"head", Lsapi>> >> \o << <<"end", Lsapi>> >>
        BY <1>18, <2>2, <2>4, <3>1 DEF LSAPI_Finish_r
      <3>3. wire' = << <<"head", Lsapi>>, <<"end", Lsapi>> >>
        BY <3>2, ConcatTwo
      <3> QED
        BY <3>3
    <2>5. CASE ~resp_header
      <3>1. wire' = wire \o << >> \o << <<"end", Lsapi>> >>
        BY <1>18, <2>2, <2>5 DEF LSAPI_Finish_r
      <3>2. wire' = Append(wire, <<"end", Lsapi>>)
        BY <2>3, <3>1
      <3>3. wire # << >> /\ Len(wire) \in Nat /\ Len(wire) # 0
        BY <2>3, <2>5, EmptyLen DEF LsapiWire
      <3>4. /\ Len(wire') = Len(wire) + 1
            /\ wire'[Len(wire) + 1] = <<"end", Lsapi>>
            /\ \A i \in 1..Len(wire) : wire'[i] = wire[i]
        BY <2>3, <3>2
      <3> QED
        BY <2>3, <3>3, <3>4 DEF LsapiWire
    <2> QED
      BY <2>4, <2>5
  <1> QED
    BY <1>1, <1>2, <1>3, <1>4, <1>5, <1>6, <1>7, <1>8, <1>9, <1>10, <1>11,
       <1>12, <1>13, <1>14, <1>15, <1>16, <1>17, <1>18 DEF Next, Host, CallStep

----------------------------------------------------------------------------
(* The invariant *)

\* The first state.
LEMMA FilterInit ==
  ASSUME Init
  PROVE  FilterInv
  <1> USE ChainAssumption DEF Init
  <1>1. /\ phase \in {"parse", "request_headers"} /\ ~calling /\ next = 1
        /\ ~Late /\ ~Responding
        /\ phase \notin {"respond_head", "respond_body", "respond_finish"}
    BY DEF Late, Responding
  <1>2. \A m \in Modules :
          /\ scope[m] = "none" /\ seen[m] = << >> /\ Len(seen[m]) = 0
          /\ streaming_state[m] = "Idle" /\ ~local_response[m]
    OBVIOUS
  <1>3. TypeOK
    <2>1. << >> \in Seq(Kinds \X Origins)
      OBVIOUS
    <2>2. << >> \in Seq((DOMAIN Rank) \X BOOLEAN)
      OBVIOUS
    <2>3. /\ scope \in [Modules -> {"none", "live", "gone"}]
          /\ streaming_state \in [Modules -> {"Idle", "HeadersSent", "Finished"}]
          /\ local_response \in [Modules -> BOOLEAN]
      BY Zenon
    <2>4. seen \in [Modules -> Seq((DOMAIN Rank) \X BOOLEAN)]
      BY <2>2, Zenon
    <2>5. phase \in Phases
      BY DEF Phases, RequestPhases
    <2>6. next \in 1..(N + 1) /\ consumed \in 0..total /\ total \in Nat
          /\ calls \in Nat
      OBVIOUS
    <2>7. /\ calling \in BOOLEAN /\ has_local_response \in BOOLEAN
          /\ sink_error \in BOOLEAN /\ resp_header \in BOOLEAN
          /\ resp_body \in BOOLEAN /\ fd_open \in BOOLEAN
      BY Zenon
    <2> QED
      BY <2>1, <2>3, <2>4, <2>5, <2>6, <2>7, Zenon DEF TypeOK
  <1>4. PosInv
    BY <1>1, <1>2 DEF PosInv
  <1>5. ScopeInv
    BY <1>1, <1>2 DEF ScopeInv
  <1>6. OrderInv
    BY <1>2 DEF OrderInv, Ordered
  <1>7. EosInv
    BY <1>1, <1>2 DEF EosInv, ToldInOrder, ToldInTime, Told
  <1>8. ChainInv
    BY <1>2 DEF ChainInv
  <1>9. WireInv
    BY <1>1, <1>2 DEF WireInv, Only
  <1>10. LsapiInv
    BY <1>1, <1>2 DEF LsapiInv, LsapiOneResponse
  <1> QED
    BY <1>3, <1>4, <1>5, <1>6, <1>7, <1>8, <1>9, <1>10 DEF FilterInv

\* Nothing changes.
LEMMA FilterStutter ==
  ASSUME FilterInv, UNCHANGED vars
  PROVE  FilterInv'
  <1> USE DEF vars, hostVars, posVars, filterVars, sinkVars
  <1> /\ TypeOK /\ PosInv /\ ScopeInv /\ OrderInv /\ EosInv /\ ChainInv
      /\ WireInv /\ LsapiInv
    BY DEF FilterInv
  <1>1. TypeOK'
    BY DEF TypeOK
  <1>2. PosInv' /\ ScopeInv' /\ ChainInv'
    BY DEF PosInv, ScopeInv, ChainInv, Called, Late
  <1>3. OrderInv'
    BY DEF OrderInv, Ordered, Behind, RankAt, Called, Late
  <1>4. EosInv'
    BY DEF EosInv, ToldInOrder, ToldInTime, Told, EosAt, RankAt, Called, Late
  <1>5. WireInv'
    <2>1. Origin' = Origin /\ Origin \in Origins /\ (Fresh' <=> Fresh)
      BY OriginsAll DEF Origin, Fresh, Late, Decided
    <2> QED
      BY <2>1, WireFrame, OriginsAll DEF WireInv, Responding, Succeeds, Unharmed,
         hasStreamingResponse, isStreamingFinished
  <1>6. LsapiInv'
    BY DEF LsapiInv, LsapiOneResponse
  <1> QED
    BY <1>1, <1>2, <1>3, <1>4, <1>5, <1>6 DEF FilterInv

\* The inductive invariant holds of every request, over either transport,
\* whatever the filters call.
THEOREM FilterInvariant == SafeSpec => []FilterInv
  <1>1. Init => FilterInv
    BY FilterInit
  <1>2. FilterInv /\ [Next]_vars => FilterInv'
    <2>1. CASE FilterInv /\ Next
      BY <2>1, TypeOKStep, PosInvStep, ScopeInvStep, OrderInvStep, EosInvStep,
         ChainInvStep, WireInvStep, LsapiInvStep DEF FilterInv
    <2>2. CASE FilterInv /\ UNCHANGED vars
      BY <2>2, FilterStutter
    <2> QED
      BY <2>1, <2>2
  <1> QED
    BY <1>1, <1>2, PTL DEF SafeSpec

\* The variables keep their types; no more of the body is passed to the filters
\* than the request has (main.cpp:756-798, 1148-1169).
THEOREM FilterTypeCorrect == SafeSpec => []TypeOK
  <1>1. FilterInv => TypeOK
    BY DEF FilterInv
  <1> QED
    BY <1>1, FilterInvariant, PTL

\* The loops of http_filter.h call each module in phase order, mark exactly the
\* last piece of the body, and destroy every context by the end.
THEOREM CallbacksInOrder == SafeSpec => []CallbackOrder
  <1>1. ASSUME FilterInv PROVE CallbackOrder
    <2>1. TypeOK /\ ScopeInv /\ OrderInv /\ EosInv
      BY <1>1 DEF FilterInv
    <2>2. ASSUME NEW m \in Modules
          PROVE  /\ seen[m] # <<>> => seen[m][1][1] = "request_headers"
                 /\ \A i \in 1..(Len(seen[m]) - 1) :
                      \/ Rank[seen[m][i][1]] < Rank[seen[m][i + 1][1]]
                      \/ /\ seen[m][i][1] = "request_body"
                         /\ seen[m][i + 1][1] = "request_body"
                 /\ \A i \in 1..Len(seen[m]) :
                      /\ Rank[seen[m][i][1]] <= 2 /\ seen[m][i][2] =>
                           \A j \in (i + 1)..Len(seen[m]) :
                             seen[m][j][1] # "request_body"
                      /\ Rank[seen[m][i][1]] \in 3..6 =>
                           \E j \in 1..(i - 1) :
                             Rank[seen[m][j][1]] <= 2 /\ seen[m][j][2]
                 /\ phase = "ended" /\ seen[m] # <<>> =>
                      seen[m][Len(seen[m])][1] = "teardown"
      <3>1. Ordered(m) /\ ToldInOrder(m) /\ Len(seen[m]) \in Nat
        BY <2>1 DEF OrderInv, EosInv, TypeOK
      <3>2. \A i \in 1..Len(seen[m]) :
              RankAt(m, i) = 2 <=> seen[m][i][1] = "request_body"
        BY <2>1, RankTypes
      <3>3. seen[m] # <<>> => seen[m][1][1] = "request_headers"
        BY <3>1 DEF Ordered
      <3>4. ASSUME NEW i \in 1..(Len(seen[m]) - 1)
            PROVE  \/ RankAt(m, i) < RankAt(m, i + 1)
                   \/ /\ seen[m][i][1] = "request_body"
                      /\ seen[m][i + 1][1] = "request_body"
        <4>1. i \in 1..Len(seen[m]) /\ i + 1 \in 1..Len(seen[m]) /\ i < i + 1
          BY <3>1
        <4> QED
          BY <3>1, <3>2, <4>1 DEF Ordered
      <3>5. ASSUME NEW i \in 1..Len(seen[m]), EosAt(m, i),
                   NEW j \in (i + 1)..Len(seen[m])
            PROVE  seen[m][j][1] # "request_body"
        <4>1. j \in 1..Len(seen[m]) /\ i < j
          BY <3>1, <3>5
        <4> QED
          BY <3>1, <3>2, <3>5, <4>1 DEF ToldInOrder
      <3>6. ASSUME NEW i \in 1..Len(seen[m]), RankAt(m, i) \in 3..6
            PROVE  \E j \in 1..(i - 1) : EosAt(m, j)
        BY <3>1, <3>6 DEF ToldInOrder
      <3>7. phase = "ended" /\ seen[m] # <<>> =>
              seen[m][Len(seen[m])][1] = "teardown"
        BY <2>1 DEF ScopeInv, TypeOK
      <3> QED
        BY <3>3, <3>4, <3>5, <3>6, <3>7 DEF RankAt, EosAt
    <2> QED
      BY <2>2 DEF CallbackOrder
  <1> QED
    BY <1>1, FilterInvariant, PTL

\* checkLocalResponse (http_filter.h:335-348) stops the loop: no module is called
\* behind one that has sent a local response.
THEOREM LocalResponseStopsChain == SafeSpec => []LocalStopsChain
  <1>1. ASSUME FilterInv PROVE LocalStopsChain
    <2>1. PosInv /\ ChainInv
      BY <1>1 DEF FilterInv
    <2> QED
      BY <2>1 DEF LocalStopsChain, PosInv, ChainInv, Late
  <1> QED
    BY <1>1, FilterInvariant, PTL

\* handle_request and lsapi_handle_request report success (main.cpp:796-883,
\* 1167-1247) only for the one complete response that was asked for.
THEOREM SuccessIsAnswered == SafeSpec => []AnsweredOnce
  <1>1. ASSUME FilterInv PROVE AnsweredOnce
    <2>1. TypeOK /\ WireInv
      BY <1>1 DEF FilterInv
    <2>2. SUFFICES ASSUME Decided, Succeeds
                   PROVE  \/ Streamed = {} /\ Complete(wire, Origin)
                          \/ \E m \in Modules :
                               /\ Streamed = {m}
                               /\ Complete(wire, m) \/ has_local_response
                          \/ Cardinality(Streamed) > 1
      BY DEF AnsweredOnce
    <2>3. \/ ~hasStreamingResponse /\ Complete(wire, Origin)
          \/ \E m \in Modules : streaming_state[m] # "Idle"
               /\ (Only(m) => Complete(wire, m) \/ has_local_response)
      BY <2>1, <2>2 DEF WireInv, Fresh, Decided
    <2>4. CASE ~hasStreamingResponse /\ Complete(wire, Origin)
      BY <2>4 DEF hasStreamingResponse, Streamed
    <2>5. ASSUME NEW m \in Modules, streaming_state[m] # "Idle",
                 Only(m) => Complete(wire, m) \/ has_local_response
          PROVE  \/ Streamed = {m} /\ (Complete(wire, m) \/ has_local_response)
                 \/ Cardinality(Streamed) > 1
      <3>1. CASE Only(m)
        BY <2>5, <3>1 DEF Only, Streamed
      <3>2. CASE ~Only(m)
        <4>1. PICK k \in Modules : k \in Streamed /\ k # m
          BY <2>5, <3>2 DEF Only, Streamed
        <4>2. IsFiniteSet(Streamed)
          <5>1. IsFiniteSet(Modules)
            BY ChainAssumption, FS_Interval DEF Modules
          <5> QED
            BY <5>1, FS_Subset DEF Streamed
        <4>3. m \in Streamed
          BY <2>5 DEF Streamed
        <4>4. Cardinality(Streamed) \in Nat
          BY <4>2, FS_CardinalityType
        <4>5. Cardinality(Streamed) # 0
          BY <4>2, <4>3, FS_EmptySet
        <4>6. Cardinality(Streamed) # 1
          BY <4>1, <4>2, <4>3, FS_Singleton
        <4> QED
          BY <4>4, <4>5, <4>6
      <3> QED
        BY <3>1, <3>2
    <2> QED
      BY <2>3, <2>4, <2>5
  <1> QED
    BY <1>1, FilterInvariant, PTL

\* LSAPI_Finish_r (lsapilib.c:1610-1637) completes whatever the handler left:
\* the web server gets one response.
THEOREM LsapiAnswersOnce == SafeSpec => []LsapiOneResponse
  <1>1. FilterInv => LsapiOneResponse
    BY DEF FilterInv, LsapiInv, LsapiOneResponse
  <1> QED
    BY <1>1, FilterInvariant, PTL

\* The samples (src/samples/) are filters: with them in the chain the request
\* takes no step that an arbitrary filter could not cause, so that everything
\* above holds of them.
THEOREM SamplesAreFilters == SSpec => SafeSpec
  <1>1. SInit => Init
    BY DEF SInit
  <1>2. [SNext]_allVars => [Next]_vars
    <2>1. CASE SNext
      BY <2>1 DEF SNext, StreamHead, StreamChunk, StreamFinish,
         SampleLocalResponse, AnyCall, StartCallback, ReturnFromCallback,
         ThrowFromCallback, RespondText, HostStep, Next, Filter, Host
    <2>2. CASE UNCHANGED allVars
      BY <2>2 DEF allVars
    <2> QED
      BY <2>1, <2>2
  <1> QED
    BY <1>1, <1>2, PTL DEF SSpec, SafeSpec

----------------------------------------------------------------------------
(* The echo of the samples.  The argument follows one sample, m, as long as *)
(* no other module has answered: the text it keeps, or the text it has      *)
(* streamed, is the echo of the pieces it was given, unless the sink has    *)
(* failed; and a sink that has failed sends nothing more.                   *)

\* The numbers from 0 to k: the preamble and the first k pieces of the body.
Upto(k) == [i \in 1..(k + 1) |-> i - 1]

\* The echo of a body of which k pieces have come.
Part(k) == IF total = 0 THEN <<Preamble, NoBody>> ELSE Upto(k)

\* The pieces that module m was given.
Got(m) == IF phase = "request_body" /\ ~Called(m) THEN consumed - 1 ELSE consumed

\* The calls that a callback of module m has yet to make.
Left(m) == IF calling /\ next = m THEN todo ELSE <<>>

\* The steps of a piece, or of "(no body)", from the given one on.
Piece == IF total = 0 THEN "none" ELSE "piece"
Headed   == IF EndOfStream THEN <<"head", "preamble", Piece, "finish">>
                           ELSE <<"head", "preamble", Piece>>
Prefaced == IF EndOfStream THEN <<"preamble", Piece, "finish">>
                           ELSE <<"preamble", Piece>>
Pieced   == IF EndOfStream THEN <<Piece, "finish">> ELSE <<Piece>>

\* Module m will answer, or has answered, with the text it keeps.
Keeps(m) ==
  /\ streaming_state[m] = "Idle"
  /\ Left(m) \in {<<>>, <<"local">>}
  /\ IF local_response[m]
     THEN text[m] = Echo(m) /\ Left(m) = <<>>
     ELSE /\ text[m] = IF program[m] = "sample_filter" THEN <<Preamble>>
                       ELSE Part(Got(m))
          /\ Left(m) = <<"local">> /\ program[m] # "sample_filter" => EndOfStream
          /\ program[m] = "sample_filter" => Left(m) = <<"local">>

\* The first piece has come, or the headers of a request without a body.
First == consumed = IF total = 0 THEN 0 ELSE 1

\* Module m streams its answer, or is going to.
Streams(m) ==
  /\ ~local_response[m]
  /\ streaming_state[m] = "Idle" =>
       /\ text[m] = <<Preamble>>
       /\ \/ Left(m) = <<>> /\ Got(m) = 0
          \/ Left(m) = Headed /\ First
  /\ streaming_state[m] = "HeadersSent" =>
       \/ /\ Left(m) = Prefaced /\ First
          /\ sink_error \/ sent = <<>>
       \/ /\ Left(m) = Pieced /\ (total = 0 \/ consumed >= 1)
          /\ sink_error \/ sent = IF total = 0 THEN <<Preamble>>
                                  ELSE Upto(consumed - 1)
       \/ /\ Left(m) = <<"finish">> /\ EndOfStream
          /\ sink_error \/ sent = Part(consumed)
       \/ /\ Left(m) = <<>>
          /\ sink_error \/ sent = Part(Got(m))
  /\ streaming_state[m] = "Finished" =>
       /\ Left(m) = <<>> /\ EndOfStream /\ Got(m) = consumed
       /\ sent = Echo(m)

\* Module m streams, and did not have to turn to a local response.
Streamer(m) ==
  /\ program[m] = "send_recv_stream" /\ streaming_supported_[m]
  /\ ~local_response[m] /\ Left(m) # <<"local">>

\* The answer of module m, one way or the other.
Answers(m) == IF Streamer(m) THEN Streams(m) ELSE Keeps(m)

\* The request has not ended with setError(), and no onDone has run.
Hopeful == ~Late \/ (Decided /\ (transport = "http" => outcome # "error"))

\* Module m is a sample, and no other module has answered.
Alone(m) ==
  program[m] \in Samples /\ \A k \in Modules : k \in Answering => k = m

\* What has been sent of the answer of module m.
Sent(m) ==
  /\ streaming_state[m] = "Idle" /\ phase \notin {"respond_finish", "teardown"} =>
       sent = <<>>
  /\ local_response[m] /\ phase = "respond_finish" =>
       sent = Echo(m) \/ (transport = "lsapi" /\ sink_error)
  /\ phase = "teardown" =>
       IF local_response[m]
       THEN sent = Echo(m) \/ (transport = "lsapi" /\ sink_error)
       ELSE transport = "http" => streaming_state[m] # "HeadersSent"

\* The answer of module m is what it should be by now.
Served(m) == Sent(m) /\ (scope[m] = "live" => Answers(m))

\* The inductive invariant.
EchoInv ==
  /\ ~calling => todo = <<>>
  /\ todo # <<>> => phase \in {"request_headers", "request_body"}
  /\ text \in [Modules -> Seq(Nat)]
  /\ streaming_supported_ \in [Modules -> BOOLEAN]
  /\ phase = "request_body" => consumed >= 1
  /\ has_local_response => \E k \in Modules : local_response[k]
  /\ \A m \in Modules : scope[m] = "none" =>
       streaming_state[m] = "Idle" /\ ~local_response[m]
  /\ Hopeful => \A m \in Modules : Alone(m) => Served(m)

----------------------------------------------------------------------------
(* The echo and the steps of a sample, as sequences *)

\* A function on 1..n is a sequence of length n.
LEMMA MakeSeq ==
  ASSUME NEW n \in Nat, NEW S, NEW f \in [1..n -> S]
  PROVE  f \in Seq(S) /\ Len(f) = n
  OBVIOUS

\* Two put together.
LEMMA Joined2 ==
  ASSUME NEW a, NEW b
  PROVE  <<a>> \o <<b>> = <<a, b>>
  <1>1. << >> \o <<a>> = <<a>>
    OBVIOUS
  <1> QED
    BY <1>1, ConcatTwo

\* Three put together.
LEMMA Joined3 ==
  ASSUME NEW a, NEW b, NEW c
  PROVE  <<a, b>> \o <<c>> = <<a, b, c>>
  <1>1. /\ <<a, b>> \in Seq({a, b, c}) /\ <<c>> \in Seq({a, b, c})
        /\ <<a, b, c>> \in Seq({a, b, c})
    OBVIOUS
  <1>2. PICK S : S = {a, b, c}
    OBVIOUS
  <1>3. PICK s \in Seq(S), t \in Seq(S), u \in Seq(S) :
          s = <<a, b>> /\ t = <<a, b, c>> /\ u = <<c>>
    BY <1>1, <1>2, Zenon
  <1>4. /\ Len(s) = 2 /\ s[1] = a /\ s[2] = b
        /\ Len(u) = 1 /\ u[1] = c
    BY <1>3
  <1>5. Len(t) = 3 /\ t[1] = a /\ t[2] = b /\ t[3] = c
    BY <1>3
  <1>6. PICK w \in Seq(S) : w = s \o u
    BY ConcatProperties
  <1>7. /\ Len(w) = Len(s) + Len(u)
        /\ \A i \in 1..Len(w) :
             w[i] = IF i <= Len(s) THEN s[i] ELSE u[i - Len(s)]
    BY <1>6, ConcatProperties
  <1>8. Len(w) = 3 /\ w[1] = a /\ w[2] = b /\ w[3] = c
    BY <1>4, <1>7
  <1>9. w = t
    BY <1>5, <1>8, SeqEqual
  <1> QED
    BY <1>3, <1>6, <1>9

\* Four put together.
LEMMA Joined4 ==
  ASSUME NEW a, NEW b, NEW c, NEW d
  PROVE  <<a, b, c>> \o <<d>> = <<a, b, c, d>>
  <1>1. /\ <<a, b, c>> \in Seq({a, b, c, d}) /\ <<d>> \in Seq({a, b, c, d})
        /\ <<a, b, c, d>> \in Seq({a, b, c, d})
    OBVIOUS
  <1>2. PICK S : S = {a, b, c, d}
    OBVIOUS
  <1>3. PICK s \in Seq(S), t \in Seq(S), u \in Seq(S) :
          s = <<a, b, c>> /\ t = <<a, b, c, d>> /\ u = <<d>>
    BY <1>1, <1>2, Zenon
  <1>4. /\ Len(s) = 3 /\ s[1] = a /\ s[2] = b /\ s[3] = c
        /\ Len(u) = 1 /\ u[1] = d
    BY <1>3
  <1>5. Len(t) = 4 /\ t[1] = a /\ t[2] = b /\ t[3] = c /\ t[4] = d
    BY <1>3
  <1>6. PICK w \in Seq(S) : w = s \o u
    BY ConcatProperties
  <1>7. /\ Len(w) = Len(s) + Len(u)
        /\ \A i \in 1..Len(w) :
             w[i] = IF i <= Len(s) THEN s[i] ELSE u[i - Len(s)]
    BY <1>6, ConcatProperties
  <1>8. Len(w) = 4 /\ w[1] = a /\ w[2] = b /\ w[3] = c /\ w[4] = d
    BY <1>4, <1>7
  <1>9. w = t
    BY <1>5, <1>8, SeqEqual
  <1> QED
    BY <1>3, <1>6, <1>9

\* One more number.
LEMMA UptoMore ==
  ASSUME NEW k \in Nat
  PROVE  /\ Upto(k) \in Seq(Nat) /\ Len(Upto(k)) = k + 1
         /\ Append(Upto(k), k + 1) = Upto(k + 1)
         /\ Upto(k) \o <<k + 1>> = Upto(k + 1)
  <1>1. \A n \in Nat : Upto(n) \in Seq(Nat) /\ Len(Upto(n)) = n + 1
    BY DEF Upto
  <1>2. \A n \in Nat : \A i \in 1..(n + 1) : Upto(n)[i] = i - 1
    BY DEF Upto
  <1>3. PICK u \in Seq(Nat) : u = Upto(k) /\ Len(u) = k + 1
                              /\ \A i \in 1..(k + 1) : u[i] = i - 1
    BY <1>1, <1>2
  <1>4. PICK v \in Seq(Nat) : v = Upto(k + 1) /\ Len(v) = k + 2
                              /\ \A i \in 1..(k + 2) : v[i] = i - 1
    <2>1. k + 1 \in Nat /\ (k + 1) + 1 = k + 2
      OBVIOUS
    <2> QED
      BY <1>1, <1>2, <2>1
  <1>5. PICK w \in Seq(Nat) : w = Append(u, k + 1) /\ Len(w) = k + 2
                              /\ (\A i \in 1..(k + 1) : w[i] = u[i])
                              /\ w[k + 2] = k + 1
    <2>1. k + 1 \in Nat /\ Len(u) + 1 = k + 2
      BY <1>3
    <2>2. PICK x : x = k + 1
      OBVIOUS
    <2>3. /\ Append(u, x) \in Seq(Nat) /\ Len(Append(u, x)) = Len(u) + 1
          /\ \A i \in 1..Len(u) : Append(u, x)[i] = u[i]
          /\ Append(u, x)[Len(u) + 1] = x
      BY <2>1, <2>2, AppendProperties
    <2> QED
      BY <1>3, <2>1, <2>2, <2>3
  <1>6. \A i \in 1..(k + 2) : w[i] = v[i]
    BY <1>3, <1>4, <1>5
  <1>7. w = v
    BY <1>4, <1>5, <1>6, SeqEqual
  <1>8. u \o <<k + 1>> = Append(u, k + 1)
    BY <1>3
  <1> QED
    BY <1>1, <1>3, <1>4, <1>5, <1>7, <1>8

\* The preamble alone.
LEMMA UptoNone == Upto(0) = <<Preamble>>
  BY DEF Upto, Preamble

\* The whole echo of a module.
LEMMA EchoIs ==
  ASSUME TypeOK, NEW m \in Modules
  PROVE  Echo(m) = IF program[m] = "sample_filter" THEN <<Preamble>>
                   ELSE Part(total)
  <1>1. total \in Nat
    BY DEF TypeOK
  <1>2. <<Preamble>> \o <<>> = <<Preamble>>
    <2>1. <<Preamble>> \in Seq({Preamble})
      OBVIOUS
    <2> QED
      BY <2>1
  <1>3. <<Preamble>> \o <<NoBody>> = <<Preamble, NoBody>>
    BY Joined2
  <1>4. <<Preamble>> \o [i \in 1..total |-> i] = Upto(total)
    <2>1. PICK n \in Nat : n = total
      BY <1>1
    <2>2. PICK b \in Seq(Nat) : b = [i \in 1..n |-> i] /\ Len(b) = n
                                /\ \A i \in 1..n : b[i] = i
      <3>1. [i \in 1..n |-> i] \in [1..n -> Nat]
        OBVIOUS
      <3>2. [i \in 1..n |-> i] \in Seq(Nat) /\ Len([i \in 1..n |-> i]) = n
        BY <3>1, MakeSeq
      <3> QED
        BY <3>2
    <2>3. PICK p \in Seq(Nat) : p = <<Preamble>> /\ Len(p) = 1 /\ p[1] = 0
      <3>1. <<0>> \in Seq(Nat) /\ Len(<<0>>) = 1 /\ <<0>>[1] = 0
        OBVIOUS
      <3> QED
        BY <3>1 DEF Preamble
    <2>4. PICK w \in Seq(Nat) : w = p \o b /\ Len(w) = n + 1 /\ w[1] = 0
                                /\ \A i \in 1..n : w[1 + i] = b[i]
      <3>1. /\ p \o b \in Seq(Nat) /\ Len(p \o b) = 1 + n
            /\ \A i \in 1..Len(p) : (p \o b)[i] = p[i]
            /\ \A i \in 1..Len(b) : (p \o b)[Len(p) + i] = b[i]
        BY <2>2, <2>3
      <3>2. 1 + n = n + 1 /\ 1 \in 1..Len(p)
        BY <2>3
      <3> QED
        <4>1. PICK w \in Seq(Nat) : w = p \o b
          BY <3>1
        <4>2. Len(w) = n + 1 /\ w[1] = 0 /\ \A i \in 1..n : w[1 + i] = b[i]
          BY <2>2, <2>3, <3>1, <3>2, <4>1
        <4> QED
          BY <4>1, <4>2
    <2>5. PICK u \in Seq(Nat) : u = Upto(n) /\ Len(u) = n + 1
      BY UptoMore
    <2>6. \A i \in 1..(n + 1) : u[i] = i - 1
      BY <2>5 DEF Upto
    <2>7. ASSUME NEW i \in 1..(n + 1) PROVE w[i] = i - 1
      <3>1. CASE i = 1
        BY <3>1, <2>4
      <3>2. CASE i # 1
        <4>1. i - 1 \in 1..n /\ 1 + (i - 1) = i
          BY <3>2
        <4> QED
          BY <4>1, <2>2, <2>4
      <3> QED
        BY <3>1, <3>2
    <2>8. w = u
      <3>1. Len(w) = Len(u) /\ \A i \in 1..Len(w) : w[i] = u[i]
        BY <2>4, <2>5, <2>6, <2>7
      <3> QED
        BY <3>1, SeqEqual, Zenon
    <2> QED
      BY <2>1, <2>2, <2>3, <2>4, <2>5, <2>8
  <1> QED
    BY <1>2, <1>3, <1>4 DEF Echo, Part

\* The steps that are left after one is done.
LEMMA StepsLeft ==
  /\ Headed # <<>> /\ Head(Headed) = "head" /\ Tail(Headed) = Prefaced
  /\ Prefaced # <<>> /\ Head(Prefaced) = "preamble" /\ Tail(Prefaced) = Pieced
  /\ Pieced # <<>> /\ Head(Pieced) = Piece
  /\ Tail(Pieced) = AtEnd(<<"finish">>)
  /\ <<"finish">> # <<>> /\ Head(<<"finish">>) = "finish"
  /\ Tail(<<"finish">>) = <<>>
  /\ <<"local">> # <<>> /\ Head(<<"local">>) = "local"
  /\ Tail(<<"local">>) = <<>>
  /\ <<"local">> # <<"finish">> /\ <<"local">> # Headed
  /\ <<"local">> # Prefaced /\ <<"local">> # Pieced
  <1>1. Piece # "local"
    BY DEF Piece
  <1> QED
    BY <1>1 DEF Headed, Prefaced, Pieced, AtEnd

\* The steps with which a callback of the streaming sample starts.
LEMMA StepsBegun ==
  /\ total = 0 /\ EndOfStream =>
       AtEnd(<<"head", "preamble", "none", "finish">>) = Headed
  /\ total # 0 =>
       /\ <<"head", "preamble">> \o <<"piece">> \o AtEnd(<<"finish">>) = Headed
       /\ <<>> \o <<"piece">> \o AtEnd(<<"finish">>) = Pieced
  /\ ~EndOfStream => AtEnd(<<"finish">>) = <<>> /\ AtEnd(<<"local">>) = <<>>
  /\ EndOfStream =>
       AtEnd(<<"finish">>) = <<"finish">> /\ AtEnd(<<"local">>) = <<"local">>
  <1>1. <<>> \o <<"piece">> = <<"piece">>
    OBVIOUS
  <1>2. <<"head", "preamble">> \o <<"piece">> = <<"head", "preamble", "piece">>
    BY Joined3
  <1>3. <<"piece">> \o <<>> = <<"piece">>
    OBVIOUS
  <1>4. <<"piece">> \o <<"finish">> = <<"piece", "finish">>
    BY Joined2
  <1>5. <<"head", "preamble", "piece">> \o <<>> = <<"head", "preamble", "piece">>
    OBVIOUS
  <1>6. <<"head", "preamble", "piece">> \o <<"finish">>
          = <<"head", "preamble", "piece", "finish">>
    BY Joined4
  <1> QED
    BY <1>1, <1>2, <1>3, <1>4, <1>5, <1>6, Zenon
      DEF Headed, Pieced, AtEnd, Piece

----------------------------------------------------------------------------
(* What a step does to the answer of a module *)

\* The three sorts of steps.
LEMMA NextSorts ==
  ASSUME Next
  PROVE  Filter \/ CallStep \/ MoveStep
  BY DEF Next, Host, CallStep, MoveStep

\* A step to a state in which the request may still succeed comes before the
\* contexts are destroyed.
LEMMA HopefulBefore ==
  ASSUME FilterInv, Next, Hopeful'
  PROVE  ~Late /\ Hopeful
  <1> SUFFICES ASSUME Late PROVE FALSE
    BY DEF Hopeful
  <1>0. TypeOK /\ PosInv /\ ScopeInv
    BY DEF FilterInv
  <1>1. CASE Filter
    BY <1>0, <1>1, FilterFacts DEF Hopeful, Late, Decided
  <1>2. CASE CallStep
    <2>1. PICK m \in Modules : CallOf(m)
      BY <1>0, <1>2, CallFacts
    <2> QED
      BY <2>1 DEF CallOf, Hopeful, Late, Decided
  <1>3. CASE MoveStep
    <2>1. MoveOf
      BY <1>0, <1>3, MoveFacts
    <2>2. CASE DoneEnds
      <3>1. next \in Modules /\ scope'[next] = "gone" /\ phase' = "teardown"
        BY <1>0, <2>2 DEF DoneEnds, TypeOK
      <3> QED
        BY <3>1 DEF Hopeful, Late, Decided
    <2>3. CASE PhasePassed
      BY <2>3 DEF PhasePassed, Moved, Hopeful, Late, Decided
    <2> QED
      BY <2>1, <2>2, <2>3 DEF MoveOf, Late, ModuleSkipped, CallbackEnds,
         CallbackThrows, PieceRead, Moved, RequestPhases, ResponsePhases
  <1> QED
    BY <1>1, <1>2, <1>3, NextSorts

\* A module that has answered stays one that has.
LEMMA AnsweringGrows ==
  ASSUME FilterInv, Next, NEW k \in Modules
  PROVE  /\ streaming_state[k] # "Idle" => streaming_state'[k] # "Idle"
         /\ local_response[k] => local_response'[k]
  <1>0. TypeOK /\ PosInv /\ ScopeInv
    BY DEF FilterInv
  <1>1. CASE Filter
    <2>1. local_response[k] => local_response'[k]
      BY <1>0, <1>1 DEF Filter, streamingSendHeaders, streamingWriteChunk,
         streamingFinish, sendLocalResponse, TypeOK
    <2> QED
      BY <1>0, <1>1, <2>1, FilterFacts
  <1>2. CASE CallStep
    <2>1. PICK m \in Modules : CallOf(m)
      BY <1>0, <1>2, CallFacts
    <2> QED
      BY <2>1 DEF CallOf
  <1>3. CASE MoveStep
    BY <1>0, <1>3, MoveFacts
  <1> QED
    BY <1>1, <1>2, <1>3, NextSorts

\* The steps of the samples are steps of the chain, and no module becomes
\* another one.
LEMMA SampleSteps ==
  ASSUME SNext
  PROVE  Next /\ program' = program
  <1>1. Next
    BY DEF SNext, StreamHead, StreamChunk, StreamFinish, SampleLocalResponse,
       AnyCall, StartCallback, ReturnFromCallback, ThrowFromCallback,
       RespondText, HostStep, Next, Filter, Host
  <1>2. program' = program
    BY DEF SNext, StreamHead, StreamChunk, StreamFinish, SampleLocalResponse,
       AnyCall, StartCallback, ReturnFromCallback, ThrowFromCallback,
       RespondText, HostStep, sampleVars
  <1> QED
    BY <1>1, <1>2

\* A module that is the only one to have answered was so before.
LEMMA AloneBefore ==
  ASSUME FilterInv, SNext, NEW m \in Modules, Alone(m)'
  PROVE  Alone(m)
  BY SampleSteps, AnsweringGrows DEF Alone, Answering

\* A sink that has failed does not recover.
LEMMA ErrorStays ==
  ASSUME Next, sink_error
  PROVE  sink_error'
  <1> USE DEF sinkVars
  <1>1. CASE Filter
    BY <1>1 DEF Filter, streamingSendHeaders, streamingWriteChunk,
       streamingFinish, sendLocalResponse, HttpSendHeaders, LsapiSendHeaders,
       writeBody, finishBody
  <1>2. CASE CallStep
    BY <1>2 DEF CallStep, CreateScope, Callback, Done, Call
  <1>3. CASE Parse \/ CreateScopeFails \/ EndCallback \/ Throw
    BY <1>3 DEF Parse, CreateScopeFails, EndCallback, Throw, Continue, Go
  <1>4. CASE EndRequestHeaders \/ ReadBody \/ EndRequestBody
               \/ EndRequestTrailers \/ EndResponsePhase \/ EndResponseTrailers
    BY <1>4 DEF EndRequestHeaders, ReadBody, EndRequestBody,
       EndRequestTrailers, EndResponsePhase, EndResponseTrailers, Continue,
       Return, Go
  <1>5. CASE RespondHead \/ RespondBody \/ RespondFinish
    BY <1>5 DEF RespondHead, RespondBody, RespondFinish, LsapiSendHeaders,
       writeBody, finishBody
  <1>6. CASE EndDone \/ Returned \/ LSAPI_Finish_r
    BY <1>6 DEF EndDone, Returned, LSAPI_Finish_r, Continue, Go
  <1> QED
    BY <1>1, <1>2, <1>3, <1>4, <1>5, <1>6, NextSorts DEF MoveStep

\* The variables of module m, and what it has to do, are the same after a step.
Kept(m) ==
  /\ program' = program /\ total' = total
  /\ streaming_state'[m] = streaming_state[m]
  /\ local_response'[m] = local_response[m]
  /\ text'[m] = text[m]
  /\ streaming_supported_'[m] = streaming_supported_[m]
  /\ Left(m)' = Left(m)

\* A step that leaves module m alone leaves its answer as it is.
LEMMA AnswersKept ==
  ASSUME NEW m \in Modules, Answers(m), Kept(m), TypeOK,
         sent' = sent \/ streaming_state[m] = "Idle",
         sink_error => sink_error',
         local_response[m] \/ Got(m)' = Got(m),
         consumed' = consumed \/ (Left(m) = <<>> /\ consumed < total)
  PROVE  Answers(m)'
  <1>1. Echo(m)' = Echo(m) /\ Part(Got(m))' = Part(Got(m)')
    BY DEF Kept, Echo, Part
  <1>2. consumed' = consumed =>
          /\ EndOfStream' = EndOfStream /\ Headed' = Headed
          /\ Prefaced' = Prefaced /\ Pieced' = Pieced /\ (First' <=> First)
          /\ Part(consumed)' = Part(consumed)
    BY DEF Kept, EndOfStream, Headed, Prefaced, Pieced, Piece, First, Part
  <1>0. Streamer(m)' <=> Streamer(m)
    BY DEF Kept, Streamer
  <1>3. CASE Streamer(m)
    <2>1. Streams(m)
      BY <1>3 DEF Answers
    <2>2. ~local_response[m] /\ Got(m)' = Got(m)
      BY <2>1 DEF Streams
    <2>3. Streams(m)'
      <3>1. CASE streaming_state[m] = "Idle"
        BY <1>1, <1>2, <2>1, <2>2, <3>1, StepsLeft DEF Streams, Kept
      <3>2. CASE streaming_state[m] = "HeadersSent"
        <4>1. CASE Left(m) = <<>>
          BY <1>1, <2>1, <2>2, <3>2, <4>1, StepsLeft DEF Streams, Kept, Part
        <4>2. CASE Left(m) # <<>>
          BY <1>1, <1>2, <2>1, <2>2, <3>2, <4>2 DEF Streams, Kept
        <4> QED
          BY <4>1, <4>2
      <3>3. CASE streaming_state[m] = "Finished"
        <4>1. consumed' = consumed
          BY <2>1, <3>3 DEF Streams, EndOfStream, TypeOK
        <4> QED
          BY <1>1, <1>2, <2>1, <2>2, <3>3, <4>1 DEF Streams, Kept
      <3> QED
        BY <3>1, <3>2, <3>3 DEF TypeOK
    <2> QED
      BY <1>0, <1>3, <2>3 DEF Answers
  <1>4. CASE ~Streamer(m)
    <2>1. Keeps(m)
      BY <1>4 DEF Answers
    <2>2. Keeps(m)'
      <3>1. CASE local_response[m]
        BY <1>1, <2>1, <3>1 DEF Keeps, Kept
      <3>2. CASE ~local_response[m]
        <4>1. Got(m)' = Got(m)
          BY <3>2
        <4>2. Part(Got(m))' = Part(Got(m))
          BY <4>1 DEF Part, Kept
        <4>3. Left(m) = <<"local">> => EndOfStream' = EndOfStream
          BY <1>2, StepsLeft
        <4> QED
          BY <2>1, <3>2, <4>2, <4>3 DEF Keeps, Kept
      <3> QED
        BY <3>1, <3>2
    <2> QED
      BY <1>0, <1>4, <2>2 DEF Answers
  <1> QED
    BY <1>3, <1>4

----------------------------------------------------------------------------
(* The calls *)

SampleCall ==
  StreamHead \/ StreamChunk \/ StreamFinish \/ SampleLocalResponse \/ AnyCall

\* A module calls the host: what every such step does.
LEMMA SampleCallFacts ==
  ASSUME FilterInv, EchoInv, SampleCall, ~Late
  PROVE  /\ Filter /\ next \in Modules /\ calling
         /\ scope[next] = "live"
         /\ phase \in RequestPhases \cup ResponsePhases
         /\ UNCHANGED <<transport, total, phase, next, calling, consumed, scope>>
         /\ program' = program
         /\ \A m \in Modules : Called(m)' = Called(m) /\ Got(m)' = Got(m)
         /\ UNCHANGED <<EndOfStream, Headed, Prefaced, Pieced, Piece, First>>
         /\ \A k \in Nat : Part(k)' = Part(k)
  <1>1. Filter
    BY DEF SampleCall, StreamHead, StreamChunk, StreamFinish,
       SampleLocalResponse, AnyCall, Filter
  <1>2. program' = program
    BY DEF SampleCall, StreamHead, StreamChunk, StreamFinish,
       SampleLocalResponse, AnyCall
  <1>3. /\ next \in Modules /\ calling
        /\ UNCHANGED <<transport, total, phase, next, calling, consumed, scope>>
    BY <1>1, FilterFacts DEF FilterInv
  <1>4. scope[next] = "live" /\ phase \in RequestPhases \cup ResponsePhases
    BY <1>3 DEF FilterInv, ScopeInv, PosInv, Late
  <1>5. \A m \in Modules : Called(m)' = Called(m) /\ Got(m)' = Got(m)
    BY <1>3 DEF Called, Got
  <1>6. UNCHANGED <<EndOfStream, Headed, Prefaced, Pieced, Piece, First>>
    BY <1>3 DEF EndOfStream, Headed, Prefaced, Pieced, Piece, First
  <1>7. \A k \in Nat : Part(k)' = Part(k)
    BY <1>3 DEF Part
  <1> QED
    BY <1>1, <1>2, <1>3, <1>4, <1>5, <1>6, <1>7

\* What a module has sent does not change in its callbacks before the end of
\* the request, unless it streams.
LEMMA SentInCallback ==
  ASSUME NEW m \in Modules, Sent(m),
         phase \in RequestPhases \cup ResponsePhases, phase' = phase,
         streaming_state'[m] = "Idle" =>
           streaming_state[m] = "Idle" /\ sent' = sent
  PROVE  Sent(m)'
  BY DEF Sent, RequestPhases, ResponsePhases

\* A call of another module, one that does not answer.
LEMMA OtherCall ==
  ASSUME FilterInv, EchoInv, SampleCall, ~Late, NEW m \in Modules, next # m,
         Alone(m)', Alone(m), Served(m)
  PROVE  Served(m)'
  <1> TypeOK
    BY DEF FilterInv
  <1>1. Filter /\ Next
    BY SampleCallFacts DEF Next
  <1>2. /\ streaming_state'[m] = streaming_state[m]
        /\ local_response'[m] = local_response[m]
    BY <1>1, FilterFacts
  <1>3. /\ streaming_state'[next] = "Idle" /\ ~local_response'[next]
        /\ streaming_state[next] = "Idle"
    BY SampleCallFacts DEF Alone, Answering
  <1>4. sent' = sent
    <2>1. CASE StreamChunk
      BY <2>1, <1>3 DEF StreamChunk, streamingWriteChunk
    <2>2. CASE AnyCall
      <3>1. wire' = wire \/ Put("stray_headers", next)
        BY <1>3, <2>2, SampleCallFacts DEF AnyCall, Filter,
           streamingSendHeaders, streamingWriteChunk, streamingFinish,
           sendLocalResponse, HttpSendHeaders, LsapiSendHeaders, TypeOK
      <3>2. CASE wire' = wire
        BY <2>2, <3>2 DEF AnyCall, Writes, TypeOK
      <3>3. CASE Put("stray_headers", next)
        <4>1. next \in Origins /\ wire \in Seq(Kinds \X Origins)
          BY SampleCallFacts, OriginsAll DEF TypeOK
        <4>2. wire'[Len(wire')] = <<"stray_headers", next>>
          BY <3>3, <4>1, PutFacts, KindsAll
        <4> QED
          BY <2>2, <4>2 DEF AnyCall, Writes
      <3> QED
        BY <3>1, <3>2, <3>3
    <2> QED
      BY <2>1, <2>2 DEF SampleCall, StreamHead, StreamFinish,
         SampleLocalResponse
  <1>5. text'[m] = text[m] /\ streaming_supported_'[m] = streaming_supported_[m]
    BY SampleCallFacts DEF SampleCall, StreamHead, StreamChunk, StreamFinish,
       SampleLocalResponse, AnyCall, Becomes, EchoInv
  <1>6. Left(m) = <<>> /\ Left(m)' = <<>>
    BY SampleCallFacts DEF Left
  <1>7. Kept(m)
    BY SampleCallFacts, <1>2, <1>5, <1>6 DEF Kept
  <1>8. scope'[m] = "live" => Answers(m)'
    <2> SUFFICES ASSUME scope'[m] = "live" PROVE Answers(m)'
      OBVIOUS
    <2>1. /\ Answers(m) /\ consumed' = consumed /\ Got(m)' = Got(m)
          /\ (sink_error => sink_error')
      BY SampleCallFacts, <1>1, ErrorStays DEF Served
    <2> QED
      BY <2>1, <1>4, <1>7, AnswersKept
  <1>9. Sent(m)'
    BY SampleCallFacts, <1>2, <1>4, SentInCallback DEF Served
  <1> QED
    BY <1>8, <1>9 DEF Served

\* A call of module m itself.  First, what is left to do tells which call.
LEMMA OwnCall ==
  ASSUME FilterInv, EchoInv, SampleCall, ~Late, Alone(next), Served(next)
  PROVE  /\ todo # <<>> /\ ~AnyCall /\ Left(next) = todo /\ Left(next)' = todo'
         /\ Got(next) = consumed /\ Got(next)' = consumed
         /\ Answers(next) /\ Sent(next)
         /\ sent = <<>> \/ streaming_state[next] # "Idle"
  <1>0. next \in Modules /\ calling /\ scope[next] = "live"
        /\ UNCHANGED <<next, calling>>
    BY SampleCallFacts
  <1>1. ~AnyCall
    BY DEF AnyCall, Alone, Samples
  <1>2. todo # <<>>
    BY <1>1 DEF SampleCall, StreamHead, StreamChunk, StreamFinish,
       SampleLocalResponse, Doing
  <1>3. Left(next) = todo /\ Left(next)' = todo'
    BY <1>0 DEF Left
  <1>4. Got(next) = consumed
    BY <1>0 DEF Got, Called
  <1>5. Answers(next) /\ Sent(next)
    BY <1>0 DEF Served
  <1>6. sent = <<>> \/ streaming_state[next] # "Idle"
    BY <1>5, SampleCallFacts DEF Sent, RequestPhases, ResponsePhases
  <1> QED
    BY <1>0, <1>1, <1>2, <1>3, <1>4, <1>5, <1>6, SampleCallFacts

\* The pieces of an echo that was cut short.
LEMMA PartIs ==
  ASSUME TypeOK, NEW m \in Modules, program[m] # "sample_filter", EndOfStream
  PROVE  Part(consumed) = Echo(m)
  <1>1. consumed = total
    BY DEF TypeOK, EndOfStream
  <1> QED
    BY <1>1, EchoIs

\* The headers: they are sent, or the sample goes on without streaming.
LEMMA HeadCall ==
  ASSUME FilterInv, EchoInv, StreamHead, ~Late, Alone(next), Served(next)
  PROVE  Served(next)'
  <1> DEFINE m == next
  <1> TypeOK /\ SampleCall /\ m \in Modules
    BY SampleCallFacts DEF FilterInv, SampleCall
  <1>0. /\ Left(m) = todo /\ Left(m)' = todo' /\ Got(m)' = consumed
        /\ Answers(m) /\ Sent(m) /\ next' = next
    BY OwnCall, SampleCallFacts
  <1>1. /\ Head(todo) = "head" /\ todo # <<>>
        /\ streaming_state[m] = "Idle" /\ local_response' = local_response
        /\ streaming_state'[m] \in {"Idle", "HeadersSent"}
        /\ sent' = sent
    BY DEF StreamHead, Doing, streamingSendHeaders, TypeOK
  <1>2. Streams(m) /\ program[m] = "send_recv_stream"
    BY <1>0, <1>1, StepsLeft DEF Answers, Keeps, Streamer
  <1>3. /\ todo = Headed /\ First /\ text[m] = <<Preamble>>
        /\ ~local_response[m] /\ sent = <<>>
    BY <1>0, <1>1, <1>2, OwnCall DEF Streams
  <1>4. streaming_supported_[m]
    BY <1>0, <1>1, StepsLeft DEF Answers, Keeps, Streamer
  <1>5. Answers(m)'
    <2>1. CASE streaming_state'[m] = "HeadersSent"
      <3>1. todo' = Tail(todo) /\ UNCHANGED <<text, streaming_supported_>>
        BY <2>1 DEF StreamHead
      <3>2. todo' = Prefaced' /\ First'
        BY <1>3, <3>1, StepsLeft, SampleCallFacts
      <3>3. Streams(m)'
        BY <1>0, <1>1, <1>3, <2>1, <3>2 DEF Streams
      <3>4. Streamer(m)'
        <4>1. Left(m)' # <<"local">>
          BY <1>0, <1>3, <3>1, StepsLeft
        <4> QED
          BY <1>0, <1>1, <1>2, <1>3, <1>4, <3>1, <4>1, SampleCallFacts
            DEF Streamer
      <3> QED
        BY <3>3, <3>4 DEF Answers
    <2>2. CASE streaming_state'[m] = "Idle"
      <3>1. /\ streaming_supported_'[m] = (phase = "request_headers")
            /\ text'[m] = Append(text[m], IF phase = "request_headers"
                                          THEN NoBody ELSE consumed)
            /\ todo' = AtEnd(<<"local">>)
        BY <2>2 DEF StreamHead, Becomes, EchoInv
      <3>2. text'[m] = Part(consumed)
        <4>1. CASE phase = "request_headers"
          <5>1. total = 0
            BY <1>3, <4>1 DEF FilterInv, PosInv, First, TypeOK
          <5>2. Append(<<Preamble>>, NoBody) = <<Preamble, NoBody>>
            <6>1. Append(<<Preamble>>, NoBody) = <<Preamble>> \o <<NoBody>>
              <7>1. PICK s \in Seq({Preamble, NoBody}) : s = <<Preamble>>
                <8>1. <<Preamble>> \in Seq({Preamble, NoBody})
                  OBVIOUS
                <8> QED
                  BY <8>1
              <7> QED
                BY <7>1
            <6> QED
              BY <6>1, Joined2
          <5> QED
            BY <1>3, <3>1, <4>1, <5>1, <5>2 DEF Part
        <4>2. CASE phase # "request_headers"
          <5>1. phase = "request_body" /\ consumed >= 1
            BY <1>1, <4>2 DEF EchoInv
          <5>2. total # 0 /\ consumed = 1
            BY <1>3, <5>1 DEF First, TypeOK
          <5>3. Append(Upto(0), 1) = Upto(1)
            <6>1. Append(Upto(0), 0 + 1) = Upto(0 + 1)
              BY UptoMore
            <6>2. 0 + 1 = 1
              OBVIOUS
            <6> QED
              BY <6>1, <6>2
          <5>4. text'[m] = Append(Upto(0), 1)
            BY <1>3, <3>1, <4>2, <5>2, UptoNone
          <5>5. Part(consumed) = Upto(1)
            BY <5>2 DEF Part
          <5> QED
            BY <5>3, <5>4, <5>5
        <4> QED
          BY <4>1, <4>2
      <3>3. /\ todo' \in {<<>>, <<"local">>}
            /\ todo' = <<"local">> => EndOfStream
        BY <3>1, StepsBegun, StepsLeft
      <3>4. text'[m] = Part(Got(m))'
        BY <1>0, <3>2, SampleCallFacts DEF TypeOK, Part
      <3>5. Keeps(m)'
        BY <1>0, <1>1, <1>2, <1>3, <2>2, <3>3, <3>4, SampleCallFacts DEF Keeps
      <3>6. ~Streamer(m)'
        <4>1. CASE phase = "request_headers"
          <5>1. EndOfStream
            BY <1>3, <4>1 DEF FilterInv, PosInv, First, TypeOK, EndOfStream
          <5> QED
            BY <1>0, <3>1, <5>1, StepsBegun DEF Streamer
        <4>2. CASE phase # "request_headers"
          BY <1>0, <3>1, <4>2 DEF Streamer
        <4> QED
          BY <4>1, <4>2
      <3> QED
        BY <3>5, <3>6 DEF Answers
    <2> QED
      BY <1>1, <2>1, <2>2
  <1>6. Sent(m)'
    BY <1>0, <1>1, SampleCallFacts, SentInCallback
  <1> QED
    BY <1>0, <1>5, <1>6 DEF Served

\* A piece of the body goes to the sink: it is sent, or the sink has failed.
LEMMA ChunkSent ==
  ASSUME TypeOK, streamingWriteChunk, NEW x, Writes(<<x>>)
  PROVE  sink_error' \/ (~sink_error /\ sent' = sent \o <<x>>)
  <1>1. CASE sink_error
    BY <1>1 DEF streamingWriteChunk, writeBody, sinkVars
  <1>2. CASE ~sink_error /\ \E k \in {"chunk", "body"} : Put(k, next)
    <2>1. PICK k \in {"chunk", "body"} : Put(k, next)
      BY <1>2
    <2>2. next \in Origins /\ k \in Kinds
      BY OriginsAll, KindsAll DEF TypeOK, streamingWriteChunk, InCallback
    <2>3. /\ Len(wire') = Len(wire) + 1 /\ Len(wire) \in Nat
          /\ wire'[Len(wire')] = <<k, next>>
      BY <2>1, <2>2, PutFacts DEF TypeOK
    <2> QED
      BY <1>2, <2>3 DEF Writes
  <1>3. CASE sink_error'
    BY <1>3
  <1> QED
    BY <1>1, <1>2, <1>3 DEF streamingWriteChunk, writeBody

\* A piece is sent behind the others.
LEMMA ChunkCall ==
  ASSUME FilterInv, EchoInv, StreamChunk, ~Late, Alone(next), Served(next)
  PROVE  Served(next)'
  <1> DEFINE m == next
  <1> TypeOK /\ SampleCall /\ m \in Modules
    BY SampleCallFacts DEF FilterInv, SampleCall
  <1>0. /\ Left(m) = todo /\ Left(m)' = todo' /\ Got(m)' = consumed
        /\ Answers(m) /\ Sent(m) /\ next' = next
    BY OwnCall, SampleCallFacts
  <1>1. PICK step \in {"preamble", "piece", "none"} :
          /\ Head(todo) = step /\ todo # <<>>
          /\ streamingWriteChunk /\ Writes(<<Word[step]>>)
          /\ todo' = Tail(todo)
          /\ UNCHANGED streaming_supported_
    BY DEF StreamChunk, Doing, Becomes, Word
  <1>2. /\ streaming_state[m] = "HeadersSent"
        /\ UNCHANGED <<streaming_state, local_response>>
    BY <1>1 DEF streamingWriteChunk
  <1>3. /\ Streams(m) /\ program[m] = "send_recv_stream"
        /\ streaming_supported_[m] /\ ~local_response[m]
    BY <1>0, <1>2 DEF Answers, Keeps, Streams, Streamer
  <1>4. sink_error' \/ (~sink_error /\ sent' = sent \o <<Word[step]>>)
    BY <1>1, ChunkSent
  <1>5. Piece \in {"none", "piece"}
    BY DEF Piece
  <1>6. Streams(m)'
    <2>1. CASE todo = Prefaced /\ First /\ (sink_error \/ sent = <<>>)
      <3>1. step = "preamble" /\ todo' = Pieced'
        BY <1>1, <2>1, StepsLeft, SampleCallFacts
      <3>2. sink_error' \/ sent' = <<Preamble>>
        <4>1. <<>> \o <<Preamble>> = <<Preamble>>
          OBVIOUS
        <4> QED
          BY <1>4, <2>1, <3>1, <4>1 DEF Word
      <3>3. total = 0 \/ (consumed = 1 /\ Upto(consumed - 1) = <<Preamble>>)
        <4>1. CASE total # 0
          <5>1. consumed = 1 /\ 1 - 1 = 0
            BY <2>1, <4>1 DEF First
          <5> QED
            BY <5>1, UptoNone
        <4> QED
          BY <4>1
      <3>4. /\ Left(m)' = Pieced' /\ (total' = 0 \/ consumed' >= 1)
            /\ sink_error' \/ sent' = IF total' = 0 THEN <<Preamble>>
                                      ELSE Upto(consumed' - 1)
        BY <1>0, <3>1, <3>2, <3>3, SampleCallFacts
      <3> QED
        BY <1>0, <1>2, <1>3, <3>4 DEF Streams
    <2>2. CASE /\ todo = Pieced /\ (total = 0 \/ consumed >= 1)
               /\ sink_error \/ sent = IF total = 0 THEN <<Preamble>>
                                       ELSE Upto(consumed - 1)
      <3>1. step = Piece /\ todo' = AtEnd(<<"finish">>)
        BY <1>1, <2>2, StepsLeft
      <3>2. sink_error' \/ sent' = Part(consumed)
        <4>1. CASE sink_error \/ sink_error'
          BY <4>1, <1>4
        <4>2. CASE ~sink_error /\ ~sink_error' /\ total = 0
          <5>1. Word[step] = NoBody
            BY <3>1, <4>2 DEF Piece, Word
          <5> QED
            BY <1>4, <2>2, <4>2, <5>1, Joined2 DEF Part
        <4>3. CASE ~sink_error /\ ~sink_error' /\ total # 0
          <5>1. Word[step] = consumed
            BY <3>1, <4>3 DEF Piece, Word
          <5>2. consumed - 1 \in Nat /\ (consumed - 1) + 1 = consumed
            BY <2>2, <4>3 DEF TypeOK
          <5>3. Upto(consumed - 1) \o <<consumed>> = Upto(consumed)
            BY <5>2, UptoMore
          <5> QED
            BY <1>4, <2>2, <4>3, <5>1, <5>3 DEF Part
        <4> QED
          BY <4>1, <4>2, <4>3
      <3>3. Part(consumed)' = Part(consumed) /\ Part(Got(m))' = Part(consumed)
        BY <1>0, SampleCallFacts DEF Part
      <3>4. CASE EndOfStream
        <4>1. todo' = <<"finish">> /\ EndOfStream'
          BY <3>1, <3>4, StepsBegun, SampleCallFacts
        <4> QED
          BY <1>0, <1>2, <1>3, <3>2, <3>3, <4>1 DEF Streams
      <3>5. CASE ~EndOfStream
        <4>1. todo' = <<>>
          BY <3>1, <3>5, StepsBegun
        <4> QED
          BY <1>0, <1>2, <1>3, <3>2, <3>3, <4>1 DEF Streams
      <3> QED
        BY <3>4, <3>5
    <2>3. todo # <<"finish">> /\ todo # <<>>
      BY <1>1, StepsLeft
    <2> QED
      BY <1>0, <1>2, <1>3, <2>1, <2>2, <2>3 DEF Streams
  <1>7. Answers(m)'
    <2>1. Left(m)' # <<"local">>
      BY <1>2, <1>6, StepsLeft, SampleCallFacts DEF Streams
    <2>2. Streamer(m)'
      BY <1>0, <1>1, <1>2, <1>3, <2>1, SampleCallFacts DEF Streamer
    <2> QED
      BY <1>6, <2>2 DEF Answers
  <1>8. Sent(m)'
    BY <1>0, <1>2, SampleCallFacts, SentInCallback
  <1> QED
    BY <1>0, <1>7, <1>8 DEF Served

\* The end of a streamed response: it is reported as sent only if every piece
\* was.
LEMMA FinishCall ==
  ASSUME FilterInv, EchoInv, StreamFinish, ~Late, Alone(next), Served(next)
  PROVE  Served(next)'
  <1> DEFINE m == next
  <1> TypeOK /\ SampleCall /\ m \in Modules
    BY SampleCallFacts DEF FilterInv, SampleCall
  <1>0. /\ Left(m) = todo /\ Left(m)' = todo' /\ Got(m)' = consumed
        /\ Answers(m) /\ Sent(m) /\ next' = next
    BY OwnCall, SampleCallFacts
  <1>1. /\ Head(todo) = "finish" /\ todo # <<>> /\ todo' = Tail(todo)
        /\ streaming_state[m] = "HeadersSent" /\ UNCHANGED local_response
        /\ UNCHANGED <<streaming_supported_, sent>>
        /\ \/ streaming_state'[m] = "Finished" /\ ~sink_error
           \/ streaming_state'[m] = "HeadersSent" /\ sink_error'
    BY DEF StreamFinish, Doing, streamingFinish, finishBody, TypeOK, sinkVars
  <1>2. /\ Streams(m) /\ program[m] = "send_recv_stream"
        /\ streaming_supported_[m] /\ ~local_response[m]
    BY <1>0, <1>1 DEF Answers, Keeps, Streams, Streamer
  <1>3. /\ todo = <<"finish">> /\ EndOfStream
        /\ sink_error \/ sent = Part(consumed)
    <2>1. Piece # "finish"
      BY DEF Piece
    <2> QED
      BY <1>0, <1>1, <1>2, <2>1, StepsLeft DEF Streams
  <1>4. todo' = <<>> /\ EndOfStream'
    BY <1>1, <1>3, StepsLeft, SampleCallFacts
  <1>5. Echo(m)' = Part(consumed)
    <2>1. Echo(m)' = Echo(m)
      BY <1>0, SampleCallFacts DEF Echo
    <2> QED
      BY <2>1, <1>2, <1>3, PartIs
  <1>6. Streams(m)'
    BY <1>0, <1>1, <1>2, <1>3, <1>4, <1>5, SampleCallFacts DEF Streams
  <1>7. Answers(m)'
    <2>1. Streamer(m)'
      BY <1>0, <1>1, <1>2, <1>4, StepsLeft, SampleCallFacts DEF Streamer
    <2> QED
      BY <1>6, <2>1 DEF Answers
  <1>8. Sent(m)'
    BY <1>0, <1>1, SampleCallFacts, SentInCallback
  <1> QED
    BY <1>0, <1>7, <1>8 DEF Served

\* The text that was kept becomes the local response: it is the whole echo.
LEMMA LocalCall ==
  ASSUME FilterInv, EchoInv, SampleLocalResponse, ~Late, Alone(next),
         Served(next)
  PROVE  Served(next)'
  <1> DEFINE m == next
  <1> TypeOK /\ SampleCall /\ m \in Modules
    BY SampleCallFacts DEF FilterInv, SampleCall
  <1>0. /\ Left(m) = todo /\ Left(m)' = todo' /\ Got(m) = consumed
        /\ Answers(m) /\ Sent(m) /\ next' = next
    BY OwnCall, SampleCallFacts
  <1>1. /\ Head(todo) = "local" /\ todo # <<>> /\ todo' = Tail(todo)
        /\ local_response'[m] /\ ~local_response[m]
        /\ UNCHANGED <<streaming_state, streaming_supported_, sent, text>>
    BY DEF SampleLocalResponse, Doing, sendLocalResponse, TypeOK
  <1>2. Keeps(m)
    <2>1. Piece # "local"
      BY DEF Piece
    <2>2. ~Streams(m)
      BY <1>0, <1>1, <2>1, StepsLeft DEF Streams, TypeOK
    <2> QED
      BY <1>0, <2>2 DEF Answers
  <1>3. todo = <<"local">> /\ todo' = <<>>
    BY <1>0, <1>1, <1>2, StepsLeft DEF Keeps
  <1>4. text[m] = Echo(m)
    <2>1. CASE program[m] = "sample_filter"
      BY <1>1, <1>2, <2>1, EchoIs DEF Keeps
    <2>2. CASE program[m] # "sample_filter"
      BY <1>0, <1>1, <1>2, <1>3, <2>2, PartIs DEF Keeps
    <2> QED
      BY <2>1, <2>2
  <1>5. Echo(m)' = Echo(m)
    BY <1>0, SampleCallFacts DEF Echo
  <1>6. Keeps(m)'
    BY <1>0, <1>1, <1>2, <1>3, <1>4, <1>5 DEF Keeps
  <1>7. Answers(m)'
    BY <1>0, <1>1, <1>6 DEF Answers, Streamer
  <1>8. Sent(m)'
    BY <1>0, <1>1, SampleCallFacts, SentInCallback
  <1> QED
    BY <1>0, <1>7, <1>8 DEF Served

\* A call, of module m or of another.
LEMMA ServedCall ==
  ASSUME FilterInv, EchoInv, SampleCall, ~Late, NEW m \in Modules, Alone(m)',
         Alone(m), Served(m)
  PROVE  Served(m)'
  <1>1. CASE next # m
    BY <1>1, OtherCall
  <1>2. CASE next = m
    <2>1. ~AnyCall
      BY <1>2, OwnCall
    <2>2. next' = next
      BY SampleCallFacts
    <2> QED
      BY <1>2, <2>1, <2>2, HeadCall, ChunkCall, FinishCall, LocalCall
        DEF SampleCall
  <1> QED
    BY <1>1, <1>2

----------------------------------------------------------------------------
(* The callbacks and the host *)

\* A callback of another module starts.
LEMMA OtherStarts ==
  ASSUME FilterInv, EchoInv, StartCallback, ~Late, NEW m \in Modules, m # next',
         Served(m)
  PROVE  Served(m)'
  <1> TypeOK /\ PosInv /\ ScopeInv
    BY DEF FilterInv
  <1>1. PICK k \in Modules : CallOf(k) /\ next' = k /\ k # m
    <2>1. PICK k \in Modules : CallOf(k)
      BY CallFacts DEF StartCallback, CallStep
    <2> QED
      BY <2>1 DEF CallOf
  <1>2. /\ phase # "teardown" /\ phase \in RequestPhases \cup ResponsePhases
        /\ phase' = phase /\ program' = program /\ sent' = sent
    BY <1>1 DEF CallOf, Late, StartCallback, RequestPhases, ResponsePhases,
       CallbackPhases
  <1>3. text'[m] = text[m] /\ streaming_supported_'[m] = streaming_supported_[m]
    BY <1>1 DEF StartCallback, StartSample, SampleContext_onRequestHeaders,
       SendRecvAll_onRequestHeaders, SendRecvAll_onRequestBody,
       SendRecvStream_onRequestHeaders, SendRecvStream_onRequestBody,
       NothingToDo, Becomes, EchoInv
  <1>4. Left(m) = <<>> /\ Left(m)' = <<>>
    BY <1>1 DEF Left, CallOf
  <1>5. Kept(m)
    BY <1>1, <1>2, <1>3, <1>4 DEF Kept, CallOf
  <1>6. scope'[m] = "live" => Answers(m)'
    <2> SUFFICES ASSUME scope'[m] = "live" PROVE Answers(m)'
      OBVIOUS
    <2>1. /\ Answers(m) /\ consumed' = consumed /\ sink_error' = sink_error
          /\ scope[m] = "live"
      BY <1>1 DEF Served, CallOf
    <2>2. phase = "request_body" => Called(m)' = Called(m)
      BY <1>1, <2>1 DEF CallOf, Called, Modules, TypeOK, CallbackPhases
    <2>3. Got(m)' = Got(m)
      BY <1>2, <2>1, <2>2 DEF Got
    <2> QED
      BY <2>1, <2>3, <1>2, <1>5, AnswersKept
  <1>7. Sent(m)'
    BY <1>1, <1>2, SentInCallback DEF CallOf, Served
  <1> QED
    BY <1>6, <1>7 DEF Served

\* The headers come to module m.
LEMMA HeadersStart ==
  ASSUME FilterInv, EchoInv, StartCallback, ~Late, NEW m \in Modules,
         next' = m, Alone(m), phase = "request_headers"
  PROVE  Answers(m)'
  <1> TypeOK /\ PosInv /\ ScopeInv
    BY DEF FilterInv
  <1>1. CallOf(m)
    <2>1. PICK k \in Modules : CallOf(k)
      BY CallFacts DEF StartCallback, CallStep
    <2>2. k = m
      BY <2>1 DEF CallOf
    <2> QED
      BY <2>1, <2>2
  <1>2. /\ phase' = phase /\ program' = program /\ total' = total
        /\ consumed' = 0 /\ consumed = 0 /\ total \in Nat
        /\ streaming_state'[m] = "Idle" /\ local_response'[m] = FALSE
        /\ calling'
    BY <1>1 DEF CallOf, PosInv, EchoInv, TypeOK, StartCallback, CallbackPhases,
       ResponsePhases
  <1>3. StartSample(m)
    BY <1>1 DEF StartCallback
  <1>4. Left(m)' = todo' /\ Got(m)' = 0
    BY <1>1, <1>2 DEF Left, Got
  <1>5. (EndOfStream <=> total = 0) /\ (EndOfStream' <=> EndOfStream)
        /\ Headed' = Headed
    BY <1>2 DEF EndOfStream, Headed, Piece
  <1>6. Part(0)' = Part(0) /\ (total # 0 => Part(0) = <<Preamble>>)
    BY <1>2, UptoNone DEF Part
  <1>7. CASE program[m] = "sample_filter"
    <2>1. text'[m] = <<Preamble>> /\ todo' = <<"local">>
      BY <1>2, <1>3, <1>7 DEF StartSample, SampleContext_onRequestHeaders,
         Becomes, EchoInv
    <2> QED
      BY <1>1, <1>2, <1>4, <1>7, <2>1 DEF Answers, Keeps, Streamer
  <1>8. CASE program[m] = "send_recv_all"
    <2>1. /\ text'[m] = <<Preamble>> \o AtEnd(<<NoBody>>)
          /\ todo' = AtEnd(<<"local">>)
      BY <1>2, <1>3, <1>8 DEF StartSample, SendRecvAll_onRequestHeaders,
         Becomes, EchoInv
    <2>2. text'[m] = Part(0)
      <3>1. CASE total = 0
        BY <1>5, <2>1, <3>1, Joined2 DEF AtEnd, Part
      <3>2. CASE total # 0
        <4>1. <<Preamble>> \o <<>> = <<Preamble>>
          <5>1. <<Preamble>> \in Seq({Preamble})
            OBVIOUS
          <5> QED
            BY <5>1
        <4> QED
          BY <1>5, <1>6, <2>1, <3>2, <4>1 DEF AtEnd
      <3> QED
        BY <3>1, <3>2
    <2>3. todo' \in {<<>>, <<"local">>} /\ (todo' = <<"local">> => EndOfStream')
      BY <1>5, <2>1, StepsBegun, StepsLeft
    <2>4. text'[m] = Part(Got(m))'
      BY <1>2, <1>4, <2>2 DEF Part
    <2> QED
      BY <1>1, <1>2, <1>4, <1>8, <2>3, <2>4 DEF Answers, Keeps, Streamer
  <1>9. CASE program[m] = "send_recv_stream"
    <2>1. /\ streaming_supported_'[m] = TRUE /\ text'[m] = <<Preamble>>
          /\ todo' = AtEnd(<<"head", "preamble", "none", "finish">>)
      BY <1>2, <1>3, <1>9 DEF StartSample, SendRecvStream_onRequestHeaders,
         Becomes, EchoInv
    <2>2. CASE total = 0
      <3>1. todo' = Headed' /\ First'
        BY <1>2, <1>5, <2>1, <2>2, StepsBegun DEF First
      <3> QED
        BY <1>1, <1>2, <1>4, <1>5, <1>9, <2>1, <3>1, StepsLeft
          DEF Answers, Streams, Streamer
    <2>3. CASE total # 0
      <3>1. todo' = <<>>
        BY <1>5, <2>1, <2>3 DEF AtEnd
      <3> QED
        BY <1>1, <1>2, <1>4, <1>9, <2>1, <3>1, StepsLeft
          DEF Answers, Streams, Streamer
    <2> QED
      BY <2>2, <2>3
  <1> QED
    BY <1>1, <1>7, <1>8, <1>9 DEF Alone, Samples

\* A piece of the body comes to module m.
LEMMA BodyStarts ==
  ASSUME FilterInv, EchoInv, StartCallback, ~Late, NEW m \in Modules,
         next' = m, Alone(m), Served(m), phase = "request_body"
  PROVE  Answers(m)'
  <1> TypeOK /\ PosInv /\ ScopeInv
    BY DEF FilterInv
  <1>1. CallOf(m)
    <2>1. PICK k \in Modules : CallOf(k)
      BY CallFacts DEF StartCallback, CallStep
    <2>2. k = m
      BY <2>1 DEF CallOf
    <2> QED
      BY <2>1, <2>2
  <1>2. /\ phase' = phase /\ program' = program /\ total' = total
        /\ consumed' = consumed /\ consumed >= 1 /\ total # 0
        /\ streaming_state' = streaming_state
        /\ local_response' = local_response
        /\ calling' /\ ~calling /\ sent' = sent /\ sink_error' = sink_error
        /\ scope[m] = "live" /\ m >= next /\ ~has_local_response
    BY <1>1 DEF CallOf, EchoInv, TypeOK, StartCallback
  <1>3. StartSample(m) /\ ~local_response[m] /\ Answers(m)
    BY <1>1, <1>2 DEF StartCallback, PosInv, Served
  <1>4. /\ Left(m)' = todo' /\ Left(m) = <<>> /\ Got(m)' = consumed
        /\ Got(m) = consumed - 1 /\ consumed - 1 \in Nat
        /\ (consumed - 1) + 1 = consumed
    BY <1>1, <1>2 DEF Left, Got, Called, TypeOK, Modules
  <1>5. /\ EndOfStream' = EndOfStream /\ Headed' = Headed /\ Pieced' = Pieced
        /\ Part(Got(m))' = Upto(consumed) /\ Part(Got(m)) = Upto(consumed - 1)
    BY <1>2, <1>4 DEF EndOfStream, Headed, Pieced, Piece, Part
  <1>6. Append(Upto(consumed - 1), consumed) = Upto(consumed)
    BY <1>4, UptoMore
  <1>7. CASE program[m] # "send_recv_stream" \/ ~streaming_supported_[m]
    <2>1. Keeps(m)
      BY <1>3, <1>7 DEF Answers, Streamer
    <2>2. program[m] # "sample_filter"
      BY <1>3, <1>4, <2>1, StepsLeft DEF Keeps
    <2>3. /\ text'[m] = Append(text[m], consumed)
          /\ todo' = AtEnd(<<"local">>)
          /\ streaming_supported_'[m] = streaming_supported_[m]
      BY <1>1, <1>2, <1>3, <1>7, <2>2 DEF StartSample, Alone, Samples,
         SendRecvAll_onRequestBody, SendRecvStream_onRequestBody, Becomes,
         EchoInv
    <2>4. text'[m] = Part(Got(m))'
      BY <1>3, <1>5, <1>6, <2>1, <2>2, <2>3 DEF Keeps
    <2>5. todo' \in {<<>>, <<"local">>} /\ (todo' = <<"local">> => EndOfStream')
      BY <1>5, <2>3, StepsBegun, StepsLeft
    <2>6. Keeps(m)'
      BY <1>2, <1>3, <1>4, <2>1, <2>2, <2>4, <2>5 DEF Keeps
    <2> QED
      BY <1>1, <1>2, <1>7, <2>3, <2>6 DEF Answers, Streamer
  <1>8. CASE program[m] = "send_recv_stream" /\ streaming_supported_[m]
    <2>1. Streams(m)
      BY <1>3, <1>4, <1>8, StepsLeft DEF Answers, Streamer
    <2>2. /\ text'[m] = text[m]
          /\ todo' = streamPreamble(m) \o <<"piece">> \o AtEnd(<<"finish">>)
          /\ streaming_supported_'[m]
      BY <1>1, <1>2, <1>3, <1>8 DEF StartSample,
         SendRecvStream_onRequestBody, Becomes, EchoInv
    <2>3. CASE streaming_state[m] = "Idle"
      <3>1. todo' = Headed'
        BY <1>2, <1>5, <2>2, <2>3, StepsBegun DEF streamPreamble
      <3>2. First' /\ text'[m] = <<Preamble>>
        BY <1>2, <1>4, <2>1, <2>2, <2>3, StepsLeft DEF First, Streams
      <3>3. Streams(m)'
        BY <1>2, <1>3, <1>4, <2>3, <3>1, <3>2 DEF Streams
      <3>4. Left(m)' # <<"local">>
        BY <1>4, <1>5, <3>1, StepsLeft
      <3> QED
        BY <1>1, <1>2, <1>3, <1>8, <2>2, <3>3, <3>4 DEF Answers, Streamer
    <2>4. CASE streaming_state[m] = "HeadersSent"
      <3>1. todo' = Pieced'
        BY <1>2, <1>5, <2>2, <2>4, StepsBegun DEF streamPreamble
      <3>2. sink_error \/ sent = Upto(consumed - 1)
        BY <1>4, <1>5, <2>1, <2>4, StepsLeft DEF Streams
      <3>3. Streams(m)'
        BY <1>2, <1>3, <1>4, <2>4, <3>1, <3>2 DEF Streams
      <3>4. Left(m)' # <<"local">>
        BY <1>4, <1>5, <3>1, StepsLeft
      <3> QED
        BY <1>1, <1>2, <1>3, <1>8, <2>2, <3>3, <3>4 DEF Answers, Streamer
    <2>5. streaming_state[m] # "Finished"
      BY <1>4, <2>1 DEF Streams, TypeOK
    <2> QED
      BY <2>3, <2>4, <2>5 DEF TypeOK
  <1> QED
    BY <1>7, <1>8

\* A callback starts.
LEMMA ServedStart ==
  ASSUME FilterInv, EchoInv, StartCallback, ~Late, NEW m \in Modules, Alone(m),
         Served(m)
  PROVE  Served(m)'
  <1> TypeOK /\ PosInv /\ ScopeInv
    BY DEF FilterInv
  <1>1. CASE next' # m
    BY <1>1, OtherStarts
  <1>2. CASE next' = m
    <2>1. CallOf(m)
      <3>1. PICK k \in Modules : CallOf(k)
        BY CallFacts DEF StartCallback, CallStep
      <3>2. k = m
        BY <1>2, <3>1 DEF CallOf
      <3> QED
        BY <3>1, <3>2
    <2>2. /\ phase \in RequestPhases \cup ResponsePhases /\ phase' = phase
          /\ program' = program /\ sent' = sent
      BY <2>1 DEF CallOf, Late, StartCallback, RequestPhases, ResponsePhases,
         CallbackPhases
    <2>3. Sent(m)'
      BY <2>1, <2>2, SentInCallback DEF CallOf, Served
    <2>4. CASE phase \notin {"request_headers", "request_body"}
      <3>1. UNCHANGED <<text, todo, streaming_supported_>>
        BY <2>4 DEF StartCallback, StartSample, NothingToDo
      <3>2. /\ Left(m)' = <<>> /\ Left(m) = <<>> /\ Got(m)' = Got(m)
            /\ consumed' = consumed /\ sink_error' = sink_error
        BY <2>1, <2>2, <2>4, <3>1 DEF Left, Got, CallOf, EchoInv
      <3>3. Kept(m) /\ Answers(m)
        BY <2>1, <2>2, <2>4, <3>1, <3>2 DEF Kept, CallOf, Served, Late
      <3>4. Answers(m)'
        BY <2>2, <3>2, <3>3, AnswersKept
      <3> QED
        BY <2>3, <3>4 DEF Served
    <2>5. CASE phase = "request_headers"
      BY <1>2, <2>3, <2>5, HeadersStart DEF Served
    <2>6. CASE phase = "request_body"
      BY <1>2, <2>3, <2>6, BodyStarts DEF Served
    <2> QED
      BY <2>4, <2>5, <2>6
  <1> QED
    BY <1>1, <1>2

\* A callback returns.
LEMMA ServedReturn ==
  ASSUME FilterInv, EchoInv, ReturnFromCallback, ~Late, NEW m \in Modules,
         Served(m)
  PROVE  Served(m)'
  <1> TypeOK /\ PosInv
    BY DEF FilterInv
  <1>1. EndCallback /\ todo = <<>> /\ UNCHANGED sampleVars
    BY DEF ReturnFromCallback, EndDone, Late
  <1>2. /\ phase \in RequestPhases \cup ResponsePhases
        /\ calling /\ next \in Modules /\ next' = next + 1 /\ ~calling'
        /\ UNCHANGED <<transport, total, phase, consumed, scope,
                       streaming_state, local_response, sink_error>>
        /\ UNCHANGED <<program, todo, text, streaming_supported_, sent>>
    BY <1>1 DEF EndCallback, PosInv, TypeOK, hostVars, filterVars, sinkVars,
       sampleVars, Late
  <1>3. Left(m) = <<>> /\ Left(m)' = <<>>
    BY <1>1, <1>2 DEF Left
  <1>4. Called(m)' = Called(m)
    BY <1>2 DEF Called, Modules
  <1>5. Kept(m) /\ Got(m)' = Got(m)
    BY <1>2, <1>3, <1>4 DEF Kept, Got
  <1>6. scope'[m] = "live" => Answers(m)'
    BY <1>2, <1>5, AnswersKept DEF Served
  <1>7. Sent(m)'
    BY <1>2, SentInCallback DEF Served
  <1> QED
    BY <1>6, <1>7 DEF Served

\* The host takes these steps between two callbacks.
LEMMA HostCalm ==
  ASSUME FilterInv, HostStep
  PROVE  ~calling /\ ~calling'
  <1> TypeOK /\ PosInv
    BY DEF FilterInv
  <1>1. ~calling
    BY DEF HostStep, Parse, CreateScopeFails, EndRequestHeaders, PhaseOver,
       ReadBody, EndRequestBody, EndRequestTrailers, EndResponsePhase,
       EndResponseTrailers, RespondHead, RespondFinish, Returned,
       LSAPI_Finish_r, PosInv, RequestPhases, ResponsePhases
  <1>2. MoveStep
    BY DEF HostStep, MoveStep
  <1>3. MoveOf
    BY <1>2, MoveFacts
  <1> QED
    BY <1>1, <1>3 DEF MoveOf, ModuleSkipped, CallbackEnds, CallbackThrows,
       DoneEnds, PieceRead, PhasePassed, Moved

\* The host goes on between two callbacks: the answer of a module stays as it is.
LEMMA ServedHost ==
  ASSUME FilterInv, EchoInv, HostStep, ~Late, Hopeful', NEW m \in Modules,
         Alone(m), Served(m)
  PROVE  Served(m)'
  <1> TypeOK /\ PosInv /\ WireInv
    BY DEF FilterInv
  <1>1. MoveStep /\ Next /\ UNCHANGED sampleVars
    BY DEF HostStep, MoveStep, Next, Host
  <1>2. /\ MoveOf
        /\ UNCHANGED <<transport, total, seen, streaming_state, local_response,
                       calls>>
    BY <1>1, MoveFacts
  <1>3. ~calling /\ ~calling'
    BY HostCalm
  <1>4. ModuleSkipped \/ PieceRead \/ PhasePassed
    BY <1>2, <1>3 DEF MoveOf, CallbackEnds, CallbackThrows, DoneEnds
  <1>5. UNCHANGED scope
    BY <1>4 DEF ModuleSkipped, PieceRead, PhasePassed, Moved
  <1>6. has_local_response => local_response[m]
    BY DEF EchoInv, Alone, Answering
  <1>7. Left(m) = <<>> /\ Left(m)' = <<>> /\ Kept(m) /\ sent' = sent
    BY <1>1, <1>2, <1>3 DEF Left, Kept, sampleVars
  <1>8. scope'[m] = "live" => Answers(m)'
    <2> SUFFICES ASSUME scope[m] = "live" PROVE Answers(m)'
      BY <1>5
    <2>1. local_response[m] \/ Got(m)' = Got(m)
      <3> SUFFICES ASSUME ~local_response[m], ~has_local_response
                   PROVE  Got(m)' = Got(m)
        BY <1>6
      <3>1. CASE ModuleSkipped
        BY <3>1 DEF ModuleSkipped, Got
      <3>2. CASE PieceRead
        <4>1. ~Called(m)'
          BY <3>2, <1>3, <1>2 DEF PieceRead, Moved, Called, Modules
        <4> QED
          BY <3>2, <4>1 DEF PieceRead, Moved, Got, TypeOK
      <3>3. CASE PhasePassed
        <4>1. phase' # "request_body" /\ consumed' = consumed
          BY <3>3 DEF PhasePassed, Moved
        <4>2. CASE phase = "request_body"
          <5>1. LoopOver
            BY <3>3, <4>2 DEF PhasePassed, Moved
          <5>2. Called(m)
            BY <5>1 DEF LoopOver, Called
          <5> QED
            BY <4>1, <5>2 DEF Got
        <4>3. CASE phase # "request_body"
          BY <4>1, <4>3 DEF Got
        <4> QED
          BY <4>2, <4>3
      <3> QED
        BY <1>4, <3>1, <3>2, <3>3
    <2>2. consumed' = consumed \/ (Left(m) = <<>> /\ consumed < total)
      BY <1>4, <1>7 DEF ModuleSkipped, PieceRead, PhasePassed
    <2>3. sink_error => sink_error'
      BY <1>1, ErrorStays
    <2> QED
      BY <1>7, <2>1, <2>2, <2>3, AnswersKept DEF Served
  <1>9. Sent(m)'
    <2>0. Echo(m)' = Echo(m)
      BY <1>7 DEF Kept, Echo
    <2>1. CASE phase' \notin {"respond_finish", "teardown"}
      <3>1. phase # "respond_finish"
        BY <1>4, <2>1 DEF ModuleSkipped, PieceRead, PhasePassed, Moved, Late
      <3> QED
        BY <1>2, <1>7, <2>1, <3>1 DEF Sent, Served, Late
    <2>2. CASE phase' = "respond_finish"
      BY <2>2 DEF HostStep, Parse, CreateScopeFails, EndRequestHeaders,
         ReadBody, EndRequestBody, EndRequestTrailers, EndResponsePhase,
         EndResponseTrailers, RespondHead, RespondFinish, Returned,
         LSAPI_Finish_r, Continue, Return, Go, Respond
    <2>3. CASE phase' = "teardown"
      <3>1. /\ transport = "http" => outcome' # "error"
            /\ phase # "teardown" /\ outcome = "none"
        BY <1>2, <2>3 DEF Hopeful, Late, PosInv
      <3>2. CASE RespondFinish
        <4>1. phase = "respond_finish" /\ (sink_error => sink_error')
          BY <1>1, <3>2, ErrorStays DEF RespondFinish
        <4>2. local_response[m] =>
                sent' = Echo(m)' \/ (transport = "lsapi" /\ sink_error')
          BY <1>7, <2>0, <4>1 DEF Sent, Served
        <4>3. ~local_response[m] => streaming_state[m] = "Idle"
          BY <1>6, <4>1 DEF WireInv, Fresh, Late, hasStreamingResponse
        <4> QED
          BY <1>2, <2>3, <4>2, <4>3 DEF Sent
      <3>3. CASE EndRequestTrailers \/ EndResponseTrailers
        <4>1. /\ hasStreamingResponse
              /\ transport = "http" => isStreamingFinished /\ ~has_local_response
          BY <2>3, <3>1, <3>3 DEF EndRequestTrailers, EndResponseTrailers,
             Return, Continue, Go
        <4>2. ~local_response[m]
          <5>1. streaming_state[m] # "Idle"
            BY <4>1 DEF hasStreamingResponse, Alone, Answering
          <5>2. scope[m] = "live"
            BY <5>1 DEF EchoInv, FilterInv, ScopeInv, TypeOK
          <5> QED
            BY <5>1, <5>2 DEF Served, Answers, Streamer, Keeps
        <4>3. transport = "http" => streaming_state[m] # "HeadersSent"
          BY <4>1 DEF isStreamingFinished, Alone, Answering
        <4> QED
          BY <1>2, <2>3, <4>2, <4>3 DEF Sent
      <3>4. CASE ReadBody
        <4>1. ~has_local_response /\ transport # "http"
          BY <2>3, <3>1, <3>4 DEF ReadBody, Return, Continue, Go
        <4>2. ~local_response[m]
          BY <1>3, <4>1 DEF PosInv, Late
        <4> QED
          BY <1>2, <2>3, <4>1, <4>2 DEF Sent
      <3> QED
        BY <2>3, <3>1, <3>2, <3>3, <3>4 DEF HostStep, Parse, CreateScopeFails,
           EndRequestHeaders, ReadBody, EndRequestBody, EndResponsePhase,
           RespondHead, Returned, LSAPI_Finish_r, Continue, Return, Go, Respond
    <2> QED
      BY <2>1, <2>2, <2>3
  <1> QED
    BY <1>8, <1>9 DEF Served

\* The text of a response is not the host's own.
LEMMA EchoNotOther ==
  ASSUME TypeOK, NEW m \in Modules
  PROVE  Echo(m) # <<Other>> /\ <<>> \o Echo(m) = Echo(m)
  <1>1. Other # 0
    BY ChainAssumption DEF Other
  <1>2. Upto(total) \in Seq(Nat) /\ Upto(total)[1] = 0 /\ total \in Nat
    BY UptoMore DEF TypeOK, Upto
  <1>3. <<Preamble>>[1] = 0 /\ <<Preamble, NoBody>>[1] = 0 /\ <<Other>>[1] = Other
    BY DEF Preamble
  <1>4. Echo(m)[1] = 0
    BY <1>2, <1>3, EchoIs DEF Part
  <1>5. <<Preamble>> \in Seq(Nat) /\ <<Preamble, NoBody>> \in Seq(Nat)
    <2>1. Preamble \in Nat /\ NoBody \in Nat
      BY ChainAssumption DEF Preamble, NoBody
    <2> QED
      BY <2>1
  <1>6. Echo(m) \in Seq(Nat)
    BY <1>2, <1>5, EchoIs DEF Part
  <1>7. Echo(m) # <<Other>>
    BY <1>1, <1>3, <1>4
  <1>8. <<>> \o Echo(m) = Echo(m)
    BY <1>6, ConcatEmptySeq
  <1> QED
    BY <1>7, <1>8

\* The host writes the body of a response: the text of the module that left a
\* local one.
LEMMA ServedRespond ==
  ASSUME FilterInv, EchoInv, RespondText, ~Late, NEW m \in Modules, Alone(m),
         Served(m)
  PROVE  Served(m)'
  <1> TypeOK /\ PosInv /\ WireInv /\ ScopeInv
    BY DEF FilterInv
  <1>1. RespondBody /\ Next
    BY DEF RespondText, Next, Host
  <1>2. /\ phase = "respond_body" /\ phase' = "respond_finish"
        /\ ~calling /\ ~calling'
        /\ UNCHANGED <<transport, total, next, consumed, scope, streaming_state,
                       local_response>>
        /\ UNCHANGED <<program, todo, text, streaming_supported_>>
    BY <1>1 DEF RespondText, RespondBody, Respond, hostVars, filterVars, PosInv,
       RequestPhases, ResponsePhases
  <1>3. sink_error => sink_error'
    BY <1>1, ErrorStays
  <1>4. has_local_response <=> local_response[m]
    BY <1>2 DEF EchoInv, Alone, Answering, PosInv
  <1>5. Left(m) = <<>> /\ Left(m)' = <<>> /\ Kept(m) /\ Got(m)' = Got(m)
    BY <1>2 DEF Left, Kept, Got
  <1>6. scope[m] = "live" => streaming_state[m] = "Idle"
    <2> SUFFICES ASSUME scope[m] = "live", streaming_state[m] # "Idle"
                 PROVE  FALSE
      OBVIOUS
    <2>1. has_local_response
      BY <1>2 DEF WireInv, Fresh, Late, hasStreamingResponse
    <2> QED
      BY <1>4, <2>1 DEF Served, Answers, Keeps, Streamer
  <1>7. scope'[m] = "live" => Answers(m)'
    BY <1>2, <1>3, <1>5, <1>6, AnswersKept DEF Served
  <1>8. ASSUME local_response[m]
        PROVE  sent' = Echo(m) \/ (transport = "lsapi" /\ sink_error')
    <2>1. scope[m] = "live"
      BY <1>8 DEF EchoInv, ScopeInv, TypeOK
    <2>2. text[m] = Echo(m) /\ streaming_state[m] = "Idle"
      BY <1>8, <2>1 DEF Served, Answers, Keeps, Streamer
    <2>3. sent = <<>>
      BY <1>2, <2>2 DEF Served, Sent
    <2>4. HostText = Echo(m)
      <3>1. (CHOOSE k \in Modules : local_response[k]) = m
        BY <1>8 DEF Alone, Answering
      <3> QED
        BY <1>4, <1>8, <2>2, <3>1 DEF HostText
    <2>5. sinkVars' # sinkVars \/ (transport = "lsapi" /\ sink_error)
      BY <2>4, EchoNotOther DEF RespondText
    <2>6. CASE \E o \in Origins : Put("body", o)
      <3>1. PICK o \in Origins : Put("body", o)
        BY <2>6
      <3>2. /\ Len(wire') = Len(wire) + 1 /\ Len(wire) \in Nat
            /\ wire'[Len(wire')] = <<"body", o>>
        BY <3>1, PutFacts, KindsAll DEF TypeOK
      <3>3. sent' = sent \o HostText
        BY <3>2 DEF RespondText, Writes
      <3> QED
        BY <2>3, <2>4, <3>3, EchoNotOther
    <2>7. Origin \in Origins
      BY OriginsAll DEF Origin
    <2> QED
      BY <1>1, <1>3, <2>5, <2>6, <2>7 DEF RespondBody, writeBody, TypeOK
  <1>9. Sent(m)'
    <2>1. Echo(m)' = Echo(m)
      BY <1>2 DEF Echo
    <2> QED
      BY <1>2, <1>8, <2>1 DEF Sent
  <1> QED
    BY <1>7, <1>9 DEF Served

----------------------------------------------------------------------------
(* The echo *)

\* No step of the samples breaks the invariant about the calls they have yet to
\* make.
LEMMA TodoStep ==
  ASSUME FilterInv, EchoInv, SNext
  PROVE  /\ ~calling' => todo' = <<>>
         /\ todo' # <<>> => phase' \in {"request_headers", "request_body"}
  <1> TypeOK /\ PosInv /\ ScopeInv
    BY DEF FilterInv
  <1>1. CASE SampleCall
    <2>1. Filter
      BY <1>1 DEF SampleCall, StreamHead, StreamChunk, StreamFinish,
         SampleLocalResponse, AnyCall, Filter
    <2>2. calling' /\ phase' = phase
      BY <2>1, FilterFacts
    <2>3. todo # <<>> \/ todo' = todo
      BY <1>1 DEF SampleCall, StreamHead, StreamChunk, StreamFinish,
         SampleLocalResponse, AnyCall, Doing
    <2> QED
      BY <2>2, <2>3 DEF EchoInv
  <1>2. CASE StartCallback
    <2>1. ~calling /\ calling' /\ phase' = phase
      BY <1>2, CallFacts DEF StartCallback, CallStep, CallOf
    <2> QED
      BY <1>2, <2>1 DEF StartCallback, StartSample, NothingToDo, EchoInv
  <1>3. CASE ReturnFromCallback \/ ThrowFromCallback
    BY <1>3 DEF ReturnFromCallback, ThrowFromCallback, sampleVars
  <1>4. CASE RespondText
    <2>1. ~calling /\ todo' = todo
      BY <1>4 DEF RespondText, RespondBody, PosInv, RequestPhases,
         ResponsePhases
    <2> QED
      BY <2>1 DEF EchoInv
  <1>5. CASE HostStep
    BY <1>5, HostCalm DEF HostStep, sampleVars, EchoInv
  <1> QED
    BY <1>1, <1>2, <1>3, <1>4, <1>5 DEF SNext, SampleCall

\* The texts stay texts.
LEMMA TextStep ==
  ASSUME FilterInv, EchoInv, SNext
  PROVE  /\ text' \in [Modules -> Seq(Nat)]
         /\ streaming_supported_' \in [Modules -> BOOLEAN]
  <1> TypeOK /\ PosInv /\ ScopeInv
    BY DEF FilterInv
  <1>0. /\ text \in [Modules -> Seq(Nat)] /\ consumed \in Nat
        /\ streaming_supported_ \in [Modules -> BOOLEAN]
        /\ Preamble \in Nat /\ NoBody \in Nat
    BY ChainAssumption DEF EchoInv, TypeOK, Preamble, NoBody
  <1>1. CASE SampleCall
    <2>1. next \in Modules
      BY <1>1 DEF SampleCall, StreamHead, StreamChunk, StreamFinish,
         SampleLocalResponse, AnyCall, Doing, TypeOK
    <2>2. \A x \in Nat : Append(text[next], x) \in Seq(Nat)
      BY <1>0, <2>1
    <2>3. <<>> \in Seq(Nat)
      OBVIOUS
    <2> QED
      BY <1>0, <1>1, <2>1, <2>2, <2>3 DEF SampleCall, StreamHead, StreamChunk,
         StreamFinish, SampleLocalResponse, AnyCall, Becomes
  <1>2. CASE StartCallback
    <2>1. PICK m \in Modules : next' = m
      BY <1>2, CallFacts DEF StartCallback, CallStep, CallOf
    <2>2. /\ Append(text[m], consumed) \in Seq(Nat) /\ <<Preamble>> \in Seq(Nat)
          /\ <<Preamble>> \o AtEnd(<<NoBody>>) \in Seq(Nat)
          /\ text[m] \in Seq(Nat)
      <3>1. text[m] \in Seq(Nat) /\ <<Preamble>> \in Seq(Nat)
            /\ AtEnd(<<NoBody>>) \in Seq(Nat)
        BY <1>0 DEF AtEnd
      <3> QED
        BY <1>0, <3>1
    <2>3. StartSample(m)
      BY <1>2, <2>1 DEF StartCallback
    <2>4. CASE \E w \in Seq(Nat) : text' = [text EXCEPT ![m] = w]
      BY <1>0, <2>3, <2>4 DEF StartSample, SampleContext_onRequestHeaders,
         SendRecvAll_onRequestHeaders, SendRecvAll_onRequestBody,
         SendRecvStream_onRequestHeaders, SendRecvStream_onRequestBody,
         NothingToDo
    <2>5. CASE NothingToDo
      BY <1>0, <2>5 DEF NothingToDo
    <2> QED
      BY <2>2, <2>3, <2>4, <2>5 DEF StartSample,
         SampleContext_onRequestHeaders, SendRecvAll_onRequestHeaders,
         SendRecvAll_onRequestBody, SendRecvStream_onRequestHeaders,
         SendRecvStream_onRequestBody, Becomes
  <1>3. CASE ReturnFromCallback \/ ThrowFromCallback \/ RespondText \/ HostStep
    BY <1>0, <1>3 DEF ReturnFromCallback, ThrowFromCallback, RespondText,
       HostStep, sampleVars
  <1> QED
    BY <1>1, <1>2, <1>3 DEF SNext, SampleCall

\* What the proof needs of the chain besides its own invariant.
LEMMA ChainStep ==
  ASSUME FilterInv, EchoInv, Next
  PROVE  /\ phase' = "request_body" => consumed' >= 1
         /\ has_local_response' => \E k \in Modules : local_response'[k]
         /\ \A m \in Modules : scope'[m] = "none" =>
              streaming_state'[m] = "Idle" /\ ~local_response'[m]
  <1> TypeOK /\ PosInv /\ ScopeInv
    BY DEF FilterInv
  <1>1. CASE Filter
    <2>1. phase' = "request_body" => consumed' >= 1
      BY <1>1, FilterFacts DEF EchoInv
    <2>2. has_local_response' => \E k \in Modules : local_response'[k]
      BY <1>1, FilterFacts, AnsweringGrows DEF EchoInv
    <2>3. ASSUME NEW m \in Modules, scope'[m] = "none"
          PROVE  streaming_state'[m] = "Idle" /\ ~local_response'[m]
      <3>1. calling /\ scope' = scope
        BY <1>1, FilterFacts
      <3>2. scope[m] = "none" /\ m # next
        BY <2>3, <3>1 DEF ScopeInv
      <3>3. /\ streaming_state'[m] = streaming_state[m]
            /\ local_response'[m] = local_response[m]
        BY <1>1, <3>2, FilterFacts
      <3> QED
        BY <3>2, <3>3 DEF EchoInv
    <2> QED
      BY <2>1, <2>2, <2>3
  <1>2. CASE CallStep
    <2>1. PICK m \in Modules : CallOf(m)
      BY <1>2, CallFacts
    <2> QED
      BY <2>1 DEF CallOf, EchoInv
  <1>3. CASE MoveStep
    <2>1. /\ MoveOf
          /\ UNCHANGED <<streaming_state, local_response>>
      BY <1>3, MoveFacts
    <2>2. phase' = "request_body" => consumed' >= 1
      BY <2>1 DEF MoveOf, ModuleSkipped, CallbackEnds, CallbackThrows, DoneEnds,
         PieceRead, PhasePassed, Moved, EchoInv, TypeOK
    <2>3. has_local_response' =>
            has_local_response \/ (next \in Modules /\ local_response[next])
      BY <2>1 DEF MoveOf, ModuleSkipped, CallbackEnds, CallbackThrows, DoneEnds,
         PieceRead, PhasePassed, TypeOK
    <2>4. \A m \in Modules : scope'[m] = "none" => scope[m] = "none"
      BY <2>1 DEF MoveOf, ModuleSkipped, CallbackEnds, CallbackThrows, DoneEnds,
         PieceRead, PhasePassed, Moved, TypeOK
    <2> QED
      BY <2>1, <2>2, <2>3, <2>4 DEF EchoInv
  <1> QED
    BY <1>1, <1>2, <1>3, NextSorts

\* No step breaks the invariant of the samples.
LEMMA EchoStep ==
  ASSUME FilterInv, EchoInv, SNext
  PROVE  EchoInv'
  <1>1. Next
    BY SampleSteps
  <1>2. ASSUME Hopeful', NEW m \in Modules, Alone(m)'
        PROVE  Served(m)'
    <2>1. ~Late /\ Hopeful
      BY <1>1, <1>2, HopefulBefore
    <2>2. Alone(m) /\ Served(m)
      BY <1>2, <2>1, AloneBefore DEF EchoInv
    <2>3. CASE SampleCall
      BY <1>2, <2>1, <2>2, <2>3, ServedCall
    <2>4. CASE StartCallback
      BY <2>1, <2>2, <2>4, ServedStart
    <2>5. CASE ReturnFromCallback
      BY <2>1, <2>2, <2>5, ServedReturn
    <2>6. CASE ThrowFromCallback
      BY <1>2, <2>6 DEF ThrowFromCallback, Throw, Hopeful, Late, hostVars
    <2>7. CASE RespondText
      BY <2>1, <2>2, <2>7, ServedRespond
    <2>8. CASE HostStep
      BY <1>2, <2>1, <2>2, <2>8, ServedHost
    <2> QED
      BY <2>3, <2>4, <2>5, <2>6, <2>7, <2>8 DEF SNext, SampleCall
  <1>3. /\ phase' = "request_body" => consumed' >= 1
        /\ has_local_response' => \E k \in Modules : local_response'[k]
        /\ \A m \in Modules : scope'[m] = "none" =>
             streaming_state'[m] = "Idle" /\ ~local_response'[m]
    BY <1>1, ChainStep
  <1>4. /\ ~calling' => todo' = <<>>
        /\ todo' # <<>> => phase' \in {"request_headers", "request_body"}
    BY TodoStep
  <1>5. /\ text' \in [Modules -> Seq(Nat)]
        /\ streaming_supported_' \in [Modules -> BOOLEAN]
    BY TextStep
  <1> QED
    BY <1>2, <1>3, <1>4, <1>5 DEF EchoInv

\* It holds of a new request.
LEMMA EchoInit ==
  ASSUME SInit
  PROVE  EchoInv
  <1>1. /\ phase \in {"parse", "request_headers"}
        /\ scope = [m \in Modules |-> "none"]
        /\ streaming_state = [m \in Modules |-> "Idle"]
        /\ local_response = [m \in Modules |-> FALSE] /\ ~has_local_response
        /\ todo = <<>> /\ sent = <<>>
    BY DEF SInit, Init
  <1>2. \A m \in Modules : Served(m)
    BY <1>1 DEF Served, Sent
  <1>3. text \in [Modules -> Seq(Nat)]
    <2>1. Other \in Nat
      BY ChainAssumption DEF Other
    <2>2. <<Other>> \in Seq(Nat)
      BY <2>1
    <2> QED
      BY <2>2 DEF SInit
  <1>4. streaming_supported_ \in [Modules -> BOOLEAN]
    BY DEF SInit
  <1> QED
    BY <1>1, <1>2, <1>3, <1>4 DEF EchoInv

\* It depends on these variables only.
LEMMA EchoStutter ==
  ASSUME EchoInv, UNCHANGED allVars
  PROVE  EchoInv'
  <1>1. /\ UNCHANGED <<transport, phase, next, calling, total, consumed, scope,
                       streaming_state, local_response, has_local_response>>
        /\ UNCHANGED <<sink_error, outcome, program, todo, text,
                       streaming_supported_, sent>>
    BY DEF allVars, vars, hostVars, posVars, filterVars, sinkVars, sampleVars
  <1>2. /\ Hopeful' <=> Hopeful
        /\ \A m \in Modules : Alone(m)' <=> Alone(m)
    BY <1>1 DEF Hopeful, Late, Decided, Alone, Answering
  <1>3. UNCHANGED <<EndOfStream, Headed, Prefaced, Pieced, First>>
    BY <1>1 DEF EndOfStream, Headed, Prefaced, Pieced, Piece, First
  <1>4. ASSUME NEW m \in Modules PROVE Served(m)' <=> Served(m)
    <2>1. /\ Left(m)' = Left(m) /\ Got(m)' = Got(m) /\ Echo(m)' = Echo(m)
          /\ Part(Got(m))' = Part(Got(m)) /\ Part(consumed)' = Part(consumed)
      BY <1>1 DEF Left, Got, Called, Echo, Part
    <2>2. Keeps(m)' <=> Keeps(m)
      BY <1>1, <1>3, <2>1 DEF Keeps
    <2>3. Streams(m)' <=> Streams(m)
      BY <1>1, <1>3, <2>1 DEF Streams
    <2> QED
      BY <1>1, <2>1, <2>2, <2>3 DEF Served, Sent, Answers, Streamer
  <1> QED
    BY <1>1, <1>2, <1>4 DEF EchoInv

\* The inductive invariant of the samples holds of every request, whatever the
\* other modules of the chain do and whichever of its calls a sample sees fail.
THEOREM EchoInvariant == SSpec => []EchoInv
  <1>1. SInit => EchoInv
    BY EchoInit
  <1>2. FilterInv /\ EchoInv /\ [SNext]_allVars => EchoInv'
    BY EchoStep, EchoStutter
  <1> QED
    BY <1>1, <1>2, SamplesAreFilters, FilterInvariant, PTL DEF SSpec

\* What the host and the other modules have sent is not in the way, and what the
\* sample sends is in order.
BeginsInv ==
  \A m \in Modules :
    program[m] \in Samples /\ Answering = {m} => Begins(sent, Echo(m))

\* What a sample may have sent at some point is a beginning of its echo.
LEMMA PartBegins ==
  ASSUME TypeOK, NEW m \in Modules, program[m] # "sample_filter",
         NEW k \in 0..total
  PROVE  /\ Begins(<<>>, Echo(m)) /\ Begins(Part(k), Echo(m))
         /\ total # 0 => Begins(Upto(k), Echo(m))
         /\ total = 0 => Begins(<<Preamble>>, Echo(m))
  <1>1. total \in Nat /\ k \in Nat /\ k <= total
    BY DEF TypeOK
  <1>2. Echo(m) = Part(total)
    BY EchoIs
  <1>3. CASE total = 0
    <2>1. Echo(m) = <<Preamble, NoBody>> /\ Part(k) = <<Preamble, NoBody>>
      BY <1>2, <1>3 DEF Part
    <2> QED
      BY <1>3, <2>1 DEF Begins
  <1>4. CASE total # 0
    <2>1. /\ Echo(m) = Upto(total) /\ Part(k) = Upto(k)
          /\ Len(Upto(total)) = total + 1 /\ Len(Upto(k)) = k + 1
      BY <1>1, <1>2, <1>4, UptoMore DEF Part
    <2>2. \A i \in 1..(k + 1) : Upto(k)[i] = i - 1 /\ Upto(total)[i] = i - 1
      BY <1>1 DEF Upto
    <2>3. Begins(Upto(k), Upto(total))
      BY <1>1, <2>1, <2>2 DEF Begins
    <2>4. Begins(<<>>, Upto(total))
      BY <1>1, <2>1 DEF Begins
    <2> QED
      BY <1>4, <2>1, <2>3, <2>4
  <1> QED
    BY <1>3, <1>4

\* Nothing has been sent, or everything.
LEMMA EndsBegin ==
  ASSUME TypeOK, NEW m \in Modules
  PROVE  Begins(<<>>, Echo(m)) /\ Begins(Echo(m), Echo(m))
  <1>1. Upto(total) \in Seq(Nat) /\ total \in Nat
    BY UptoMore DEF TypeOK
  <1>2. <<Preamble>> \in Seq(Nat) /\ <<Preamble, NoBody>> \in Seq(Nat)
    <2>1. Preamble \in Nat /\ NoBody \in Nat
      BY ChainAssumption DEF Preamble, NoBody
    <2> QED
      BY <2>1
  <1>3. Echo(m) \in Seq(Nat)
    BY <1>1, <1>2, EchoIs DEF Part
  <1> QED
    BY <1>3 DEF Begins

\* No step breaks it.
LEMMA BeginsStep ==
  ASSUME FilterInv, FilterInv', EchoInv, EchoInv', BeginsInv, SNext
  PROVE  BeginsInv'
  <1> SUFFICES ASSUME NEW m \in Modules, program'[m] \in Samples,
                      Answering' = {m}
               PROVE  Begins(sent, Echo(m))'
    BY DEF BeginsInv
  <1> TypeOK /\ PosInv /\ ScopeInv /\ WireInv /\ TypeOK'
    BY DEF FilterInv
  <1>1. Next /\ program' = program
    BY SampleSteps
  <1>2. \A k \in Modules : k \in Answering => k = m
    BY <1>1, AnsweringGrows DEF Answering
  <1>3. Alone(m) /\ Alone(m)'
    BY <1>1, <1>2 DEF Alone
  <1>4. total' = total /\ Echo(m)' = Echo(m)
    <2>1. total' = total
      <3>1. CASE Filter
        BY <3>1, FilterFacts
      <3>2. CASE CallStep
        BY <3>2, CallFacts DEF CallOf
      <3>3. CASE MoveStep
        BY <3>3, MoveFacts
      <3> QED
        BY <1>1, <3>1, <3>2, <3>3, NextSorts
    <2> QED
      BY <1>1, <2>1 DEF Echo
  <1>5. Begins(sent', Echo(m)) => Begins(sent, Echo(m))'
    BY <1>4 DEF Begins
  <1>6. CASE sent' = sent
    <2>1. CASE m \in Answering
      <3>1. Answering = {m}
        BY <1>2, <2>1 DEF Answering
      <3> QED
        BY <1>1, <1>5, <1>6, <3>1 DEF BeginsInv
    <2>2. CASE m \notin Answering
      <3>1. Filter /\ next = m /\ calling
        <4>1. ~(UNCHANGED <<streaming_state, local_response>>)
          BY <2>2 DEF Answering
        <4>2. Filter
          <5>1. CASE CallStep
            BY <4>1, <5>1, CallFacts DEF CallOf
          <5>2. CASE MoveStep
            BY <4>1, <5>2, MoveFacts
          <5> QED
            BY <1>1, <5>1, <5>2, NextSorts
        <4>3. calling /\ (m # next => /\ streaming_state'[m] = streaming_state[m]
                                      /\ local_response'[m] = local_response[m])
          BY <4>2, FilterFacts
        <4> QED
          BY <2>2, <4>2, <4>3 DEF Answering
      <3>2. SampleCall /\ ~AnyCall
        <4>1. phase' = phase /\ calling'
          BY <3>1, FilterFacts
        <4>2. SampleCall
          <5>1. ~StartCallback
            BY <3>1, CallFacts DEF StartCallback, CallStep, CallOf
          <5>2. ~ReturnFromCallback /\ ~ThrowFromCallback
            BY <4>1 DEF ReturnFromCallback, ThrowFromCallback, EndCallback,
               EndDone, Throw
          <5>3. ~HostStep
            BY <3>1, HostCalm
          <5>4. ~RespondText
            BY <3>1 DEF RespondText, RespondBody, PosInv, RequestPhases,
               ResponsePhases
          <5> QED
            BY <5>1, <5>2, <5>3, <5>4 DEF SNext, SampleCall
        <4>3. ~AnyCall
          BY <1>1, <3>1 DEF AnyCall, Samples
        <4> QED
          BY <4>2, <4>3
      <3>3. ~Late
        BY <3>2 DEF SampleCall, StreamHead, StreamChunk, StreamFinish,
           SampleLocalResponse, Doing, EchoInv, Late
      <3>4. Served(m)
        BY <1>3, <3>3 DEF EchoInv, Hopeful
      <3>5. sent = <<>>
        BY <2>2, <3>1, <3>3, <3>4 DEF Served, Sent, Answering, PosInv, Late,
           RequestPhases, ResponsePhases
      <3> QED
        BY <1>5, <1>6, <3>5, EndsBegin
    <2> QED
      BY <2>1, <2>2
  <1>7. CASE sent' # sent
    <2>1. StreamChunk \/ AnyCall \/ RespondText
      BY <1>7 DEF SNext, StreamHead, StreamFinish, SampleLocalResponse,
         StartCallback, ReturnFromCallback, ThrowFromCallback, HostStep,
         sampleVars
    <2>2. /\ Len(wire') > Len(wire)
          /\ wire'[Len(wire')][1] \in {"body", "chunk"}
      BY <1>7, <2>1 DEF StreamChunk, AnyCall, RespondText, Writes
    <2>3. CASE StreamChunk
      <3>1. /\ streaming_state[next] = "HeadersSent" /\ todo # <<>> /\ calling
            /\ streaming_state' = streaming_state
            /\ sink_error' = sink_error /\ ~sink_error
        BY <2>2, <2>3 DEF StreamChunk, Doing, streamingWriteChunk, writeBody,
           sinkVars
      <3>2. next = m
        BY <1>2, <3>1 DEF Answering, TypeOK
      <3>3. phase \in {"request_headers", "request_body"}
        BY <3>1 DEF EchoInv
      <3>4. Filter /\ phase' = phase /\ calling' /\ next' = next
            /\ scope' = scope
        <4>1. Filter
          BY <2>3 DEF StreamChunk, Filter
        <4> QED
          BY <4>1, FilterFacts
      <3>5. Served(m)' /\ scope'[m] = "live"
        BY <1>3, <3>1, <3>2, <3>3, <3>4 DEF EchoInv, Hopeful, Late, ScopeInv
      <3>6. Streams(m)' /\ program[m] # "sample_filter"
        BY <1>1, <3>1, <3>2, <3>5 DEF Served, Answers, Keeps, Streamer
      <3>7. \/ sent' = <<>>
            \/ total = 0 /\ sent' = <<Preamble>>
            \/ total # 0 /\ consumed' >= 1 /\ sent' = Upto(consumed' - 1)
            \/ sent' = Part(consumed')
        <4>1. Got(m)' = consumed'
          BY <3>2, <3>4 DEF Got, Called
        <4>2. Part(consumed)' = Part(consumed') /\ Part(Got(m))' = Part(consumed')
          BY <1>4, <4>1 DEF Part
        <4> QED
          BY <1>4, <3>1, <3>2, <3>6, <4>2 DEF Streams
      <3>8. consumed' \in 0..total /\ (consumed' >= 1 => consumed' - 1 \in 0..total)
        <4>1. total \in Nat /\ consumed' \in 0..total
          BY <1>4 DEF TypeOK
        <4>2. \A n \in Nat : \A c \in 0..n : c >= 1 => c - 1 \in 0..n
          OBVIOUS
        <4> QED
          BY <4>1, <4>2, Zenon
      <3> QED
        BY <1>5, <3>6, <3>7, <3>8, PartBegins
    <2>4. CASE AnyCall
      <3>1. next \in Answering' /\ program[next] \notin Samples
        <4>1. streaming_state[next] = "HeadersSent" /\ next \in Modules
          <5>1. ~streamingSendHeaders
            <6>1. ASSUME NEW kind \in {"head", "chunked_head", "stray_headers"},
                         Put(kind, next)
                  PROVE  FALSE
              <7>1. next \in Origins /\ wire \in Seq(Kinds \X Origins)
                BY <2>4, OriginsAll DEF AnyCall, TypeOK
              <7>2. wire'[Len(wire')] = <<kind, next>>
                BY <6>1, <7>1, PutFacts, KindsAll
              <7> QED
                BY <2>2, <6>1, <7>2
            <6>2. wire' # wire
              BY <2>2 DEF TypeOK
            <6> QED
              BY <6>1, <6>2 DEF streamingSendHeaders, HttpSendHeaders,
                 LsapiSendHeaders
          <5>2. wire' # wire
            BY <2>2 DEF TypeOK
          <5> QED
            BY <2>4, <5>1, <5>2 DEF AnyCall, Filter, streamingWriteChunk,
               streamingFinish, sendLocalResponse, sinkVars, TypeOK
        <4>2. streaming_state'[next] # "Idle"
          BY <1>1, <4>1, AnsweringGrows
        <4> QED
          BY <2>4, <4>1, <4>2 DEF AnyCall, Answering, Samples
      <3> QED
        BY <1>1, <3>1
    <2>5. CASE RespondText
      <3>1. /\ phase = "respond_body" /\ phase' = "respond_finish"
            /\ UNCHANGED <<streaming_state, local_response, transport>>
        BY <2>5 DEF RespondText, RespondBody, Respond, filterVars, hostVars
      <3>2. local_response[m]
        <4>1. ~hasStreamingResponse \/ has_local_response
          BY <3>1 DEF WireInv, Fresh, Late
        <4>2. m \in Answering
          BY <3>1 DEF Answering
        <4> QED
          BY <1>2, <4>1, <4>2 DEF Answering, hasStreamingResponse, EchoInv
      <3>3. ~(transport = "lsapi" /\ sink_error')
        BY <2>2, <2>5 DEF RespondText, RespondBody, writeBody, sinkVars, TypeOK
      <3>4. Served(m)'
        BY <1>3, <3>1 DEF EchoInv, Hopeful, Late
      <3>5. sent' = Echo(m)
        BY <1>4, <3>1, <3>2, <3>3, <3>4 DEF Served, Sent
      <3> QED
        BY <1>5, <3>5, EndsBegin
    <2> QED
      BY <2>1, <2>3, <2>4, <2>5
  <1> QED
    BY <1>6, <1>7

\* What the samples have sent is always a beginning of the echo, whichever of
\* their calls fail (connection lost, a head the sink refuses).
THEOREM EchoHasNoHole == SSpec => []BeginsInv
  <1>1. SInit /\ FilterInv => BeginsInv
    <2> SUFFICES ASSUME SInit, FilterInv, NEW m \in Modules, Answering = {m}
                 PROVE  FALSE
      BY DEF BeginsInv
    <2> QED
      BY DEF SInit, Init, Answering
  <1>2. /\ FilterInv /\ FilterInv' /\ EchoInv /\ EchoInv' /\ BeginsInv
        /\ [SNext]_allVars
        => BeginsInv'
    <2>1. ASSUME BeginsInv, UNCHANGED allVars PROVE BeginsInv'
      <3>1. UNCHANGED <<streaming_state, local_response, total, program, sent>>
        BY <2>1 DEF allVars, vars, hostVars, filterVars, sampleVars
      <3> QED
        BY <2>1, <3>1 DEF BeginsInv, Answering, Echo, Begins
    <2> QED
      BY <2>1, BeginsStep
  <1> QED
    BY <1>1, <1>2, EchoInvariant, SamplesAreFilters, FilterInvariant, PTL
      DEF SSpec

\* A response that one sample (src/samples/) gives alone is never anything but a
\* beginning of its echo, without a hole, whichever call of the sink fails; and
\* it is the whole echo if the handler calls finish() (main.cpp:796-883) or, over
\* LSAPI, where the results of the sink are discarded (main.cpp:1144, 1176,
\* 1219, 1246), if no call of the sink has failed and the body was read.
THEOREM EchoIsComplete == SSpec => []EchoComplete
  <1>1. FilterInv /\ EchoInv /\ BeginsInv => EchoComplete
    <2> SUFFICES ASSUME FilterInv, EchoInv, Decided,
                        IF transport = "http" THEN outcome = "finished"
                                              ELSE Unharmed,
                        NEW m \in Modules, program[m] \in Samples,
                        Answering = {m}
                 PROVE  sent = Echo(m)
      BY DEF EchoComplete, BeginsInv
    <2>0. TypeOK /\ PosInv
      BY DEF FilterInv
    <2>1. phase = "teardown" /\ ~calling
      BY DEF Decided
    <2>2. streaming_state[m] # "Idle" \/ local_response[m]
      BY DEF Answering
    <2>3. scope[m] = "live"
      BY <2>0, <2>2 DEF EchoInv, Decided, TypeOK
    <2>4. transport = "lsapi" => ~sink_error
      BY DEF Unharmed
    <2>5. Served(m)
      BY <2>0 DEF EchoInv, Hopeful, Alone
    <2>6. CASE local_response[m]
      BY <2>1, <2>4, <2>5, <2>6 DEF Served, Sent
    <2>7. CASE ~local_response[m]
      <3>1. Streams(m) /\ program[m] = "send_recv_stream" /\ Left(m) = <<>>
        BY <2>1, <2>2, <2>3, <2>5, <2>7 DEF Served, Answers, Keeps, Streamer,
           Left
      <3>2. CASE streaming_state[m] = "Finished"
        BY <3>1, <3>2 DEF Streams
      <3>3. CASE streaming_state[m] = "HeadersSent"
        <4>1. transport = "lsapi"
          BY <2>0, <2>1, <2>5, <2>7, <3>3 DEF Served, Sent, TypeOK
        <4>2. sent = Part(consumed)
          <5>1. Got(m) = consumed
            BY <2>1 DEF Got
          <5> QED
            BY <2>4, <3>1, <3>3, <4>1, <5>1, StepsLeft DEF Streams
        <4>3. ~has_local_response
          BY <2>7 DEF EchoInv, Answering
        <4>4. EndOfStream
          BY <2>0, <4>1, <4>3 DEF Unharmed, EndOfStream, TypeOK
        <4> QED
          BY <2>0, <3>1, <4>2, <4>4, PartIs
      <3> QED
        BY <2>0, <2>2, <2>7, <3>2, <3>3 DEF TypeOK
    <2> QED
      BY <2>6, <2>7
  <1> QED
    BY <1>1, EchoHasNoHole, EchoInvariant, SamplesAreFilters, FilterInvariant,
       PTL
===============================================================================
