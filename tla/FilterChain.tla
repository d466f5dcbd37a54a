------------------------------ MODULE FilterChain ------------------------------
(***************************************************************************)
(* One request on its way through the WASM filters: handle_request         *)
(* (src/src/main.cpp:723-883) and lsapi_handle_request (main.cpp:          *)
(* 1075-1247), the filter chain they drive (src/src/http_filter.h), the    *)
(* streaming functions a filter may call from its callbacks                *)
(* (src/src/wasm_module_manager.h:304-536) and the two response sinks.     *)
(*                                                                         *)
(* A request is handled by one thread, so the only other actor is the      *)
(* filter: inside a callback it may call the streaming functions and       *)
(* sendLocalResponse in any order.  Bytes are left out; what is written    *)
(* to the connection is recorded as a sequence of pieces, each with the    *)
(* party it comes from.                                                    *)
(***************************************************************************)
EXTENDS Naturals, Sequences, FiniteSets

CONSTANTS
  N,          \* the number of loaded modules, called in the order 1..N
  MaxChunks,  \* bound: pieces in which the request body is read
  MaxCalls    \* bound: calls the filters make that have an effect

ASSUME ChainAssumption ==
  /\ N \in Nat
  /\ MaxChunks \in Nat
  /\ MaxCalls \in Nat

Modules == 1..N

VARIABLES
  transport,           \* "http" or "lsapi"
  phase,               \* where the request is
  next,                \* the module the loop of this phase has reached
  calling,             \* the callback of module next is running
  total,               \* pieces of the request body
  consumed,            \* body_consumed, in pieces
  scope,               \* scopes_: "none", "live" or "gone" for each module
  streaming_state,     \* streaming_state_ of each module's context
  local_response,      \* has_local_response_ of each module's context
  has_local_response,  \* HttpData::has_local_response
  sink_error,          \* error_ of the sink
  resp_header,         \* LSAPI_ST_RESP_HEADER: the header block is open
  resp_body,           \* LSAPI_ST_RESP_BODY: body bytes have been written
  fd_open,             \* LSAPI: m_fd is not -1
  wire,                \* the pieces written to the connection
  outcome,             \* HTTP: finish() or setError(); LSAPI: the handler has
                       \* returned, and nothing tells how
  seen,                \* history: the callbacks of each module
  calls                \* the number of effective calls so far

hostVars   == <<transport, total>>
posVars    == <<phase, next, calling>>
filterVars == <<streaming_state, local_response, calls>>
sinkVars   == <<sink_error, resp_header, resp_body, fd_open, wire>>

vars == <<hostVars, posVars, consumed, scope, filterVars, has_local_response,
          sinkVars, outcome, seen>>

RequestPhases == {"request_headers", "request_body", "request_trailers"}
ResponsePhases == {"response_headers", "response_body", "response_trailers"}
Phases ==
  RequestPhases \cup ResponsePhases \cup
  {"parse", "read_body", "respond_head", "respond_body", "respond_finish",
   "teardown", "finish_r", "ended"}

\* The order in which a module may see the phases.
Rank ==
  [p \in RequestPhases \cup ResponsePhases \cup {"teardown"} |->
     CASE p = "request_headers"   -> 1
       [] p = "request_body"      -> 2
       [] p = "request_trailers"  -> 3
       [] p = "response_headers"  -> 4
       [] p = "response_body"     -> 5
       [] p = "response_trailers" -> 6
       [] p = "teardown"          -> 7]

\* The parties that write to the connection: a module that streams, and
Local   == N + 1  \* the host, for sendLocalResponse
Default == N + 2  \* the host, for itself
Lsapi   == N + 3  \* LSAPI_Finish_r
Origins == 1..(N + 3)

Kinds == {"head", "chunked_head", "body", "chunk", "last", "stray_headers",
          "end"}

Init ==
  /\ transport \in {"http", "lsapi"}
  /\ total \in 0..MaxChunks
  /\ phase = IF transport = "http" THEN "parse" ELSE "request_headers"
  /\ next = 1 /\ calling = FALSE
  /\ consumed = 0
  /\ scope = [m \in Modules |-> "none"]
  /\ streaming_state = [m \in Modules |-> "Idle"]
  /\ local_response = [m \in Modules |-> FALSE]
  /\ has_local_response = FALSE
  /\ sink_error = FALSE
  /\ resp_header = TRUE /\ resp_body = FALSE /\ fd_open = TRUE
  /\ wire = <<>>
  /\ outcome = "none"
  /\ seen = [m \in Modules |-> <<>>]
  /\ calls = 0

----------------------------------------------------------------------------
(* The sinks *)

Put(kind, origin) == wire' = Append(wire, <<kind, origin>>)

\* http_response_sink.h:42-93 for a streaming response.  A Transfer-Encoding
\* other than chunked is refused.  The error_ of an earlier call is not
\* looked at.  (The host's own responses do not go through this sink, so its
\* non-streaming branch is never taken.)
HttpSendHeaders(origin, ok) ==
  /\ \/ /\ Put("chunked_head", origin) /\ ok = TRUE
        /\ UNCHANGED sink_error
     \/ /\ sink_error' = TRUE /\ ok = FALSE
        /\ UNCHANGED wire
  /\ UNCHANGED <<resp_header, resp_body, fd_open>>

\* lsapi_response_sink.h:43-78.  LSAPI_AppendRespHeader2_r refuses headers
\* once body bytes were written (lsapilib.c:2512), or when there are too many
\* or too long ones; "named" tells whether there is a header to append.
\* LSAPI_FinalizeRespHeaders_r does nothing when the block is already closed
\* (lsapilib.c:2483).  A call after that sends no head, but it is not without
\* effect: the status and the number of headers in m_respHeader change
\* (lsapilib.h:184, lsapilib.c:2556-2557), to which the head that was queued
\* refers until it is flushed.  It is recorded as "stray_headers".
LsapiSendHeaders(origin, named, ok) ==
  /\ \/ /\ resp_header /\ named /\ ok = FALSE
        /\ sink_error' = TRUE
        /\ UNCHANGED <<wire, resp_header>>
     \/ /\ resp_header /\ ok = TRUE
        /\ Put("head", origin)
        /\ resp_header' = FALSE
        /\ UNCHANGED sink_error
     \/ /\ ~resp_header
        /\ Put("stray_headers", origin)
        /\ UNCHANGED resp_header
        /\ \/ named /\ ok = FALSE /\ sink_error' = TRUE
           \/ (named => ~resp_body) /\ ok = TRUE /\ UNCHANGED sink_error
  /\ UNCHANGED <<resp_body, fd_open>>

\* Faulty variant of writeBody: a write that fails is not recorded in error_.
writeBodyUnrecorded(kind, origin) ==
  \/ /\ sink_error
     /\ UNCHANGED sinkVars
  \/ /\ ~sink_error /\ transport = "http"
     /\ Put(kind, origin)
     /\ UNCHANGED <<sink_error, resp_header, resp_body, fd_open>>
  \/ /\ ~sink_error /\ transport = "lsapi" /\ fd_open
     /\ Put("body", origin)
     /\ resp_body' = TRUE
     /\ UNCHANGED <<sink_error, resp_header, fd_open>>
  \/ /\ ~sink_error /\ transport = "lsapi"
     /\ fd_open' = FALSE
     /\ UNCHANGED <<sink_error, resp_header, resp_body, wire>>

\* http_response_sink.h:95-116 (a chunk) and lsapi_response_sink.h:80-92.
\* LSAPI_Write_r fails when the connection is closed, and closes it when the
\* buffered bytes cannot be written (lsapilib.c:1850-1937, 2118-2124).
writeBody(kind, origin) ==
  \/ /\ sink_error
     /\ UNCHANGED sinkVars
  \/ /\ ~sink_error /\ transport = "http"
     /\ Put(kind, origin)
     /\ UNCHANGED <<sink_error, resp_header, resp_body, fd_open>>
  \/ /\ ~sink_error /\ transport = "lsapi" /\ fd_open
     /\ Put("body", origin)
     /\ resp_body' = TRUE
     /\ UNCHANGED <<sink_error, resp_header, fd_open>>
  \/ /\ ~sink_error /\ transport = "lsapi"
     /\ sink_error' = TRUE
     /\ fd_open' = FALSE
     /\ UNCHANGED <<resp_header, resp_body, wire>>

\* http_response_sink.h:118-126 and lsapi_response_sink.h:94-103.
finishBody(origin, ok) ==
  \/ /\ sink_error /\ ok = FALSE
     /\ UNCHANGED sinkVars
  \/ /\ ~sink_error /\ transport = "http" /\ ok = TRUE
     /\ Put("last", origin)
     /\ UNCHANGED <<sink_error, resp_header, resp_body, fd_open>>
  \/ /\ ~sink_error /\ transport = "lsapi" /\ ok = TRUE
     /\ UNCHANGED sinkVars
  \/ /\ ~sink_error /\ transport = "lsapi" /\ ok = FALSE
     /\ sink_error' = TRUE
     /\ fd_open' = FALSE
     /\ UNCHANGED <<resp_header, resp_body, wire>>

----------------------------------------------------------------------------
(* What a filter may do in a callback.  A call in the wrong streaming state, *)
(* a probe or a malformed argument only returns an error code.               *)

InCallback ==
  /\ calling
  /\ calls < MaxCalls
  /\ calls' = calls + 1
  /\ UNCHANGED <<hostVars, posVars, consumed, scope, has_local_response,
                 outcome, seen>>

\* lswasm_send_response_headers (main.cpp:102-128), streamingSendHeaders
\* (wasm_module_manager.h:470-489).
streamingSendHeaders ==
  /\ InCallback
  /\ streaming_state[next] = "Idle"
  /\ \E ok \in BOOLEAN, named \in BOOLEAN :
       /\ \/ transport = "http" /\ HttpSendHeaders(next, ok)
          \/ transport = "lsapi" /\ LsapiSendHeaders(next, named, ok)
       /\ streaming_state' = [streaming_state EXCEPT ![next] =
                                IF ok THEN "HeadersSent" ELSE "Idle"]
  /\ UNCHANGED local_response

\* lswasm_write_response_chunk (main.cpp:132-139), streamingWriteChunk
\* (wasm_module_manager.h:493-510).
streamingWriteChunk ==
  /\ InCallback
  /\ streaming_state[next] = "HeadersSent"
  /\ writeBody("chunk", next)
  /\ UNCHANGED <<streaming_state, local_response>>

\* lswasm_finish_response (main.cpp:143-150), streamingFinish
\* (wasm_module_manager.h:513-530).
streamingFinish ==
  /\ InCallback
  /\ streaming_state[next] = "HeadersSent"
  /\ \E ok \in BOOLEAN :
       /\ finishBody(next, ok)
       /\ streaming_state' = [streaming_state EXCEPT ![next] =
                                IF ok THEN "Finished" ELSE "HeadersSent"]
  /\ UNCHANGED local_response

\* sendLocalResponse (wasm_module_manager.h:304-321) is only recorded; a
\* second one replaces the first.
sendLocalResponse ==
  /\ InCallback
  /\ ~local_response[next]
  /\ local_response' = [local_response EXCEPT ![next] = TRUE]
  /\ UNCHANGED <<streaming_state, sinkVars>>

----------------------------------------------------------------------------
(* The filter chain, http_filter.h *)

\* A step that only moves on.
Go(to) ==
  /\ phase' = to
  /\ next' = 1
  /\ UNCHANGED <<hostVars, scope, filterVars, has_local_response, sinkVars,
                 seen>>

\* The end_of_stream argument of onRequestHeaders and onRequestBody,
\* main.cpp:743-745, 765, 792, 1133-1136, 1163; the faulty variant is off by
\* one.
EndOfStreamLate == consumed > total
EndOfStream == consumed >= total

\* The callback of module m starts.
Call(m) ==
  /\ next' = m
  /\ calling' = TRUE
  /\ seen' = [seen EXCEPT ![m] = Append(@, <<phase, EndOfStream>>)]
  /\ UNCHANGED <<hostVars, phase, consumed, filterVars, has_local_response,
                 sinkVars, outcome>>

\* http_filter.h:131-147, WasmModuleManager::createRequestScope and
\* RequestScope::init: each module gets a stream context, and its
\* onRequestHeaders is called at once.
CreateScope ==
  /\ phase = "request_headers" /\ ~calling
  /\ ~has_local_response /\ next <= N
  /\ scope' = [scope EXCEPT ![next] = "live"]
  /\ Call(next)

\* http_filter.h:134-137: the scope cannot be created (the thread's VM has
\* failed, for example); the loop goes on with the next module.
CreateScopeFails ==
  /\ phase = "request_headers" /\ ~calling
  /\ ~has_local_response /\ next <= N
  /\ next' = next + 1
  /\ UNCHANGED <<hostVars, phase, calling, consumed, scope, filterVars,
                 has_local_response, sinkVars, outcome, seen>>

\* The loops of the later phases call the modules whose scope exists.
CallbackPhases == {"request_body", "request_trailers"} \cup ResponsePhases

\* The loops stop at a local response, http_filter.h:166, 183, 195, 211, 229;
\* the faulty variant does not look.
StoppedNever == FALSE
Stopped == has_local_response

\* http_filter.h:161-240.
Callback ==
  /\ phase \in CallbackPhases /\ ~calling
  /\ ~Stopped
  /\ \E m \in next..N :
       /\ scope[m] = "live"
       /\ \A k \in next..(m - 1) : scope[k] # "live"
       /\ Call(m)
  /\ UNCHANGED scope

\* The callback returns; checkLocalResponse, http_filter.h:335-348.
EndCallback ==
  /\ calling /\ phase # "teardown"
  /\ calling' = FALSE
  /\ next' = next + 1
  /\ has_local_response' = (has_local_response \/ local_response[next])
  /\ UNCHANGED <<hostVars, phase, consumed, scope, filterVars, sinkVars,
                 outcome, seen>>

\* An exception leaves the callback; the task of main.cpp:503-512 turns it
\* into setError() once the contexts are destroyed.  The LSAPI loop has no
\* handler: there the process ends.
Throw ==
  /\ calling /\ phase # "teardown"
  /\ transport = "http"
  /\ calling' = FALSE
  /\ outcome' = "error"
  /\ phase' = "teardown"
  /\ UNCHANGED <<hostVars, next, consumed, scope, filterVars,
                 has_local_response, sinkVars, seen>>

\* The loop over the modules is over.
PhaseOver ==
  /\ ~calling
  /\ \/ Stopped
     \/ phase = "request_headers" /\ next > N
     \/ phase \in CallbackPhases /\ \A m \in next..N : scope[m] # "live"

\* http_filter.h:77-93.
hasStreamingResponse == \E m \in Modules : streaming_state[m] # "Idle"
isStreamingFinished == \E m \in Modules : streaming_state[m] = "Finished"

----------------------------------------------------------------------------
(* handle_request and lsapi_handle_request *)

\* The handler returns; the contexts are destroyed on the way out.  The LSAPI
\* one returns nothing and has nobody to tell: an error is only logged.
Return(how) ==
  /\ outcome' = IF transport = "http" THEN how ELSE "returned"
  /\ Go("teardown")
  /\ UNCHANGED <<calling, consumed>>

Continue(to) == Go(to) /\ UNCHANGED <<calling, consumed, outcome>>

\* main.cpp:726-729: a request that cannot be parsed.
Parse ==
  /\ phase = "parse"
  /\ \/ Continue("request_headers")
     \/ /\ outcome' = "error"
        /\ Go("ended")
        /\ UNCHANGED <<calling, consumed>>

\* main.cpp:747-754 and 1138-1146.
EndRequestHeaders ==
  /\ phase = "request_headers" /\ PhaseOver
  /\ Continue(IF has_local_response THEN "respond_head" ELSE "read_body")

\* main.cpp:756-798 and 1148-1169: the loop condition, and a read.  A read
\* that fails ends the request: setError() in HTTP, a return in LSAPI.  The
\* faulty variant reads past the end.
ReadBodyPastEnd ==
  /\ phase = "read_body"
  /\ \/ /\ consumed < total /\ ~has_local_response
        /\ consumed' = consumed + 2
        /\ Go("request_body")
        /\ UNCHANGED <<calling, outcome>>
     \/ /\ consumed >= total /\ ~has_local_response
        /\ Continue("request_trailers")
     \/ /\ has_local_response
        /\ Continue("respond_head")
ReadBody ==
  /\ phase = "read_body"
  /\ \/ /\ consumed < total /\ ~has_local_response
        /\ consumed' = consumed + 1
        /\ Go("request_body")
        /\ UNCHANGED <<calling, outcome>>
     \/ /\ consumed < total /\ ~has_local_response
        /\ Return("error")
     \/ /\ consumed >= total /\ ~has_local_response
        /\ Continue("request_trailers")
     \/ /\ has_local_response
        /\ Continue("respond_head")

EndRequestBody ==
  /\ phase = "request_body" /\ PhaseOver
  /\ Continue("read_body")

\* main.cpp:796-831 and 1167-1201: a local response, a streaming response
\* that must be finished by now, or the host's own response.  The faulty
\* variant takes an unfinished streaming response for a finished one.
EndRequestTrailersUnfinished ==
  /\ phase = "request_trailers" /\ PhaseOver
  /\ \/ /\ has_local_response
        /\ Continue("respond_head")
     \/ /\ ~has_local_response /\ hasStreamingResponse
        /\ Return("finished")
     \/ /\ ~has_local_response /\ ~hasStreamingResponse
        /\ Continue("response_headers")
EndRequestTrailers ==
  /\ phase = "request_trailers" /\ PhaseOver
  /\ \/ /\ has_local_response
        /\ Continue("respond_head")
     \/ /\ ~has_local_response /\ hasStreamingResponse
        /\ Return(IF isStreamingFinished THEN "finished" ELSE "error")
     \/ /\ ~has_local_response /\ ~hasStreamingResponse
        /\ Continue("response_headers")

\* main.cpp:836-838 and 1205-1207: the three phases are always gone through.
EndResponsePhase ==
  /\ phase \in {"response_headers", "response_body"} /\ PhaseOver
  /\ Continue(IF phase = "response_headers" THEN "response_body"
                                            ELSE "response_trailers")

\* main.cpp:840-863 and 1209-1231.
EndResponseTrailers ==
  /\ phase = "response_trailers" /\ PhaseOver
  /\ \/ /\ hasStreamingResponse
        /\ Return(IF isStreamingFinished /\ ~has_local_response
                  THEN "finished" ELSE "error")
     \/ /\ ~hasStreamingResponse
        /\ Continue("respond_head")

\* The host's response: the local one or the default one.
Origin == IF has_local_response THEN Local ELSE Default

Respond(to) ==
  /\ phase' = to
  /\ UNCHANGED <<hostVars, next, calling, consumed, scope, filterVars,
                 has_local_response, seen>>

\* The head, main.cpp:751, 803, 848, 877 (written past the sink) and 1140,
\* 1172, 1215, 1244.  A local response may have no headers of its own, the
\* default response always has some.
RespondHead ==
  /\ phase = "respond_head"
  /\ \/ /\ transport = "http"
        /\ Put("head", Origin)
        /\ UNCHANGED <<sink_error, resp_header, resp_body, fd_open>>
     \/ /\ transport = "lsapi"
        /\ \E ok \in BOOLEAN, named \in BOOLEAN :
             /\ Origin = Default => named
             /\ LsapiSendHeaders(Origin, named, ok)
  /\ Respond("respond_body")
  /\ UNCHANGED outcome

\* The body, which may be empty; the result of sink.writeBody is ignored.
RespondBody ==
  /\ phase = "respond_body"
  /\ \/ UNCHANGED sinkVars
     \/ /\ transport = "http"
        /\ Put("body", Origin)
        /\ UNCHANGED <<sink_error, resp_header, resp_body, fd_open>>
     \/ transport = "lsapi" /\ writeBody("body", Origin)
  /\ Respond("respond_finish")
  /\ UNCHANGED outcome

\* conn->finish(), or sink.finishBody(), whose result is ignored too
\* (main.cpp:1144, 1176, 1219, 1246).
RespondFinish ==
  /\ phase = "respond_finish"
  /\ \/ /\ transport = "http"
        /\ outcome' = "finished"
        /\ UNCHANGED sinkVars
     \/ /\ transport = "lsapi"
        /\ outcome' = "returned"
        /\ \E ok \in BOOLEAN : finishBody(Origin, ok)
  /\ phase' = "teardown"
  /\ next' = 1
  /\ UNCHANGED <<hostVars, calling, consumed, scope, filterVars,
                 has_local_response, seen>>

----------------------------------------------------------------------------
(* The end of the request *)

\* http_filter.h:97-102, wasm_module_manager.h:928-933: ~RequestScope calls
\* onDone and onDelete, and the filter may use the streaming functions there.
Done ==
  /\ phase = "teardown" /\ ~calling
  /\ \E m \in Modules : scope[m] = "live" /\ Call(m)
  /\ UNCHANGED scope

\* The scope is gone; moving it into scopes_ left nothing behind to destroy
\* (wasm_module_manager.h:939-944).
EndDone ==
  /\ phase = "teardown" /\ calling
  /\ calling' = FALSE
  /\ scope' = [scope EXCEPT ![next] = "gone"]
  /\ UNCHANGED <<hostVars, phase, next, consumed, filterVars,
                 has_local_response, sinkVars, outcome, seen>>

Returned ==
  /\ phase = "teardown" /\ ~calling
  /\ \A m \in Modules : scope[m] # "live"
  /\ Continue(IF transport = "http" THEN "ended" ELSE "finish_r")

\* LSAPI_Finish_r (lsapilib.c:1610-1637), called by run_lsapi_loop after
\* every request (main.cpp:1290): an open header block is closed, and the
\* end of the response is sent.  The faulty variant forgets the headers.
FinishWithoutHeaders ==
  /\ phase = "finish_r"
  /\ \/ /\ fd_open
        /\ Put("end", Lsapi)
        /\ UNCHANGED resp_header
     \/ /\ ~fd_open
        /\ UNCHANGED <<wire, resp_header>>
  /\ phase' = "ended"
  /\ UNCHANGED <<hostVars, next, calling, consumed, scope, filterVars,
                 has_local_response, sink_error, resp_body, fd_open, outcome,
                 seen>>
LSAPI_Finish_r ==
  /\ phase = "finish_r"
  /\ \/ /\ fd_open
        /\ wire' = wire \o (IF resp_header THEN << <<"head", Lsapi>> >>
                                           ELSE <<>>)
                        \o << <<"end", Lsapi>> >>
        /\ resp_header' = FALSE
     \/ /\ ~fd_open
        /\ UNCHANGED <<wire, resp_header>>
  /\ phase' = "ended"
  /\ UNCHANGED <<hostVars, next, calling, consumed, scope, filterVars,
                 has_local_response, sink_error, resp_body, fd_open, outcome,
                 seen>>

----------------------------------------------------------------------------

Filter ==
  \/ streamingSendHeaders \/ streamingWriteChunk \/ streamingFinish
  \/ sendLocalResponse

Host ==
  \/ Parse \/ CreateScope \/ CreateScopeFails \/ Callback \/ EndCallback
  \/ Throw
  \/ EndRequestHeaders \/ ReadBody \/ EndRequestBody \/ EndRequestTrailers
  \/ EndResponsePhase \/ EndResponseTrailers
  \/ RespondHead \/ RespondBody \/ RespondFinish
  \/ Done \/ EndDone \/ Returned \/ LSAPI_Finish_r

Next == Filter \/ Host

SafeSpec == Init /\ [][Next]_vars

----------------------------------------------------------------------------
(* Properties *)

\* Every variable has its type, and no more of the body is consumed than the
\* request has.
TypeOK ==
  /\ transport \in {"http", "lsapi"}
  /\ phase \in Phases
  /\ next \in 1..(N + 1)
  /\ calling \in BOOLEAN
  /\ calling => next \in Modules
  /\ total \in Nat
  /\ consumed \in 0..total
  /\ scope \in [Modules -> {"none", "live", "gone"}]
  /\ streaming_state \in [Modules -> {"Idle", "HeadersSent", "Finished"}]
  /\ local_response \in [Modules -> BOOLEAN]
  /\ has_local_response \in BOOLEAN
  /\ sink_error \in BOOLEAN
  /\ resp_header \in BOOLEAN
  /\ resp_body \in BOOLEAN
  /\ fd_open \in BOOLEAN
  /\ wire \in Seq(Kinds \X Origins)
  /\ outcome \in {"none", "finished", "error", "returned"}
  /\ seen \in [Modules -> Seq((DOMAIN Rank) \X BOOLEAN)]
  /\ calls \in Nat

\* Each module sees its request in order: first the headers, then the pieces
\* of the body, the trailers, the response phases and, once, onDone.  Exactly
\* the last piece of the body (or the headers of a request without one) is
\* marked end_of_stream, and nothing after the body is seen before that mark.
\* A module that was given the headers is destroyed by the end.
CallbackOrder ==
  \A m \in Modules :
    LET s == seen[m] IN
    /\ s # <<>> => s[1][1] = "request_headers"
    /\ \A i \in 1..(Len(s) - 1) :
         \/ Rank[s[i][1]] < Rank[s[i + 1][1]]
         \/ s[i][1] = "request_body" /\ s[i + 1][1] = "request_body"
    /\ \A i \in 1..Len(s) :
         /\ Rank[s[i][1]] <= 2 /\ s[i][2] =>
              \A j \in (i + 1)..Len(s) : s[j][1] # "request_body"
         /\ Rank[s[i][1]] \in 3..6 =>
              \E j \in 1..(i - 1) : Rank[s[j][1]] <= 2 /\ s[j][2]
    /\ phase = "ended" /\ s # <<>> => s[Len(s)][1] = "teardown"

\* A filter that sends a local response is the last one called: whatever the
\* phase, no other module is asked about a request that is answered.
LocalStopsChain ==
  \A m, k \in Modules :
    m < k /\ local_response[m] /\ scope[m] = "live" /\ scope[k] = "live" /\
    phase \notin {"teardown", "finish_r", "ended"} /\
    ~(calling /\ next = m) => Len(seen[k]) < Len(seen[m])

\* The pieces of one complete response of the given party.
Complete(w, origin) ==
  \/ /\ origin \in Modules /\ transport = "http"
     /\ Len(w) >= 2
     /\ w[1] = <<"chunked_head", origin>>
     /\ w[Len(w)] = <<"last", origin>>
     /\ \A i \in 2..(Len(w) - 1) : w[i] = <<"chunk", origin>>
  \/ /\ ~(origin \in Modules /\ transport = "http")
     /\ Len(w) >= 1
     /\ w[1] = <<"head", origin>>
     /\ \A i \in 2..Len(w) : w[i] = <<"body", origin>>

Streamed == {m \in Modules : streaming_state[m] # "Idle"}

\* The handler has decided how the request ends and no onDone has run yet.
Decided ==
  phase = "teardown" /\ ~calling /\ \A m \in Modules : scope[m] # "gone"

\* The response is to be whole.  Over HTTP the handler says so, with finish().
\* Over LSAPI it says nothing, and LSAPI_Finish_r ends the response on every
\* path; there it may be cut, and yet end like a whole one, if a call of the sink
\* failed, the body of the request could not be read, or a filter did not finish
\* what it streamed.  (When it was a write that failed the connection is closed,
\* and no end is sent.)
Unharmed == ~sink_error /\ (has_local_response \/ consumed = total)
Succeeds ==
  IF transport = "http" THEN outcome = "finished"
  ELSE /\ Unharmed
       /\ has_local_response \/ ~hasStreamingResponse \/ isStreamingFinished

\* A request that ends as a success was answered by exactly the response that
\* was asked for: the one a filter streamed, complete with its terminator;
\* the local one; or the host's own, if no filter answered.  This is claimed
\* of filters that answer once: one module streams, or a local response is
\* sent.
AnsweredOnce ==
  Decided /\ Succeeds =>
    \/ Streamed = {} /\ Complete(wire, Origin)
    \/ \E m \in Modules :
         Streamed = {m} /\ (Complete(wire, m) \/ has_local_response)
    \/ Cardinality(Streamed) > 1

\* Whatever the handler did, what the web server gets over LSAPI is one
\* response: a head, body pieces and the end, unless the connection is
\* broken; between them a filter that answers twice may have changed the fields
\* of the head, but has added no second one.
LsapiOneResponse ==
  phase = "ended" /\ transport = "lsapi" /\ fd_open =>
    /\ Len(wire) >= 2
    /\ wire[1][1] = "head"
    /\ wire[Len(wire)] = <<"end", Lsapi>>
    /\ \A i \in 2..(Len(wire) - 1) : wire[i][1] \in {"body", "stray_headers"}

(* What the code's own comments say, and the model refutes *)

\* "sendHeaders() - exactly once" (response_sink.h:44): a response has one
\* head.
HeadOnce ==
  \A i, j \in 1..Len(wire) :
    wire[i][1] \in {"head", "chunked_head", "stray_headers"} /\
    wire[j][1] \in {"head", "chunked_head", "stray_headers"} => i = j
=============================================================================
