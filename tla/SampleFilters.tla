---------------------------- MODULE SampleFilters ----------------------------
(***************************************************************************)
(* The filters that come with the program, run by the filter chain:        *)
(* sample_filter, send_recv_all and send_recv_stream (src/samples/).  Each *)
(* module of the chain is one of them, or a filter that may do anything.   *)
(*                                                                         *)
(* A sample's callback is a list of the calls it makes to the host; its    *)
(* text is a sequence of pieces, numbers: 0 for the preamble, i for the    *)
(* i-th piece of the request body.  The host ignores the status a callback *)
(* returns (http_filter.h:143-240), so that is left out.                   *)
(***************************************************************************)
EXTENDS FilterChain

CONSTANT
  MaxOwn    \* bound: calls of the modules that may do anything

ASSUME SampleAssumption == MaxOwn \in Nat

VARIABLES
  program,               \* what each module is
  todo,                  \* the calls the running callback has yet to make
  text,                  \* preamble_, or header_section_ and body_accum_
  streaming_supported_,  \* of a send_recv_stream module
  sent,                  \* history: the text written to the connection
  own                    \* number of calls of the other modules (for the bound)

sampleVars == <<program, todo, text, streaming_supported_, sent, own>>
allVars == <<vars, sampleVars>>

Samples == {"sample_filter", "send_recv_all", "send_recv_stream"}

Preamble == 0
NoBody   == MaxChunks + 1  \* "(no body)"
Other    == MaxChunks + 2  \* text that is not a sample's

SInit ==
  /\ Init
  /\ program \in [Modules -> Samples \cup {"any"}]
  /\ todo = <<>>
  /\ text = [m \in Modules |-> <<Other>>]
  /\ streaming_supported_ = [m \in Modules |-> FALSE]
  /\ sent = <<>> /\ own = 0

----------------------------------------------------------------------------
(* The callbacks: what a sample does with its own data, and what is to do *)

Becomes(m, words, steps) ==
  /\ text' = [text EXCEPT ![m] = words]
  /\ todo' = steps

AtEnd(steps) == IF EndOfStream THEN steps ELSE <<>>

\* sample_filter.cpp: the response is ready when the headers are.
SampleContext_onRequestHeaders(m) ==
  /\ Becomes(m, <<Preamble>>, <<"local">>)
  /\ UNCHANGED streaming_supported_

\* send_recv_all.cpp: the preamble is built, and sent if there is no body.
SendRecvAll_onRequestHeaders(m) ==
  /\ Becomes(m, <<Preamble>> \o AtEnd(<<NoBody>>), AtEnd(<<"local">>))
  /\ UNCHANGED streaming_supported_

\* Each piece is kept; all are sent with the last one.  (A body that ends
\* without a piece, "(empty body)", does not come from this host.)
SendRecvAll_onRequestBody(m) ==
  /\ Becomes(m, Append(text[m], consumed), AtEnd(<<"local">>))
  /\ UNCHANGED streaming_supported_

\* send_recv_stream.cpp: the host, asked with an empty argument
\* (main.cpp:109-115), has the functions.
SendRecvStream_onRequestHeaders(m) ==
  /\ streaming_supported_' = [streaming_supported_ EXCEPT ![m] = TRUE]
  /\ Becomes(m, <<Preamble>>, AtEnd(<<"head", "preamble", "none", "finish">>))

\* streamPreamble() does nothing once the headers are sent.
streamPreamble(m) ==
  IF streaming_state[m] # "Idle" THEN <<>> ELSE <<"head", "preamble">>

\* A piece is passed on as it comes, or, if streaming has failed, kept and sent
\* with the others at the end.
SendRecvStream_onRequestBody(m) ==
  /\ UNCHANGED streaming_supported_
  /\ IF streaming_supported_[m]
     THEN Becomes(m, text[m],
                  streamPreamble(m) \o <<"piece">> \o AtEnd(<<"finish">>))
     ELSE Becomes(m, Append(text[m], consumed), AtEnd(<<"local">>))

\* The other callbacks log, or add headers to a response that is not theirs.
NothingToDo == UNCHANGED <<text, todo, streaming_supported_>>

\* The callback of module m for this phase starts.
StartSample(m) ==
  \/ /\ phase = "request_headers"
     /\ \/ /\ program[m] = "sample_filter"
           /\ SampleContext_onRequestHeaders(m)
        \/ /\ program[m] = "send_recv_all"
           /\ SendRecvAll_onRequestHeaders(m)
        \/ /\ program[m] = "send_recv_stream"
           /\ SendRecvStream_onRequestHeaders(m)
        \/ program[m] = "any" /\ NothingToDo
  \/ /\ phase = "request_body"
     /\ \/ program[m] = "send_recv_all" /\ SendRecvAll_onRequestBody(m)
        \/ program[m] = "send_recv_stream" /\ SendRecvStream_onRequestBody(m)
        \/ program[m] \in {"any", "sample_filter"} /\ NothingToDo
  \/ /\ phase \notin {"request_headers", "request_body"}
     /\ NothingToDo

----------------------------------------------------------------------------
(* The calls *)

\* The text written, if this step writes a piece of a body.
Writes(words) ==
  sent' = IF Len(wire') > Len(wire)
             /\ wire'[Len(wire')][1] \in {"body", "chunk"}
          THEN sent \o words ELSE sent

Doing(step) == calling /\ todo # <<>> /\ Head(todo) = step

\* streamPreamble(), the headers: none of them is one the HTTP sink refuses.
\* When they cannot be sent, the sample goes on without streaming: the piece at
\* hand, or "(no body)", is added to the preamble.
StreamHead ==
  /\ Doing("head")
  /\ streamingSendHeaders
  /\ transport = "http" => wire' # wire
  /\ IF streaming_state'[next] # "Idle"
     THEN /\ todo' = Tail(todo)
          /\ UNCHANGED <<text, streaming_supported_>>
     ELSE /\ streaming_supported_' =
               [streaming_supported_ EXCEPT ![next] = phase = "request_headers"]
          /\ Becomes(next,
                     Append(text[next], IF phase = "request_headers"
                                        THEN NoBody ELSE consumed),
                     AtEnd(<<"local">>))
  /\ UNCHANGED <<program, sent, own>>

Word == [preamble |-> Preamble, piece |-> consumed, none |-> NoBody]

\* writeResponseChunk(): a failure is only logged.  The preamble is freed.
StreamChunk ==
  \E step \in DOMAIN Word :
    /\ Doing(step)
    /\ streamingWriteChunk
    /\ Writes(<<Word[step]>>)
    /\ Becomes(next, IF step = "preamble" THEN <<>> ELSE text[next], Tail(todo))
    /\ UNCHANGED <<program, streaming_supported_, own>>

\* finishResponse(): its result is not looked at.
StreamFinish ==
  /\ Doing("finish")
  /\ streamingFinish
  /\ todo' = Tail(todo)
  /\ UNCHANGED <<program, text, streaming_supported_, sent, own>>

SampleLocalResponse ==
  /\ Doing("local")
  /\ sendLocalResponse
  /\ todo' = Tail(todo)
  /\ UNCHANGED <<program, text, streaming_supported_, sent, own>>

\* A module that may do anything does something.
AnyCall ==
  /\ calling /\ program[next] = "any"
  /\ own < MaxOwn /\ own' = own + 1
  /\ Filter
  /\ Writes(<<Other>>)
  /\ UNCHANGED <<program, todo, text, streaming_supported_>>

----------------------------------------------------------------------------
(* The host *)

\* build_local_response and the sinks write the text the filter left; the host's
\* own response has another.
HostText ==
  IF has_local_response THEN text[CHOOSE m \in Modules : local_response[m]]
                        ELSE <<Other>>

StartCallback ==
  /\ CreateScope \/ Callback \/ Done
  /\ StartSample(next')
  /\ UNCHANGED <<program, sent, own>>

ReturnFromCallback ==
  /\ todo = <<>>
  /\ EndCallback \/ EndDone
  /\ UNCHANGED sampleVars

ThrowFromCallback ==
  /\ Throw
  /\ todo' = <<>>
  /\ UNCHANGED <<program, text, streaming_supported_, sent, own>>

\* Only a text of a module that may do anything can be empty.
RespondText ==
  /\ RespondBody
  /\ HostText = <<Other>> \/ sinkVars' # sinkVars
       \/ (transport = "lsapi" /\ sink_error)
  /\ Writes(HostText)
  /\ UNCHANGED <<program, todo, text, streaming_supported_, own>>

HostStep ==
  /\ \/ Parse \/ CreateScopeFails \/ EndRequestHeaders \/ ReadBody
     \/ EndRequestBody \/ EndRequestTrailers \/ EndResponsePhase
     \/ EndResponseTrailers \/ RespondHead \/ RespondFinish \/ Returned
     \/ LSAPI_Finish_r
  /\ UNCHANGED sampleVars

SNext ==
  \/ StreamHead
  \/ StreamChunk
  \/ StreamFinish
  \/ SampleLocalResponse
  \/ AnyCall
  \/ StartCallback
  \/ ReturnFromCallback
  \/ ThrowFromCallback
  \/ RespondText
  \/ HostStep

SSpec == SInit /\ [][SNext]_allVars

----------------------------------------------------------------------------
(* Properties *)

Answering == {m \in Modules : streaming_state[m] # "Idle" \/ local_response[m]}

Echo(m) ==
  <<Preamble>> \o
    (IF program[m] = "sample_filter" THEN <<>>
     ELSE IF total = 0 THEN <<NoBody>> ELSE [i \in 1..total |-> i])

\* s is t, or what t begins with.
Begins(s, t) == Len(s) <= Len(t) /\ \A i \in 1..Len(s) : s[i] = t[i]

\* A sample that answers alone echoes the preamble and every piece of the body
\* once and in order, or "(no body)", however the body was cut, streamed or
\* kept, over HTTP and over LSAPI, with or without other modules in the chain.
\* Whichever of its calls the sample saw fail, and it goes on after most of
\* them: what was sent is always a beginning of the echo, without a hole; and it
\* is the whole echo if the request ends with finish() or, over LSAPI, where no
\* path reports an error, if no call of the sink failed and the body was read.
\* (Over LSAPI a refused head is such a failure: error_ stays, the body of the
\* local response that the sample sends instead is dropped, and the response
\* ends without it.)
EchoComplete ==
  \A m \in Modules :
    program[m] \in Samples /\ Answering = {m} =>
      /\ Begins(sent, Echo(m))
      /\ Decided /\ (IF transport = "http" THEN outcome = "finished"
                                           ELSE Unharmed) =>
           sent = Echo(m)
=============================================================================
