-------------------------- MODULE RequestPipeline --------------------------
(***************************************************************************)
(* One HTTP request through the layers of main.create_app: observation     *)
(* around cache control around authentication around the body limit around *)
(* the route.  The embeddings and responses routes are modelled here with  *)
(* what they convert, the chat route by what ChatRelay may answer.         *)
(***************************************************************************)
EXTENDS Routing, Embeddings, Responses

CONSTANTS
    BodyLimit,      \* MAX_REQUEST_BODY_BYTES
    MaxParts,       \* bound: pieces of a streamed answer
    RoutingDocuments,   \* what may be in routing.yaml
    Bodies,         \* what clients may ask, by path
    NativeBodies,   \* what may come back from /api/embed
    ChatBodies      \* what may come back from a chat provider

ASSUME PipelineAssumption ==
    /\ BodyLimit \in Nat \ {0}
    /\ MaxParts \in Nat
    /\ \A document \in RoutingDocuments : IsJson(document)
    /\ \A p \in DOMAIN Bodies : \A sent \in Bodies[p] : IsJson(sent)
    /\ \A native \in NativeBodies : IsJson(native)
    /\ \A chat \in ChatBodies : IsJson(chat)

VARIABLES
    routing,        \* the document the gateway was started with
    path,
    request,        \* the JSON the client sends
    upstream,       \* what came back from the provider that made the answer
    relayed,        \* the messages handed to the relay
    phase,      \* the await the request is in
    body,       \* bytes handed to the route
    provider,   \* whose answer it is, as observed
    failure,    \* local_failure_reason, if any
    reply,      \* the response being sent
    started,    \* response_started in ObservabilityMiddleware
    status, completed,  \* what it has counted
    wire,       \* everything sent to the client
    records     \* what was logged

observed == <<provider, failure>>
asked == <<routing, path, request>>
came == <<upstream, relayed>>
vars == <<asked, came, phase, body, observed, reply, started, status, completed, wire, records>>

Paths == {"docs", "health", "embeddings", "chat", "responses", "unknown", "outside"}
Limited == {"embeddings", "chat", "responses", "unknown"}        \* below /v1/
Protected == Limited \cup {"health"}
NoStatus == 0
NoReply == [status |-> NoStatus, streamed |-> FALSE, internal |-> FALSE, content |-> Null]

CacheControl(p) ==
    CASE p \in Protected -> "no-store"
      [] p = "docs"      -> "public"
      [] OTHER           -> "none"

Phases == {"new", "authenticating", "limiting", "reading", "handling", "embedding",
           "called", "converting", "replying", "sending", "raising", "leaving", "done"}

\* Among the types: a route never gets more than the limit, whatever length was
\* declared.
TypeOK ==
    /\ path \in Paths
    /\ phase \in Phases
    /\ relayed # <<>> => path = "responses"
    /\ upstream # Null => path \in {"embeddings", "responses"}
    /\ body \in 0 .. BodyLimit
    /\ provider \in {"none", "local", "openai"}
    /\ failure \in {"none", "local_deadline", "local_unreachable", "local_invalid_body"}
    /\ reply.status \in Nat
    /\ reply.streamed \in BOOLEAN
    /\ reply.internal \in BOOLEAN
    /\ started \in BOOLEAN
    /\ status \in Nat
    /\ completed \in BOOLEAN
    /\ Len(wire) <= MaxParts + 2
    /\ Len(records) <= 1

Init ==
    /\ routing \in {d \in RoutingDocuments : Builds(d)}
    /\ path \in Paths
    /\ request \in IF path \in DOMAIN Bodies THEN Bodies[path] ELSE {Null}
    /\ upstream = Null
    /\ relayed = <<>>
    /\ phase = "new"
    /\ body = 0
    /\ provider = "none"
    /\ failure = "none"
    /\ reply = NoReply
    /\ started = FALSE
    /\ status = NoStatus
    /\ completed = FALSE
    /\ wire = <<>>
    /\ records = <<>>

\* The route, or a layer in its place, answers with this status.
AnswerWith(s, c) ==
    /\ phase' = "replying"
    /\ reply' = [status |-> s, streamed |-> FALSE, internal |-> FALSE, content |-> c]

Answer(s) == AnswerWith(s, Null)

Continue(p) == phase' = p /\ UNCHANGED reply

sending == <<started, status, completed, wire, records>>

-----------------------------------------------------------------------------
\* The layers before the route.

\* Observation begins; what needs no key goes straight to its route.
Enter ==
    /\ phase = "new"
    /\ Continue(IF path \in Protected THEN "authenticating" ELSE "handling")
    /\ UNCHANGED <<asked, came, body, observed, sending>>

\* AuthenticationMiddleware: no key or no such key, no answer from the store,
\* or a caller the store knows.
Authenticate ==
    /\ phase = "authenticating"
    /\ \/ \E s \in {401, 503} : Answer(s)
       \/ Continue(IF path \in Limited THEN "limiting" ELSE "handling")
    /\ UNCHANGED <<asked, came, body, observed, sending>>

\* RequestBodyLimitMiddleware: the declared length is refused, or absent or
\* permitted; only the chat and embeddings routes go on to read the body.
Limit ==
    /\ phase = "limiting"
    /\ \/ \E s \in {400, 413} : Answer(s)
       \/ Continue(IF path = "unknown" THEN "handling" ELSE "reading")
    /\ UNCHANGED <<asked, came, body, observed, sending>>

\* Mistake: what counts is the size of each piece.
OverLimitPiece(n) == n > BodyLimit

OverLimit(n) == body + n > BodyLimit

\* limited_receive: another piece of the body, whatever length was declared.
Receive(n) ==
    /\ phase = "reading"
    /\ IF OverLimit(n)
       THEN Answer(413) /\ UNCHANGED body
       ELSE body' = body + n /\ Continue("reading")
    /\ UNCHANGED <<asked, came, observed, sending>>

\* main._read_request_body: the body is complete, or the total budget spent
\* before it was.
Received ==
    /\ phase = "reading"
    /\ \/ Continue(IF path = "embeddings" THEN "embedding" ELSE "handling")
       \/ Answer(504)
    /\ UNCHANGED <<asked, came, body, observed, sending>>

\* The client goes away in mid-body (starlette's ClientDisconnect), which is
\* not an error.
Disconnect ==
    /\ phase = "reading"
    /\ Continue("leaving")
    /\ UNCHANGED <<asked, came, body, observed, sending>>

-----------------------------------------------------------------------------
\* The routes.

\* Everything but embeddings and responses: what the route answers, and for the
\* chat route by whom.  An answer of its own making has no provider.
Handle ==
    /\ phase = "handling"
    /\ path # "responses"
    /\ \/ /\ path = "chat"
          /\ provider' \in {"local", "openai"}
          /\ \E s \in {200, 400}, b \in BOOLEAN :
                reply' = [status |-> s, streamed |-> b, internal |-> FALSE, content |-> Null]
          /\ phase' = "replying"
       \/ /\ path = "chat"
          /\ \E s \in {400, 502, 504} : Answer(s)
          /\ UNCHANGED provider
       \/ /\ path # "chat"
          /\ \E s \in IF path \in {"docs", "health"} THEN {200, 405} ELSE {404} : Answer(s)
          /\ UNCHANGED provider
    /\ UNCHANGED <<asked, came, body, failure, sending>>

\* create_embeddings before the call: the contract of the request, whose route
\* is looked up as part of it; then no time may be left.
RefuseEmbedding ==
    /\ phase = "embedding"
    /\ IF /\ ValidEmbeddingRequest(request)
          /\ Resolve(routing, "embeddings", "embed") # Null
       THEN Answer(504) /\ failure' = "local_deadline"
       ELSE Answer(400) /\ UNCHANGED failure
    /\ UNCHANGED <<asked, came, body, provider, sending>>

CallEmbedding ==
    /\ phase = "embedding"
    /\ ValidEmbeddingRequest(request)
    /\ Resolve(routing, "embeddings", "embed") # Null
    /\ Continue("called")
    /\ UNCHANGED <<asked, came, body, observed, sending>>

\* No answer: the deadline, or no connection.
NotEmbedded ==
    /\ phase = "called"
    /\ \/ Answer(504) /\ failure' = "local_deadline"
       \/ Answer(502) /\ failure' = "local_unreachable"
    /\ UNCHANGED <<asked, came, body, provider, sending>>

\* is_relayable_error_status
Relayable(s) == 400 <= s /\ s < 600

ValidNative(native) ==
    IsValidEmbeddingBody(native, ExpectedVectorCount(Get(request, "input")),
                         Resolve(routing, "embeddings", "embed"))

Unusable(s, native) == IF s = 200 THEN ~ValidNative(native) ELSE ~Relayable(s)

\* Mistake: the provider is noted as soon as there is an answer.
EmbeddedUnchecked(s, native) ==
    /\ phase = "called"
    /\ upstream' = native
    /\ provider' = "local"
    /\ \/ s = 200 /\ ValidNative(native)
          /\ AnswerWith(200, EmbeddingsResponse(request, native)) /\ UNCHANGED failure
       \/ s # 200 /\ Relayable(s)
          /\ AnswerWith(s, UpstreamErrorMessage(native)) /\ UNCHANGED failure
       \/ Unusable(s, native) /\ Answer(502) /\ failure' = "local_invalid_body"
    /\ UNCHANGED <<asked, relayed, body, sending>>

\* Its answer: vectors, converted; an error, with its own message; or a body or
\* status that is neither, which is nobody's answer.
Embedded(s, native) ==
    /\ phase = "called"
    /\ upstream' = native
    /\ \/ /\ s = 200
          /\ ValidNative(native)
          /\ AnswerWith(200, EmbeddingsResponse(request, native))
          /\ provider' = "local" /\ UNCHANGED failure
       \/ /\ s # 200
          /\ Relayable(s)
          /\ AnswerWith(s, UpstreamErrorMessage(native))
          /\ provider' = "local" /\ UNCHANGED failure
       \/ /\ Unusable(s, native)
          /\ Answer(502)
          /\ failure' = "local_invalid_body" /\ UNCHANGED provider
    /\ UNCHANGED <<asked, relayed, body, sending>>

\* create_response before the relay: the contract, and the conversion.
BeginResponse ==
    /\ phase = "handling"
    /\ path = "responses"
    /\ IF ValidResponsesRequest(request)
       THEN Continue("converting") /\ relayed' = ChatMessages(request)
       ELSE Answer(400) /\ UNCHANGED relayed
    /\ UNCHANGED <<asked, upstream, body, observed, sending>>

\* The relay answers without a success, and that is passed on as it is.
PassOnResponse ==
    /\ phase = "converting"
    /\ \/ Answer(400) /\ provider' \in {"local", "openai"}
       \/ \E s \in {502, 504} : Answer(s) /\ UNCHANGED provider
    /\ UNCHANGED <<asked, came, body, failure, sending>>

\* The local server succeeds with this body, or what it says cannot be converted
\* and OpenAI is asked, which may have nothing to convert either.
ConvertResponse(local, remote) ==
    /\ phase = "converting"
    /\ \/ /\ ConvertibleBody(local)
          /\ AnswerWith(200, ResponsesSuccess(request, local))
          /\ upstream' = local
          /\ provider' = "local" /\ UNCHANGED failure
       \/ /\ ~ConvertibleBody(local)
          /\ failure' = "local_invalid_body"
          /\ upstream' = remote
          /\ IF ConvertibleBody(remote)
             THEN /\ AnswerWith(200, ResponsesSuccess(request, remote))
                  /\ provider' = "openai"
             ELSE Answer(502) /\ UNCHANGED provider
    /\ UNCHANGED <<asked, relayed, body, sending>>

\* An exception nobody expected, in a layer or in the route.
Fail ==
    /\ phase \in {"authenticating", "handling", "embedding", "called", "converting"}
    /\ Continue("raising")
    /\ UNCHANGED <<asked, came, body, observed, sending>>

\* The task is cancelled.
Cancel ==
    /\ phase \in {"authenticating", "reading", "handling", "called", "converting", "replying",
                 "sending"}
    /\ Continue("leaving")
    /\ UNCHANGED <<asked, came, body, observed, sending>>

-----------------------------------------------------------------------------
\* Sending the answer through CacheControlMiddleware and observed_send.

\* Mistake: the 500 of the outermost layer does not say how to cache it.
StartAsRouted ==
    [type |-> "start", status |-> reply.status, requestId |-> TRUE,
     cache |-> IF reply.internal THEN "none" ELSE CacheControl(path)]

\* The 500 is sent from outside CacheControlMiddleware and brings its header.
Start ==
    [type |-> "start", status |-> reply.status, requestId |-> TRUE,
     cache |-> IF reply.internal THEN "no-store" ELSE CacheControl(path)]

Piece(last) == [type |-> IF last THEN "end" ELSE "part"]

SendStart ==
    /\ phase = "replying"
    /\ started' = TRUE
    /\ wire' = Append(wire, Start)
    /\ status' = reply.status
    /\ Continue("sending")
    /\ UNCHANGED <<asked, came, body, observed, completed, records>>

SendPart ==
    /\ phase = "sending"
    /\ reply.streamed
    /\ Len(wire) <= MaxParts
    /\ wire' = Append(wire, Piece(FALSE))
    /\ UNCHANGED <<asked, came, phase, body, observed, reply, started, status,
                   completed, records>>

SendEnd ==
    /\ phase = "sending"
    /\ wire' = Append(wire, Piece(TRUE))
    /\ completed' = TRUE
    /\ Continue("leaving")
    /\ UNCHANGED <<asked, came, body, observed, started, status, records>>

\* A stream is broken off by its provider (StreamTruncatedError and the like)
\* or given up because the client left, which ends it without an error.
StreamEndsEarly ==
    /\ phase = "sending"
    /\ reply.streamed
    /\ Continue("raising") \/ Continue("leaving")
    /\ UNCHANGED <<asked, came, body, observed, sending>>

\* Mistake: a response counts as started once its start has been sent.
SendRaisesBeforeStarted ==
    /\ phase \in {"replying", "sending"}
    /\ UNCHANGED started
    /\ \/ UNCHANGED wire
       \/ wire' = Append(wire, IF phase = "replying" THEN Start ELSE Piece(TRUE))
    /\ Continue("raising")
    /\ UNCHANGED <<asked, came, body, observed, status, completed, records>>

\* Mistake: a message counts as sent before it is.
SendRaisesCounted ==
    /\ phase \in {"replying", "sending"}
    /\ started' = TRUE
    /\ IF phase = "replying"
       THEN status' = reply.status /\ UNCHANGED completed
       ELSE completed' = TRUE /\ UNCHANGED status
    /\ \/ UNCHANGED wire
       \/ wire' = Append(wire, IF phase = "replying" THEN Start ELSE Piece(TRUE))
    /\ Continue("raising") \/ Continue("leaving")
    /\ UNCHANGED <<asked, came, body, observed, records>>

\* send raises, or the task is cancelled in it; the message may have got
\* through all the same.
SendRaises ==
    /\ phase \in {"replying", "sending"}
    /\ started' = TRUE
    /\ \/ UNCHANGED wire
       \/ wire' = Append(wire, IF phase = "replying" THEN Start ELSE Piece(TRUE))
    /\ Continue("raising") \/ Continue("leaving")
    /\ UNCHANGED <<asked, came, body, observed, status, completed, records>>

\* Mistake: the exception is raised again past the record.
UnwindUnrecorded ==
    /\ phase = "raising"
    /\ IF started
       THEN Continue("done")
       ELSE /\ phase' = "replying"
            /\ reply' = [status |-> 500, streamed |-> FALSE, internal |-> TRUE, content |-> Null]
    /\ UNCHANGED <<asked, came, body, observed, sending>>

\* ObservabilityMiddleware's except: its own 500, if nothing was begun.
Unwind ==
    /\ phase = "raising"
    /\ IF started
       THEN Continue("leaving")
       ELSE /\ phase' = "replying"
            /\ reply' = [status |-> 500, streamed |-> FALSE, internal |-> TRUE, content |-> Null]
    /\ UNCHANGED <<asked, came, body, observed, sending>>

\* Its finally: one line in the log, whatever has happened.
Record ==
    /\ phase = "leaving"
    /\ records' = Append(records, [status |-> status, completed |-> completed,
                                   provider |-> provider, failure |-> failure])
    /\ Continue("done")
    /\ UNCHANGED <<asked, came, body, observed, started, status, completed, wire>>

Route ==
    \/ Authenticate \/ Limit \/ Received \/ Disconnect
    \/ Handle \/ RefuseEmbedding \/ CallEmbedding \/ NotEmbedded
    \/ \E s \in {200, 204, 400}, native \in NativeBodies : Embedded(s, native)
    \/ BeginResponse \/ PassOnResponse
    \/ \E local, remote \in ChatBodies : ConvertResponse(local, remote)

Send == SendStart \/ SendEnd \/ StreamEndsEarly \/ SendRaises

Next ==
    \/ Enter \/ Route
    \/ \E n \in 1 .. BodyLimit + 1 : Receive(n)
    \/ Fail \/ Cancel
    \/ Send \/ SendPart
    \/ Unwind \/ Record

Spec == Init /\ [][Next]_vars

\* The relay at work on a chat request: some of its awaits have no deadline, which
\* is what ChatRelay is about.
Relaying == (path = "chat" /\ phase = "handling") \/ phase = "converting"

\* The awaits of the layers, and of the routes except in the relay, have deadlines:
\* the lock of the key store, the total budget for the body and that of the call to
\* /api/embed.  Sending has none: send returns when the client takes the message.
Fairness ==
    /\ WF_vars(Enter) /\ WF_vars(Unwind) /\ WF_vars(Record)
    /\ WF_vars(~Relaying /\ Route)

FairSpec == Spec /\ Fairness

-----------------------------------------------------------------------------
Starts == {i \in 1 .. Len(wire) : wire[i].type = "start"}

\* The client gets one response at most: its start first, nothing after its
\* end, and no second one when sending the first has failed.  Whatever a caller
\* of the API is sent, a 401, 413 or 500 included, must not be stored on its way.
OneResponse ==
    /\ wire # <<>> => Starts = {1}
    /\ \A i \in 1 .. Len(wire) : wire[i].type = "end" => i = Len(wire)
    /\ path \in Protected => \A i \in Starts : wire[i].cache = "no-store"

\* The log never claims more than was sent: a status only if its start went
\* out, completion only if the end did, a provider only if it made the answer
\* that was being sent (not one the gateway made up, whose record has the
\* reason instead).
RecordTellsTruth ==
    \A k \in 1 .. Len(records) :
        /\ records[k].status # NoStatus =>
               Starts # {} /\ wire[1].status = records[k].status
        /\ records[k].completed => wire[Len(wire)].type = "end"
        /\ records[k].provider # "none" /\ records[k].status # NoStatus =>
               /\ records[k].status \in {200, 400}
               /\ records[k].failure = "none" \/ records[k].provider = "openai"
        /\ path = "embeddings" /\ records[k].status = 200 => records[k].provider = "local"

\* One response, and a record that says what became of it (middleware).
OneTruthfulExchange == OneResponse /\ RecordTellsTruth

Answered(p) == path = p /\ reply.status = 200

\* Whoever is sent vectors gets one for each text and in the order of the texts,
\* in the dimensions of the alias, each a number that has a float32, the local
\* server's to the precision of the format, and zero beyond.  No request that gets this far is refused for want
\* of a route: the gateway would not have started.
EmbeddingsMatchInputs ==
    /\ Answered("embeddings") =>
        LET input == Get(request, "input")
            vectors == Get(upstream, "embeddings").items
            data == reply.content.data
        IN  /\ Len(data) = IF input.is = "list" THEN Len(input.items) ELSE 1
            /\ \A i \in DOMAIN data :
                /\ data[i].index = i - 1
                /\ Len(data[i].embedding.values) =
                       IF Get(request, "model").text = "embed"
                       THEN NativeDimensions ELSE CompatDimensions
                /\ \A k \in DOMAIN data[i].embedding.values :
                    /\ k <= NativeDimensions => vectors[i].items[k].single
                    /\ data[i].embedding.values[k] -
                           (IF k <= NativeDimensions THEN vectors[i].items[k].value ELSE 0)
                       \in IF data[i].embedding.format = "base64" THEN -1 .. 1 ELSE {0}
    /\ phase = "embedding" => Resolve(routing, "embeddings", "embed") # Null
    /\ phase = "converting" => Resolve(routing, "chat", "vision") # Null

\* A converted answer says what its provider's did: the text of a choice that
\* ended in a way the API knows, complete only if it stopped by itself; with
\* token counts that are never negative, and a total that is missing only if
\* there is nothing to add up.  What was relayed has every item of the input.
ResponsesMatchProvider ==
    Answered("responses") =>
        LET choices == Get(upstream, "choices").items
            content == reply.content
            input == Get(request, "input")
        IN  /\ \E i \in DOMAIN choices :
                /\ choices[i].is = "object"
                /\ Get(choices[i], "message").is = "object"
                /\ Get(Get(choices[i], "message"), "content") = Str(content.text)
                /\ content.status = "completed" <=> Get(choices[i], "finish_reason") = Str("stop")
                /\ content.status = "incomplete" =>
                       Get(choices[i], "finish_reason").text \in {"length", "content_filter"}
            /\ \A f \in DOMAIN content.usage : content.usage[f] >= 0
            /\ content.usage.total = 0 => content.usage.input = 0 /\ content.usage.output = 0
            /\ Len(relayed) = (IF Get(request, "instructions") = Null THEN 0 ELSE 1)
                              + (IF input.is = "list" THEN Len(input.items) ELSE 1)
            /\ \A m \in DOMAIN relayed : relayed[m].role \in {"system", "user", "assistant"}

\* Every request is recorded in the end, however it ends, unless it never does: the
\* relay does not return, or the client neither takes what it is sent nor leaves
\* (observed_send), so that from some moment on the request remains there.
EveryEndRecorded ==
    \/ <>(Len(records) = 1)
    \/ <>[]Relaying
    \/ <>[](phase \in {"replying", "sending"})

=============================================================================
