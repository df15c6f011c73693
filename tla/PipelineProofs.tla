--------------------------- MODULE PipelineProofs ---------------------------
(***************************************************************************)
(* Proofs about RequestPipeline, for any limit, any routing documents and  *)
(* any JSON that clients and providers may send.                           *)
(***************************************************************************)
EXTENDS RequestPipeline, Induction

-----------------------------------------------------------------------------
\* The inductive invariant.

\* Before there is an answer nothing has been sent, noted or recorded.
Unanswered == {"new", "authenticating", "limiting", "reading", "handling", "embedding",
               "called", "converting"}

Untouched ==
    /\ reply = NoReply
    /\ provider = "none"
    /\ failure = "none"

\* Which layers and routes a request passes depends on its path.
Routed ==
    /\ phase \in {"authenticating", "limiting", "reading"} => path \in Protected
    /\ phase = "limiting" => path \in Limited
    /\ phase = "reading" => path \in Limited \ {"unknown"}
    /\ phase \in {"embedding", "called"} => path = "embeddings"
    /\ phase = "converting" => path = "responses"
    /\ phase = "handling" => path # "embeddings"

\* What has been counted as sent has been sent, and belongs to the reply.
Progress ==
    /\ phase \in Unanswered => Untouched /\ ~started
    /\ phase = "replying" => ~started
    /\ phase = "sending" => started /\ wire # <<>> /\ ~completed
    /\ ~started => wire = <<>> /\ status = NoStatus /\ ~completed
    /\ phase = "raising" /\ ~started => Untouched
    /\ status # NoStatus => status = reply.status /\ wire # <<>>
    /\ completed => wire # <<>> /\ wire[Len(wire)].type = "end"

Messages == [type : {"start"}, status : Nat, requestId : {TRUE},
             cache : {"no-store", "public", "none"}]
            \cup [type : {"part", "end"}]

\* What is on the wire.
WireOK ==
    /\ wire \in Seq(Messages)
    /\ wire # <<>> => /\ wire[1].type = "start"
                      /\ wire[1].status = reply.status
                      /\ path \in Protected => wire[1].cache = "no-store"
    /\ \A i \in 2 .. Len(wire) : wire[i].type \in {"part", "end"}
    /\ \A i \in 1 .. Len(wire) : wire[i].type = "end" => i = Len(wire)
    /\ phase = "sending" => /\ Len(wire) <= MaxParts + 1
                            /\ \A i \in 1 .. Len(wire) : wire[i].type # "end"

\* Whose answer the reply is.
Attributed ==
    /\ provider # "none" => /\ reply.status \in {200, 400}
                            /\ failure = "none" \/ provider = "openai"
    /\ path = "embeddings" /\ reply.status = 200 => provider = "local"

\* The record is of what became of the request.
Recorded ==
    /\ phase # "done" => records = <<>>
    /\ phase = "done" =>
           records = <<[status |-> status, completed |-> completed,
                        provider |-> provider, failure |-> failure]>>

\* A converted answer is made of a request that was accepted and an answer that
\* was checked.
Converted ==
    /\ phase = "called" => ValidEmbeddingRequest(request)
    /\ Answered("embeddings") =>
           /\ ValidEmbeddingRequest(request)
           /\ upstream \in NativeBodies
           /\ ValidNative(upstream)
           /\ reply.content = EmbeddingsResponse(request, upstream)
    /\ phase = "converting" \/ Answered("responses") =>
           /\ ValidResponsesRequest(request)
           /\ relayed = ChatMessages(request)
    /\ Answered("responses") =>
           /\ upstream \in ChatBodies
           /\ ConvertibleBody(upstream)
           /\ reply.content = ResponsesSuccess(request, upstream)

\* The gateway was started with a table it could build, and a body is JSON.
Given ==
    /\ Builds(routing) /\ IsJson(routing)
    /\ path \in DOMAIN Bodies => request \in Bodies[path]
    /\ path \notin DOMAIN Bodies => request = Null

PipelineInv ==
    /\ TypeOK /\ Routed /\ Progress /\ WireOK /\ Attributed /\ Recorded /\ Converted /\ Given

\* What the steps up to an answer have in common: nothing is sent or recorded,
\* and without an answer nothing is noted either.
Approaches ==
    /\ phase \in Unanswered
    /\ UNCHANGED <<asked, sending>>
    /\ phase' \in Unanswered \cup {"replying", "raising", "leaving"}
    /\ phase' # "replying" => UNCHANGED <<reply, observed>>

\* The steps up to an answer.
BeforeAnswer ==
    \/ Enter \/ Route \/ Fail
    \/ \E n \in 1 .. BodyLimit + 1 : Receive(n)

\* Every step up to an answer is of that kind.
LEMMA BeforeApproaches ==
    ASSUME BeforeAnswer
    PROVE  Approaches
<1>. USE DEF Approaches, Unanswered, observed, Continue, Answer, AnswerWith
<1>1. CASE Enter
  BY <1>1 DEF Enter
<1>2. CASE Authenticate
  BY <1>2 DEF Authenticate
<1>3. CASE Limit
  BY <1>3 DEF Limit
<1>4. CASE Received
  BY <1>4 DEF Received
<1>5. CASE Disconnect
  BY <1>5 DEF Disconnect
<1>6. CASE Handle
  BY <1>6 DEF Handle
<1>7. CASE RefuseEmbedding
  BY <1>7 DEF RefuseEmbedding
<1>8. CASE CallEmbedding
  BY <1>8 DEF CallEmbedding
<1>9. CASE NotEmbedded
  BY <1>9 DEF NotEmbedded
<1>10. ASSUME NEW s \in {200, 204, 400}, NEW native \in NativeBodies, Embedded(s, native)
       PROVE  Approaches
  BY <1>10 DEF Embedded
<1>11. CASE BeginResponse
  BY <1>11 DEF BeginResponse
<1>12. CASE PassOnResponse
  BY <1>12 DEF PassOnResponse
<1>13. ASSUME NEW local \in ChatBodies, NEW remote \in ChatBodies, ConvertResponse(local, remote)
       PROVE  Approaches
  BY <1>13 DEF ConvertResponse
<1>14. CASE Fail
  BY <1>14 DEF Fail
<1>15. ASSUME NEW n \in 1 .. BodyLimit + 1, Receive(n)
       PROVE  Approaches
  BY <1>15 DEF Receive
<1>. HIDE DEF Approaches
<1>. QED
  BY <1>1, <1>2, <1>3, <1>4, <1>5, <1>6, <1>7, <1>8, <1>9, <1>10, <1>11, <1>12, <1>13,
     <1>14, <1>15 DEF BeforeAnswer, Route

\* Up to an answer, wire and record stay as they were.
LEMMA BeforeSent ==
    ASSUME PipelineInv, BeforeAnswer
    PROVE  Progress' /\ WireOK' /\ Recorded'
<1>1. Approaches
  BY BeforeApproaches
<1>2. Untouched /\ ~started /\ wire = <<>> /\ status = NoStatus /\ ~completed /\ records = <<>>
  BY <1>1 DEF Approaches, PipelineInv, Progress, Recorded, Unanswered
<1>3. phase' \notin {"sending", "done"} /\ UNCHANGED sending
  BY <1>1 DEF Approaches, Unanswered
<1>4. Progress'
  BY <1>1, <1>2, <1>3 DEF Approaches, Progress, Untouched, observed, sending, Unanswered
<1>5. WireOK'
  <2>1. wire' = <<>> /\ Len(wire') = 0
    BY <1>2, <1>3 DEF sending
  <2>. QED
    BY <1>3, <2>1 DEF WireOK
<1>6. Recorded'
  BY <1>2, <1>3 DEF Recorded, sending
<1>. QED
  BY <1>4, <1>5, <1>6

\* Up to an answer, a request takes the way its path prescribes.
LEMMA BeforeRouted ==
    ASSUME PipelineInv, BeforeAnswer
    PROVE  /\ phase' \in Phases /\ Routed'
           /\ relayed' # <<>> => path' = "responses"
           /\ upstream' # Null => path' \in {"embeddings", "responses"}
<1>. DEFINE
    Where ==
        /\ phase' \in Phases /\ Routed'
        /\ relayed' # <<>> => path' = "responses"
        /\ upstream' # Null => path' \in {"embeddings", "responses"}
<1>. SUFFICES Where
  OBVIOUS
<1>1. /\ Routed /\ phase \in Phases /\ path \in Paths
      /\ relayed # <<>> => path = "responses"
      /\ upstream # Null => path \in {"embeddings", "responses"}
  BY DEF PipelineInv, TypeOK
<1>. USE <1>1 DEF Routed, Phases, Protected, Limited, Paths, came, asked, Continue, Answer,
     AnswerWith
<1>2. CASE Enter
  BY <1>2 DEF Enter
<1>3. CASE Authenticate
  BY <1>3 DEF Authenticate
<1>4. CASE Limit
  BY <1>4 DEF Limit
<1>5. CASE Received
  BY <1>5 DEF Received
<1>6. CASE Disconnect
  BY <1>6 DEF Disconnect
<1>7. CASE Handle
  BY <1>7 DEF Handle
<1>8. CASE RefuseEmbedding
  BY <1>8 DEF RefuseEmbedding
<1>9. CASE CallEmbedding
  BY <1>9 DEF CallEmbedding
<1>10. CASE NotEmbedded
  BY <1>10 DEF NotEmbedded
<1>11. ASSUME NEW s \in {200, 204, 400}, NEW native \in NativeBodies, Embedded(s, native)
       PROVE  Where
  BY <1>11 DEF Embedded
<1>12. CASE BeginResponse
  BY <1>12 DEF BeginResponse
<1>13. CASE PassOnResponse
  BY <1>13 DEF PassOnResponse
<1>14. ASSUME NEW local \in ChatBodies, NEW remote \in ChatBodies, ConvertResponse(local, remote)
       PROVE  Where
  BY <1>14 DEF ConvertResponse
<1>15. CASE Fail
  BY <1>15 DEF Fail
<1>16. ASSUME NEW n \in 1 .. BodyLimit + 1, Receive(n)
       PROVE  Where
  BY <1>16 DEF Receive
<1>. HIDE DEF Where
<1>. QED
  BY <1>2, <1>3, <1>4, <1>5, <1>6, <1>7, <1>8, <1>9, <1>10, <1>11, <1>12, <1>13, <1>14,
     <1>15, <1>16 DEF BeforeAnswer, Route

\* Up to an answer, no more is taken in than the limit allows.
LEMMA BeforeBody ==
    ASSUME PipelineInv, BeforeAnswer
    PROVE  body' \in 0 .. BodyLimit
<1>1. body \in 0 .. BodyLimit
  BY DEF PipelineInv, TypeOK
<1>2. ASSUME NEW n \in 1 .. BodyLimit + 1, Receive(n)
      PROVE  body' \in 0 .. BodyLimit
  BY <1>1, <1>2, PipelineAssumption DEF Receive, OverLimit
<1>3. CASE Enter \/ Route \/ Fail
  BY <1>1, <1>3 DEF Enter, Route, Fail, Authenticate, Limit, Received, Disconnect, Handle,
     RefuseEmbedding, CallEmbedding, NotEmbedded, Embedded, BeginResponse, PassOnResponse,
     ConvertResponse
<1>. QED
  BY <1>2, <1>3 DEF BeforeAnswer

\* What comes of a step up to an answer: none yet, one of the gateway's own, or a
\* provider's.
Failures == {"none", "local_deadline", "local_unreachable", "local_invalid_body"}

NoAnswer == UNCHANGED <<reply, provider, failure>>

OwnAnswer ==
    /\ provider' = "none" /\ failure' \in Failures
    /\ \E s \in {200, 400, 401, 404, 405, 413, 502, 503, 504} :
           AnswerWith(s, Null) /\ (path = "embeddings" => s # 200)

TheirAnswer ==
    /\ provider' \in {"local", "openai"} /\ failure' \in Failures
    /\ failure' = "none" \/ provider' = "openai"
    /\ path = "embeddings" => provider' = "local"
    /\ \/ \E s \in {200, 400} : \E c : AnswerWith(s, c)
       \/ \E s \in {200, 400}, b \in BOOLEAN :
              reply' = [status |-> s, streamed |-> b, internal |-> FALSE, content |-> Null]

Outcome == NoAnswer \/ OwnAnswer \/ TheirAnswer

\* Nothing else comes of such a step.
LEMMA BeforeOutcome ==
    ASSUME PipelineInv, BeforeAnswer
    PROVE  Outcome
<1>1. Approaches
  BY BeforeApproaches
<1>2. Routed /\ provider = "none" /\ failure = "none"
  BY <1>1 DEF Approaches, PipelineInv, Progress, Untouched
<1>. USE <1>2
     DEF Continue, Outcome, NoAnswer, OwnAnswer, TheirAnswer, Failures, Routed, observed, Answer
<1>3. CASE Enter
  BY <1>3 DEF Enter
<1>4. CASE Authenticate
  BY <1>4 DEF Authenticate
<1>5. CASE Limit
  BY <1>5 DEF Limit
<1>6. CASE Received
  BY <1>6 DEF Received
<1>7. CASE Disconnect
  BY <1>7 DEF Disconnect
<1>8. CASE Handle
  BY <1>8 DEF Handle
<1>9. CASE RefuseEmbedding
  BY <1>9 DEF RefuseEmbedding
<1>10. CASE CallEmbedding
  BY <1>10 DEF CallEmbedding
<1>11. CASE NotEmbedded
  BY <1>11 DEF NotEmbedded
<1>12. ASSUME NEW s \in {200, 204, 400}, NEW native \in NativeBodies, Embedded(s, native)
       PROVE  Outcome
  BY <1>12 DEF Embedded, Relayable
<1>13. CASE BeginResponse
  BY <1>13 DEF BeginResponse
<1>14. CASE PassOnResponse
  BY <1>14 DEF PassOnResponse
<1>15. ASSUME NEW local \in ChatBodies, NEW remote \in ChatBodies, ConvertResponse(local, remote)
       PROVE  Outcome
  BY <1>15 DEF ConvertResponse
<1>16. CASE Fail
  BY <1>16 DEF Fail
<1>17. ASSUME NEW n \in 1 .. BodyLimit + 1, Receive(n)
       PROVE  Outcome
  BY <1>17 DEF Receive
<1>. HIDE DEF Outcome
<1>. QED
  BY <1>3, <1>4, <1>5, <1>6, <1>7, <1>8, <1>9, <1>10, <1>11, <1>12, <1>13, <1>14,
     <1>15, <1>16, <1>17 DEF BeforeAnswer, Route

\* The answer itself, and whose it is.
LEMMA BeforeAnswered ==
    ASSUME PipelineInv, BeforeAnswer
    PROVE  /\ provider' \in {"none", "local", "openai"}
           /\ failure' \in {"none", "local_deadline", "local_unreachable", "local_invalid_body"}
           /\ reply'.status \in Nat
           /\ reply'.streamed \in BOOLEAN
           /\ reply'.internal \in BOOLEAN
           /\ Attributed'
<1>1. Approaches /\ path' = path
  BY BeforeApproaches DEF Approaches, asked
<1>2. /\ provider = "none" /\ failure = "none"
      /\ reply.status = 0 /\ reply.streamed = FALSE /\ reply.internal = FALSE
  BY <1>1 DEF Approaches, PipelineInv, Progress, Untouched, NoReply, NoStatus
<1>3. CASE NoAnswer
  <2>1. provider' \in {"none", "local", "openai"} /\ failure' \in Failures
    BY <1>2, <1>3 DEF NoAnswer, Failures
  <2>2. reply'.status \in Nat
    BY <1>2, <1>3 DEF NoAnswer
  <2>3. reply'.streamed \in BOOLEAN
    BY <1>2, <1>3 DEF NoAnswer
  <2>4. reply'.internal \in BOOLEAN
    BY <1>2, <1>3 DEF NoAnswer
  <2>5. Attributed'
    BY <1>1, <1>2, <1>3 DEF NoAnswer, Attributed
  <2>. QED
    BY <2>1, <2>2, <2>3, <2>4, <2>5 DEF Failures
<1>4. CASE OwnAnswer
  <2>0. PICK s \in {200, 400, 401, 404, 405, 413, 502, 503, 504} :
           AnswerWith(s, Null) /\ (path = "embeddings" => s # 200)
    BY <1>4 DEF OwnAnswer
  <2>. USE <2>0 DEF AnswerWith
  <2>1. provider' \in {"none", "local", "openai"} /\ failure' \in Failures
    BY <1>2, <1>4 DEF OwnAnswer, Failures
  <2>2. reply'.status \in Nat
    BY <1>2, <1>4 DEF OwnAnswer
  <2>3. reply'.streamed \in BOOLEAN
    BY <1>2, <1>4 DEF OwnAnswer
  <2>4. reply'.internal \in BOOLEAN
    BY <1>2, <1>4 DEF OwnAnswer
  <2>5. Attributed'
    BY <1>1, <1>2, <1>4 DEF OwnAnswer, Attributed
  <2>. QED
    BY <2>1, <2>2, <2>3, <2>4, <2>5 DEF Failures
<1>5. CASE TheirAnswer
  <2>0. /\ reply'.status \in {200, 400}
        /\ reply'.streamed \in BOOLEAN
        /\ reply'.internal = FALSE
    <3>1. ASSUME NEW s \in {200, 400}, NEW b \in BOOLEAN,
                 reply' = [status |-> s, streamed |-> b, internal |-> FALSE, content |-> Null]
          PROVE  /\ reply'.status \in {200, 400}
                 /\ reply'.streamed \in BOOLEAN
                 /\ reply'.internal = FALSE
      BY <3>1
    <3>2. CASE \E s \in {200, 400} : \E c : AnswerWith(s, c)
      <4>1. PICK s \in {200, 400} : \E c : AnswerWith(s, c)
        BY <3>2
      <4>2. PICK c : AnswerWith(s, c)
        BY <4>1
      <4>. QED
        BY <4>2 DEF AnswerWith
    <3>3. CASE \E s \in {200, 400}, b \in BOOLEAN :
                 reply' = [status |-> s, streamed |-> b, internal |-> FALSE, content |-> Null]
      BY <3>1, <3>3
    <3>. QED
      BY <1>5, <3>2, <3>3 DEF TheirAnswer
  <2>. USE <2>0
  <2>1. provider' \in {"none", "local", "openai"} /\ failure' \in Failures
    BY <1>2, <1>5 DEF TheirAnswer, Failures
  <2>2. reply'.status \in Nat
    BY <1>2, <1>5 DEF TheirAnswer
  <2>3. reply'.streamed \in BOOLEAN
    BY <1>2, <1>5 DEF TheirAnswer
  <2>4. reply'.internal \in BOOLEAN
    BY <1>2, <1>5 DEF TheirAnswer
  <2>5. Attributed'
    BY <1>1, <1>2, <1>5 DEF TheirAnswer, Attributed
  <2>. QED
    BY <2>1, <2>2, <2>3, <2>4, <2>5 DEF Failures
<1>. QED
  BY <1>3, <1>4, <1>5, BeforeOutcome DEF Outcome

\* What was converted is what was accepted and checked.
LEMMA BeforeConverted ==
    ASSUME PipelineInv, BeforeAnswer
    PROVE  Converted'
<1>1. Approaches /\ UNCHANGED <<routing, path, request>>
  BY BeforeApproaches DEF Approaches, asked
<1>2. reply.status = 0
  BY <1>1 DEF Approaches, PipelineInv, Progress, Untouched, NoReply, NoStatus
<1>3. Routed /\ Converted
  BY DEF PipelineInv
<1>4. ASSUME phase' \notin {"called", "converting"}, reply'.status # 200
      PROVE  Converted'
  BY <1>4 DEF Converted, Answered
<1>5. ASSUME phase' \notin {"called", "converting"}, reply' = reply
      PROVE  Converted'
  BY <1>2, <1>4, <1>5
<1>6. ASSUME NEW s \in Nat \ {200}, Answer(s)
      PROVE  Converted'
  <2>1. phase' = "replying" /\ reply'.status = s
    BY <1>6 DEF Answer, AnswerWith
  <2>. QED
    BY <1>4, <1>6, <2>1
<1>. USE DEF Continue, Routed
<1>7. CASE Enter \/ Authenticate \/ Limit \/ Received \/ Disconnect \/ Fail
  <2>1. CASE reply' = reply /\ phase' \notin {"called", "converting"}
    BY <2>1, <1>5
  <2>2. CASE \E s \in {401, 503, 400, 413, 504} : Answer(s)
    BY <2>2, <1>6
  <2>. QED
    BY <1>7, <2>1, <2>2 DEF Enter, Authenticate, Limit, Received, Disconnect, Fail
<1>8. CASE Handle
  <2>1. phase' = "replying"
    BY <1>8 DEF Handle, Answer, AnswerWith
  <2>2. path \notin {"embeddings", "responses"}
    BY <1>3, <1>8 DEF Handle
  <2>. QED
    BY <1>1, <2>1, <2>2 DEF Converted, Answered
<1>9. CASE RefuseEmbedding \/ NotEmbedded
  <2>1. \E s \in {400, 502, 504} : Answer(s)
    BY <1>9 DEF RefuseEmbedding, NotEmbedded
  <2>. QED
    BY <1>6, <2>1
<1>10. CASE CallEmbedding
  <2>1. phase' = "called" /\ reply' = reply /\ ValidEmbeddingRequest(request)
    BY <1>10 DEF CallEmbedding
  <2>. QED
    BY <1>1, <1>2, <2>1 DEF Converted, Answered
<1>11. ASSUME NEW s \in {200, 204, 400}, NEW native \in NativeBodies, Embedded(s, native)
       PROVE  Converted'
  <2>1. CASE /\ s = 200
             /\ ValidNative(native)
             /\ AnswerWith(200, EmbeddingsResponse(request, native))
    <3>1. path = "embeddings" /\ ValidEmbeddingRequest(request) /\ upstream' = native
      BY <1>3, <1>11 DEF Embedded, Converted
    <3>2. ValidNative(native)'
      BY <1>1, <2>1 DEF ValidNative
    <3>3. ValidNative(upstream)'
      BY <3>1, <3>2
    <3>4. phase' = "replying" /\ reply'.content = EmbeddingsResponse(request, native)
      BY <2>1 DEF AnswerWith
    <3>. QED
      BY <1>1, <3>1, <3>3, <3>4 DEF Converted, Answered
  <2>2. CASE s # 200 /\ AnswerWith(s, UpstreamErrorMessage(native))
    <3>1. phase' = "replying" /\ reply'.status # 200
      BY <2>2 DEF AnswerWith
    <3>. QED
      BY <1>4, <3>1
  <2>3. CASE Answer(502)
    BY <1>6, <2>3
  <2>. QED
    BY <1>11, <2>1, <2>2, <2>3 DEF Embedded
<1>12. CASE BeginResponse
  <2>1. CASE ValidResponsesRequest(request)
    <3>1. phase' = "converting" /\ relayed' = ChatMessages(request) /\ reply' = reply
      BY <1>12, <2>1 DEF BeginResponse
    <3>. QED
      BY <1>1, <1>2, <2>1, <3>1 DEF Converted, Answered
  <2>2. CASE ~ValidResponsesRequest(request)
    BY <1>6, <1>12, <2>2 DEF BeginResponse
  <2>. QED
    BY <2>1, <2>2
<1>13. CASE PassOnResponse
  <2>1. \E s \in {400, 502, 504} : Answer(s)
    BY <1>13 DEF PassOnResponse
  <2>. QED
    BY <1>6, <2>1
<1>14. ASSUME NEW local \in ChatBodies, NEW remote \in ChatBodies, ConvertResponse(local, remote)
       PROVE  Converted'
  <2>1. ASSUME NEW chat \in ChatBodies, ConvertibleBody(chat), upstream' = chat,
               AnswerWith(200, ResponsesSuccess(request, chat))
        PROVE  Converted'
    <3>1. /\ path = "responses" /\ relayed' = relayed
          /\ ValidResponsesRequest(request) /\ relayed = ChatMessages(request)
      BY <1>3, <1>14 DEF ConvertResponse, Converted
    <3>2. phase' = "replying" /\ reply'.content = ResponsesSuccess(request, chat)
      BY <2>1 DEF AnswerWith
    <3>. QED
      BY <1>1, <2>1, <3>1, <3>2 DEF Converted, Answered
  <2>2. CASE Answer(502)
    BY <1>6, <2>2
  <2>. QED
    BY <1>14, <2>1, <2>2 DEF ConvertResponse
<1>15. ASSUME NEW n \in 1 .. BodyLimit + 1, Receive(n)
       PROVE  Converted'
  <2>1. CASE OverLimit(n)
    BY <1>6, <1>15, <2>1 DEF Receive
  <2>2. CASE ~OverLimit(n)
    BY <1>5, <1>15, <2>2 DEF Receive
  <2>. QED
    BY <2>1, <2>2
<1>. QED
  BY <1>7, <1>8, <1>9, <1>10, <1>11, <1>12, <1>13, <1>14, <1>15 DEF BeforeAnswer, Route

-----------------------------------------------------------------------------
\* Sending an answer, and what comes after it.

\* The first message of an answer: its status, and how it may be cached.
LEMMA StartFacts ==
    ASSUME PipelineInv
    PROVE  /\ Start \in Messages
           /\ Start.type = "start"
           /\ Start.status = reply.status
           /\ path \in Protected => Start.cache = "no-store"
BY DEF PipelineInv, TypeOK, Start, CacheControl, Messages, Protected, Limited

\* And every other one.
LEMMA PieceFacts ==
    ASSUME NEW last \in BOOLEAN
    PROVE  /\ Piece(last) \in Messages
           /\ Piece(last).type = IF last THEN "end" ELSE "part"
BY DEF Piece, Messages

\* What may become of the wire: it stays, it gets the start of the reply or
\* another piece of it.
Began == phase = "replying" /\ wire' = Append(wire, Start)
Went(last) == phase = "sending" /\ wire' = Append(wire, Piece(last))

\* The steps that follow an answer, or end the request without one.
After == Cancel \/ Send \/ SendPart \/ Unwind \/ Record

\* They leave all that led to the answer alone.
Settled ==
    /\ UNCHANGED <<asked, came, body, provider, failure>>
    /\ phase' \in {"replying", "sending", "raising", "leaving", "done"}
    /\ \/ reply' = reply
       \/ /\ phase = "raising" /\ ~started
          /\ reply' = [status |-> 500, streamed |-> FALSE, internal |-> TRUE, content |-> Null]

\* Every step after an answer leaves it alone.
LEMMA AfterSettled ==
    ASSUME After
    PROVE  Settled
<1>. USE DEF Settled, observed, Continue
<1>1. CASE Cancel
  BY <1>1 DEF Cancel
<1>2. CASE SendStart
  BY <1>2 DEF SendStart
<1>3. CASE SendEnd
  BY <1>3 DEF SendEnd
<1>4. CASE StreamEndsEarly
  BY <1>4 DEF StreamEndsEarly
<1>5. CASE SendRaises
  BY <1>5 DEF SendRaises
<1>6. CASE SendPart
  BY <1>6 DEF SendPart
<1>7. CASE Unwind
  BY <1>7 DEF Unwind
<1>8. CASE Record
  BY <1>8 DEF Record
<1>. HIDE DEF Settled
<1>. QED
  BY <1>1, <1>2, <1>3, <1>4, <1>5, <1>6, <1>7, <1>8 DEF After, Send

\* So what was true of it stays true.
LEMMA AfterKept ==
    ASSUME PipelineInv, After
    PROVE  /\ Routed' /\ Attributed' /\ Converted'
           /\ reply'.status \in Nat
           /\ reply'.streamed \in BOOLEAN
           /\ reply'.internal \in BOOLEAN
<1>1. Settled /\ UNCHANGED <<routing, path, request, upstream, relayed, provider, failure>>
  BY AfterSettled DEF Settled, asked, came
<1>2. Routed'
  BY <1>1 DEF Settled, Routed
<1>3. CASE reply' = reply
  <2>1. Attributed' /\ Converted'
    BY <1>1, <1>3 DEF PipelineInv, Settled, Attributed, Converted, Answered, ValidNative
  <2>. QED
    BY <1>2, <1>3, <2>1 DEF PipelineInv, TypeOK
<1>4. CASE /\ phase = "raising" /\ ~started
           /\ reply' = [status |-> 500, streamed |-> FALSE, internal |-> TRUE, content |-> Null]
  <2>1. provider = "none"
    BY <1>4 DEF PipelineInv, Progress, Untouched
  <2>2. reply'.status = 500 /\ reply'.streamed = FALSE /\ reply'.internal = TRUE
    BY <1>4
  <2>3. Attributed' /\ Converted'
    BY <1>1, <2>1, <2>2 DEF Settled, Attributed, Converted, Answered
  <2>4. reply'.streamed \in BOOLEAN
    BY <2>2
  <2>5. reply'.internal \in BOOLEAN
    BY <2>2
  <2>. QED
    BY <1>2, <2>2, <2>3, <2>4, <2>5
<1>. QED
  BY <1>1, <1>3, <1>4 DEF Settled

\* The wire is in order if it stays as it was.
LEMMA WireStays ==
    ASSUME PipelineInv, After, wire' = wire, wire # <<>> => reply' = reply, phase' # "sending"
    PROVE  WireOK' /\ Len(wire') <= MaxParts + 2
<1>1. WireOK /\ Len(wire) <= MaxParts + 2 /\ path' = path
  BY AfterSettled DEF PipelineInv, TypeOK, Settled, asked
<1>. QED
  BY <1>1 DEF WireOK

\* The start of the reply is the first message on the wire.
LEMMA WireBegins ==
    ASSUME PipelineInv, After, Began, reply' = reply
    PROVE  /\ WireOK' /\ Len(wire') = 1 /\ wire' # <<>>
           /\ wire'[1].type = "start"
<1>1. path' = path /\ wire = <<>>
  BY AfterSettled DEF PipelineInv, Progress, Settled, asked, Began
<1>2. wire' = <<Start>> /\ Len(wire') = 1 /\ wire'[1] = Start
  BY <1>1 DEF Began
<1>3. wire' \in Seq(Messages)
  BY <1>2, StartFacts
<1>4. MaxParts \in Nat /\ \A i \in 1 .. 1 : i = 1
  BY PipelineAssumption
<1>. QED
  BY <1>1, <1>2, <1>3, <1>4, StartFacts DEF WireOK

\* A piece of the reply follows what is on the wire, its end as the last.
LEMMA WireGoesOn ==
    ASSUME PipelineInv, After, NEW last \in BOOLEAN, Went(last), reply' = reply,
           phase' = "sending" => ~last /\ Len(wire) <= MaxParts
    PROVE  /\ WireOK' /\ Len(wire') <= MaxParts + 2 /\ wire' # <<>>
           /\ last => wire'[Len(wire')].type = "end"
<1>1. /\ path' = path /\ WireOK /\ wire # <<>> /\ Len(wire) <= MaxParts + 1
      /\ \A i \in 1 .. Len(wire) : wire[i].type # "end"
  BY AfterSettled DEF PipelineInv, Progress, Settled, asked, Went, WireOK
<1>2. wire \in Seq(Messages) /\ wire' = Append(wire, Piece(last)) /\ Piece(last) \in Messages
  BY <1>1, PieceFacts DEF WireOK, Went
<1>3. /\ wire' \in Seq(Messages) /\ Len(wire') = Len(wire) + 1 /\ Len(wire) \in Nat \ {0}
      /\ \A i \in 1 .. Len(wire) : wire'[i] = wire[i]
      /\ wire'[Len(wire) + 1] = Piece(last)
  BY <1>1, <1>2, AppendProperties, EmptySeq
<1>4. /\ wire'[1] = wire[1] /\ wire' # <<>> /\ 1 \in 1 .. Len(wire)
      /\ \A i \in 1 .. Len(wire') : i \in 1 .. Len(wire) \/ i = Len(wire')
  BY <1>3
<1>5. Piece(last).type = IF last THEN "end" ELSE "part"
  BY PieceFacts
<1>6. \A i \in 2 .. Len(wire') : wire'[i].type \in {"part", "end"}
  <2>1. \A i \in 2 .. Len(wire) : wire[i].type \in {"part", "end"} /\ i \in 1 .. Len(wire)
    BY <1>1, <1>3 DEF WireOK
  <2>2. \A i \in 2 .. Len(wire') : i \in 2 .. Len(wire) \/ i = Len(wire) + 1
    BY <1>3
  <2>. QED
    BY <1>3, <1>5, <2>1, <2>2
<1>7. \A i \in 1 .. Len(wire') : wire'[i].type = "end" => i = Len(wire') /\ last
  BY <1>1, <1>3, <1>4, <1>5
<1>8. phase' = "sending" => /\ Len(wire') <= MaxParts + 1
                            /\ \A i \in 1 .. Len(wire') : wire'[i].type # "end"
  BY <1>3, <1>7, PipelineAssumption
<1>9. wire[1].type = "start" /\ wire[1].status = reply.status
      /\ (path \in Protected => wire[1].cache = "no-store")
  BY <1>1 DEF WireOK
<1>10. WireOK'
  BY <1>1, <1>3, <1>4, <1>6, <1>7, <1>8, <1>9 DEF WireOK
<1>. QED
  BY <1>1, <1>3, <1>4, <1>5, <1>10, PipelineAssumption

\* What is counted, and what is recorded.
Counts ==
    /\ phase \in Phases
    /\ started \in BOOLEAN
    /\ completed \in BOOLEAN
    /\ status \in Nat
    /\ Len(wire) <= MaxParts + 2

\* After an answer, what is counted and recorded is what was sent.
LEMMA AfterSent ==
    ASSUME PipelineInv, After
    PROVE  Counts' /\ Progress' /\ WireOK' /\ Recorded'
<1>1. /\ Counts /\ Progress /\ WireOK /\ Recorded
      /\ reply.status \in Nat /\ MaxParts \in Nat
  BY PipelineAssumption DEF PipelineInv, TypeOK, Counts
<1>. USE <1>1 DEF Counts, Progress, Recorded, Phases, Unanswered, Continue
<1>2. CASE Cancel
  <2>1. UNCHANGED <<reply, started, status, completed, wire, records>> /\ phase' = "leaving"
    BY <1>2 DEF Cancel, sending
  <2>. QED
    BY <1>2, <2>1, WireStays DEF Cancel
<1>3. CASE SendStart
  <2>1. /\ reply' = reply /\ started' = TRUE /\ status' = reply.status /\ Began
        /\ UNCHANGED <<completed, records>> /\ phase = "replying" /\ phase' = "sending"
    BY <1>3 DEF SendStart, Began
  <2>2. WireOK' /\ Len(wire') = 1 /\ wire' # <<>>
    BY <2>1, WireBegins
  <2>3. ~completed
    BY <2>1
  <2>. QED
    BY <2>1, <2>2, <2>3
<1>4. CASE SendPart
  <2>1. /\ reply' = reply /\ Went(FALSE) /\ Len(wire) <= MaxParts
        /\ UNCHANGED <<phase, started, status, completed, records>> /\ phase = "sending"
    BY <1>4 DEF SendPart, Went
  <2>2. WireOK' /\ Len(wire') <= MaxParts + 2 /\ wire' # <<>>
    BY <2>1, WireGoesOn
  <2>. QED
    BY <2>1, <2>2
<1>5. CASE SendEnd
  <2>1. /\ reply' = reply /\ Went(TRUE) /\ completed' = TRUE
        /\ UNCHANGED <<started, status, records>> /\ phase = "sending" /\ phase' = "leaving"
    BY <1>5 DEF SendEnd, Went
  <2>2. /\ WireOK' /\ Len(wire') <= MaxParts + 2 /\ wire' # <<>>
        /\ wire'[Len(wire')].type = "end"
    BY <2>1, WireGoesOn
  <2>. QED
    BY <2>1, <2>2
<1>6. CASE StreamEndsEarly
  <2>1. /\ UNCHANGED <<reply, started, status, completed, wire, records>>
        /\ phase = "sending" /\ phase' \in {"raising", "leaving"}
    BY <1>6 DEF StreamEndsEarly, sending
  <2>2. WireOK' /\ Len(wire') <= MaxParts + 2
    BY <2>1, WireStays
  <2>. QED
    BY <2>1, <2>2
<1>7. CASE SendRaises
  <2>1. /\ reply' = reply /\ started' = TRUE /\ UNCHANGED <<status, completed, records>>
        /\ phase \in {"replying", "sending"} /\ phase' \in {"raising", "leaving"}
        /\ wire' = wire \/ Began \/ Went(TRUE)
    BY <1>7 DEF SendRaises, Began, Went
  <2>2. ~completed
    BY <2>1
  <2>3. /\ WireOK' /\ Len(wire') <= MaxParts + 2
        /\ wire # <<>> => wire' # <<>>
    <3>1. CASE wire' = wire
      <4>1. phase' # "sending" /\ reply' = reply
        BY <2>1
      <4>2. WireOK' /\ Len(wire') <= MaxParts + 2
        BY <3>1, <4>1, WireStays
      <4>. QED
        BY <3>1, <4>2
    <3>2. CASE Began
      <4>1. WireOK' /\ Len(wire') = 1 /\ wire' # <<>>
        BY <2>1, <3>2, WireBegins
      <4>. QED
        BY <4>1
    <3>3. CASE Went(TRUE)
      BY <2>1, <3>3, WireGoesOn
    <3>. QED
      BY <2>1, <3>1, <3>2, <3>3
  <2>. QED
    BY <2>1, <2>2, <2>3
<1>8. CASE Unwind
  <2>1. /\ UNCHANGED <<started, status, completed, wire, records>> /\ phase = "raising"
        /\ \/ started /\ phase' = "leaving" /\ reply' = reply
           \/ ~started /\ phase' = "replying"
    BY <1>8 DEF Unwind, sending
  <2>2. WireOK' /\ Len(wire') <= MaxParts + 2
    BY <2>1, WireStays
  <2>. QED
    BY <2>1, <2>2
<1>9. CASE Record
  <2>1. /\ UNCHANGED <<reply, started, status, completed, wire, provider, failure>>
        /\ phase = "leaving" /\ phase' = "done"
        /\ records' = Append(records, [status |-> status, completed |-> completed,
                                       provider |-> provider, failure |-> failure])
    BY <1>9 DEF Record, observed
  <2>2. records = <<>>
    BY <2>1
  <2>3. WireOK' /\ Len(wire') <= MaxParts + 2
    BY <2>1, WireStays
  <2>4. Recorded'
    BY <2>1, <2>2
  <2>. QED
    BY <2>1, <2>3, <2>4
<1>. QED
  BY <1>2, <1>3, <1>4, <1>5, <1>6, <1>7, <1>8, <1>9 DEF After, Send

-----------------------------------------------------------------------------
\* The invariant holds, and what follows from it of the exchange.

\* What a request was given stays as it was.
LEMMA GivenKept ==
    ASSUME PipelineInv, UNCHANGED <<routing, path, request>>
    PROVE  Given'
BY DEF PipelineInv, Given

\* Every step keeps the invariant.
LEMMA PipelineStep ==
    ASSUME PipelineInv, Next
    PROVE  PipelineInv'
<1>1. CASE BeforeAnswer
  <2>1. /\ Routed' /\ Progress' /\ WireOK' /\ Attributed' /\ Recorded' /\ Converted'
        /\ phase' \in Phases /\ body' \in 0 .. BodyLimit
        /\ provider' \in {"none", "local", "openai"}
        /\ failure' \in {"none", "local_deadline", "local_unreachable", "local_invalid_body"}
        /\ relayed' # <<>> => path' = "responses"
        /\ upstream' # Null => path' \in {"embeddings", "responses"}
    BY <1>1, BeforeSent, BeforeRouted, BeforeBody, BeforeAnswered, BeforeConverted
  <2>2. /\ reply'.status \in Nat
        /\ reply'.streamed \in BOOLEAN
        /\ reply'.internal \in BOOLEAN
    BY <1>1, BeforeAnswered
  <2>3. UNCHANGED <<routing, path, request, started, status, completed, wire, records>>
    BY <1>1, BeforeApproaches DEF Approaches, asked, sending
  <2>4. Given'
    BY <2>3, GivenKept
  <2>5. TypeOK'
    BY <2>1, <2>2, <2>3 DEF PipelineInv, TypeOK
  <2>. QED
    BY <2>1, <2>4, <2>5 DEF PipelineInv
<1>2. CASE After
  <2>1. /\ Routed' /\ Progress' /\ WireOK' /\ Attributed' /\ Recorded' /\ Converted' /\ Counts'
    BY <1>2, AfterKept, AfterSent
  <2>2. /\ reply'.status \in Nat
        /\ reply'.streamed \in BOOLEAN
        /\ reply'.internal \in BOOLEAN
    BY <1>2, AfterKept
  <2>3. UNCHANGED <<routing, path, request, upstream, relayed, body, provider, failure>>
    BY <1>2, AfterSettled DEF Settled, asked, came
  <2>4. Given'
    BY <2>3, GivenKept
  <2>5. Len(records') <= 1
    <3>. DEFINE r == [status |-> status', completed |-> completed',
                      provider |-> provider', failure |-> failure']
    <3>1. Recorded'
      BY <2>1
    <3>2. records' = <<>> \/ records' = <<r>>
      BY <3>1 DEF Recorded
    <3>. HIDE DEF r
    <3>3. CASE records' = <<>>
      BY <3>3
    <3>4. CASE records' = <<r>>
      BY <3>4
    <3>. QED
      BY <3>2, <3>3, <3>4
  <2>6. TypeOK'
    BY <2>1, <2>2, <2>3, <2>5 DEF PipelineInv, TypeOK, Counts
  <2>. QED
    BY <2>1, <2>4, <2>6 DEF PipelineInv
<1>. QED
  BY <1>1, <1>2 DEF Next, BeforeAnswer, After

\* A new request has had nothing done to it.
LEMMA PipelineBegins == Init => PipelineInv
<1>. SUFFICES ASSUME Init PROVE PipelineInv
  OBVIOUS
<1>1. /\ reply = NoReply /\ reply.status = 0 /\ reply.streamed = FALSE /\ reply.internal = FALSE
      /\ wire = <<>> /\ Len(wire) = 0 /\ records = <<>> /\ Len(records) = 0
  BY DEF Init, NoReply, NoStatus
<1>2. TypeOK
  <2>1. reply.streamed \in BOOLEAN
    BY <1>1
  <2>2. reply.internal \in BOOLEAN
    BY <1>1
  <2>3. 0 \in 0 .. BodyLimit /\ 0 <= MaxParts + 2
    BY PipelineAssumption
  <2>4. started \in BOOLEAN
    BY DEF Init
  <2>5. completed \in BOOLEAN
    BY DEF Init
  <2>. QED
    BY <1>1, <2>1, <2>2, <2>3, <2>4, <2>5 DEF Init, TypeOK, Phases, NoStatus
<1>3. Routed /\ Attributed /\ Recorded
  BY <1>1 DEF Init, Routed, Attributed, Recorded
<1>4. Progress
  BY <1>1 DEF Init, Progress, Untouched, NoStatus
<1>5. WireOK
  BY <1>1 DEF Init, WireOK
<1>6. Converted
  BY <1>1 DEF Init, Converted, Answered
<1>7. Given
  BY PipelineAssumption DEF Init, Given
<1>. QED
  BY <1>2, <1>3, <1>4, <1>5, <1>6, <1>7 DEF PipelineInv

\* Of every reachable state: what is counted has been sent, what is on the wire
\* is of the reply, whose provider is noted, and a converted answer is of a
\* request that was accepted and a body that was checked.
THEOREM PipelineInvariance == Spec => []PipelineInv
<1>1. PipelineInv /\ UNCHANGED vars => PipelineInv'
  BY DEF vars, asked, came, observed, PipelineInv, TypeOK, Routed, Progress, WireOK, Attributed,
     Recorded, Converted, Given, Untouched, Answered, ValidNative
<1>. QED
  BY <1>1, PipelineBegins, PipelineStep, PTL DEF Spec

\* Every variable keeps its type, and no route gets more of a body than the limit,
\* whatever length was declared (RequestBodyLimitMiddleware).
THEOREM TypeCorrect == Spec => []TypeOK
BY PipelineInvariance, PTL DEF PipelineInv

\* One response, and a record that says what became of it, whatever is cancelled,
\* raises or is broken off (ObservabilityMiddleware, CacheControlMiddleware).
THEOREM ExchangeIsTruthful == Spec => []OneTruthfulExchange
<1>1. ASSUME PipelineInv
      PROVE  OneTruthfulExchange
  <2>1. WireOK /\ Len(wire) \in Nat /\ (wire # <<>> => Len(wire) >= 1)
    <3>1. WireOK
      BY <1>1 DEF PipelineInv
    <3>2. wire \in Seq(Messages)
      BY <3>1 DEF WireOK
    <3>. QED
      BY <3>1, <3>2, EmptySeq
  <2>2. wire # <<>> => Starts = {1}
    <3>. SUFFICES ASSUME wire # <<>> PROVE Starts = {1}
      OBVIOUS
    <3>1. 1 \in 1 .. Len(wire) /\ wire[1].type = "start"
      BY <2>1 DEF WireOK
    <3>2. \A i \in 1 .. Len(wire) : i = 1 \/ i \in 2 .. Len(wire)
      BY <2>1
    <3>3. \A i \in 2 .. Len(wire) : wire[i].type # "start"
      BY <2>1 DEF WireOK
    <3>. QED
      BY <3>1, <3>2, <3>3 DEF Starts
  <2>3. wire = <<>> => Starts = {}
    BY DEF Starts
  <2>4. OneResponse
    <3>1. \A i \in Starts : i = 1 /\ wire # <<>>
      BY <2>2, <2>3
    <3>. QED
      BY <2>1, <2>2, <3>1 DEF WireOK, OneResponse
  <2>5. RecordTellsTruth
    <3>1. Progress /\ Attributed /\ WireOK
      BY <1>1 DEF PipelineInv
    <3>. DEFINE r == [status |-> status, completed |-> completed,
                      provider |-> provider, failure |-> failure]
    <3>2. /\ r.status = status /\ r.provider = provider /\ r.failure = failure
          /\ r.completed = completed
      OBVIOUS
    <3>3. records = <<>> \/ records = <<r>>
      BY <1>1 DEF PipelineInv, Recorded
    <3>4. /\ status # NoStatus => Starts # {} /\ wire[1].status = status
          /\ completed => wire[Len(wire)].type = "end"
          /\ provider # "none" /\ status # NoStatus =>
                 /\ status \in {200, 400}
                 /\ failure = "none" \/ provider = "openai"
          /\ path = "embeddings" /\ status = 200 => provider = "local"
      <4>1. status # NoStatus => status = reply.status /\ wire # <<>>
        BY <3>1 DEF Progress
      <4>2. status # NoStatus => Starts # {} /\ wire[1].status = status
        BY <2>2, <3>1, <4>1 DEF WireOK
      <4>3. completed => wire[Len(wire)].type = "end"
        BY <3>1 DEF Progress
      <4>4. provider # "none" /\ status # NoStatus =>
                /\ status \in {200, 400}
                /\ failure = "none" \/ provider = "openai"
        BY <3>1, <4>1 DEF Attributed
      <4>5. path = "embeddings" /\ status = 200 => provider = "local"
        BY <3>1, <4>1 DEF Attributed, NoStatus
      <4>. QED
        BY <4>2, <4>3, <4>4, <4>5
    <3>. HIDE DEF r
    <3>5. CASE records = <<>>
      BY <3>5 DEF RecordTellsTruth
    <3>6. CASE records = <<r>>
      <4>1. \A k \in 1 .. Len(records) : records[k] = r
        BY <3>6
      <4>. QED
        BY <4>1, <3>2, <3>4 DEF RecordTellsTruth
    <3>. QED
      BY <3>3, <3>5, <3>6
  <2>. QED
    BY <2>4, <2>5 DEF OneTruthfulExchange
<1>. QED
  BY <1>1, PipelineInvariance, PTL

-----------------------------------------------------------------------------
\* What is inside JSON.

\* A value is inside itself.
LEMMA InsideItself == \A v : v \in Inside(v)
BY DEF Inside, WithParts

\* A value inside is of one of the kinds, and what it holds is inside too.
LEMMA InsideFacts ==
    ASSUME NEW v, IsJson(v), NEW w \in Inside(v)
    PROVE  /\ Parts(w) \subseteq Inside(v)
           /\ w.is = "number" => w.value \in Int
           /\ w.is = "list" => /\ w.items \in Seq({w.items[i] : i \in DOMAIN w.items})
                               /\ Len(w.items) \in Nat
                               /\ DOMAIN w.items = 1 .. Len(w.items)
           /\ w.is = "string" => /\ w = [is |-> "string", text |-> w.text,
                                         encodable |-> w.encodable]
                                 /\ w.encodable \in BOOLEAN
<1>1. Parts(w) \subseteq Inside(v)
  <2>1. WithParts(Inside(v)) = Inside(v)
    BY DEF IsJson
  <2>. QED
    BY <2>1 DEF WithParts
<1>2. \/ w.is \in {"garbled", "null", "boolean", "object"}
      \/ w.is = "list" /\ w.items \in Seq({w.items[i] : i \in DOMAIN w.items})
      \/ w.is = "number" /\ w.value \in Int
      \/ /\ w.is = "string"
         /\ w = [is |-> "string", text |-> w.text, encodable |-> w.encodable]
         /\ w.encodable \in BOOLEAN
  BY DEF IsJson
<1>. QED
  BY <1>1, <1>2

\* A field of an object is inside, or missing.
LEMMA FieldInside ==
    ASSUME NEW v, IsJson(v), NEW w \in Inside(v), w.is = "object", NEW f
    PROVE  Get(w, f) \in Inside(v) \/ Get(w, f) = Null
BY InsideFacts DEF Get, Parts

\* An item of a list is inside.
LEMMA ItemInside ==
    ASSUME NEW v, IsJson(v), NEW w \in Inside(v), w.is = "list", NEW i \in DOMAIN w.items
    PROVE  w.items[i] \in Inside(v)
BY InsideFacts DEF Parts

\* A string of a body that is accepted is the one with its text.
LEMMA TextInside ==
    ASSUME NEW v, IsJson(v), Representable(v), NEW w \in Inside(v), w.is = "string"
    PROVE  w = Str(w.text)
<1>1. w = [is |-> "string", text |-> w.text, encodable |-> w.encodable] /\ w.encodable \in BOOLEAN
  BY InsideFacts
<1>2. w.encodable
  BY DEF Representable
<1>3. w.encodable = TRUE
  BY <1>1, <1>2
<1>. QED
  BY <1>1, <1>3 DEF Str

-----------------------------------------------------------------------------
\* The embeddings route.

\* A table that could be built resolves every route that is required.
LEMMA RequiredResolved ==
    ASSUME NEW document, IsJson(document), Builds(document), NEW endpoint, NEW alias,
           <<endpoint, alias>> \in REQUIRED_ROUTES
    PROVE  Resolve(document, endpoint, alias) # Null
<1>. DEFINE
    list == Get(document, "routes")
    entries == list.items
    matching == {i \in DOMAIN entries : RouteKey(entries[i]) = <<endpoint, alias>>}
    m == CHOOSE i \in matching : \A j \in matching : j <= i
<1>1. list \in Inside(document) /\ list.is = "list"
  <2>1. list.is = "list" /\ document.is = "object"
    BY DEF Builds
  <2>2. list # Null
    BY <2>1 DEF Null
  <2>. QED
    BY <2>1, <2>2, InsideItself, FieldInside
<1>2. Len(entries) \in Nat /\ DOMAIN entries = 1 .. Len(entries)
  BY <1>1, InsideFacts
<1>3. /\ REQUIRED_ROUTES \subseteq {RouteKey(entries[i]) : i \in DOMAIN entries}
      /\ \A i \in DOMAIN entries : IsRoute(entries[i])
  BY DEF Builds
<1>. HIDE DEF entries
<1>4. matching # {} /\ matching \subseteq 0 .. Len(entries)
  BY <1>2, <1>3
<1>5. \E i \in matching : \A j \in matching : j <= i
  <2>. HIDE DEF matching
  <2>. QED
    BY <1>2, <1>4, GreatestNatural
<1>6. m \in matching
  <2>. HIDE DEF matching
  <2>. QED
    BY <1>5
<1>7. IsConfigText(entries[m], "model")
  BY <1>3, <1>6 DEF IsRoute
<1>8. Get(entries[m], "model") # Null
  <2>1. Get(entries[m], "model").is = "string"
    BY <1>7 DEF IsConfigText, IsText
  <2>2. Null.is = "null"
    BY DEF Null
  <2>. QED
    BY <2>1, <2>2
<1>9. Resolve(document, endpoint, alias) = Get(entries[m], "model")
  BY <1>4 DEF Resolve, entries
<1>. QED
  BY <1>8, <1>9

\* Half a unit is lost at most.
LEMMA SingleFacts ==
    ASSUME NEW n \in Int
    PROVE  Single(n) - n \in -1 .. 1
BY DEF Single

\* A vector is brought to as many dimensions as asked, of which those the local
\* server gave keep their values to the precision of the format.
LEMMA EncodedFacts ==
    ASSUME NEW values, NEW dimensions \in Nat, NEW format,
           \A k \in 1 .. NativeDimensions : values[k] \in Int
    PROVE  LET made == EncodeEmbedding(PadToDimensions(values, dimensions), format)
           IN  /\ made.format = format
               /\ Len(made.values) = dimensions
               /\ DOMAIN made.values = 1 .. dimensions
               /\ \A k \in 1 .. dimensions :
                      made.values[k] - (IF k <= NativeDimensions THEN values[k] ELSE 0)
                      \in IF format = "base64" THEN -1 .. 1 ELSE {0}
<1>. DEFINE
    padded == PadToDimensions(values, dimensions)
    made == EncodeEmbedding(padded, format)
<1>1. /\ DOMAIN padded = 1 .. dimensions /\ Len(padded) = dimensions
      /\ \A k \in 1 .. dimensions :
             padded[k] = (IF k <= NativeDimensions THEN values[k] ELSE 0) /\ padded[k] \in Int
  BY DimensionsAssumption DEF PadToDimensions
<1>. HIDE DEF padded
<1>2. CASE format = "base64"
  <2>1. made.format = format /\ made.values = [k \in 1 .. dimensions |-> Single(padded[k])]
    BY <1>1, <1>2 DEF EncodeEmbedding
  <2>2. \A k \in 1 .. dimensions : Single(padded[k]) - padded[k] \in -1 .. 1
    BY <1>1, SingleFacts
  <2>. HIDE DEF made
  <2>3. \A k \in 1 .. dimensions :
            made.values[k] - (IF k <= NativeDimensions THEN values[k] ELSE 0) \in -1 .. 1
    BY <1>1, <2>1, <2>2
  <2>4. DOMAIN made.values = 1 .. dimensions /\ Len(made.values) = dimensions
    BY <2>1
  <2>. QED
    BY <1>2, <2>1, <2>3, <2>4 DEF made, padded
<1>3. CASE format # "base64"
  <2>1. made.format = format /\ made.values = padded
    BY <1>3 DEF EncodeEmbedding
  <2>2. \A k \in 1 .. dimensions :
            padded[k] - (IF k <= NativeDimensions THEN values[k] ELSE 0) \in {0}
    BY <1>1
  <2>. HIDE DEF made
  <2>. QED
    BY <1>1, <1>3, <2>1, <2>2 DEF made, padded
<1>. QED
  BY <1>2, <1>3

\* What the route answers with is one vector for each text, in their order.
LEMMA VectorsAsAsked ==
    ASSUME NEW asking, ValidEmbeddingRequest(asking), NEW native, IsJson(native), NEW model,
           IsValidEmbeddingBody(native, ExpectedVectorCount(Get(asking, "input")), model)
    PROVE  LET input == Get(asking, "input")
               vectors == Get(native, "embeddings").items
               data == EmbeddingsResponse(asking, native).data
           IN  /\ Len(data) = IF input.is = "list" THEN Len(input.items) ELSE 1
               /\ \A i \in DOMAIN data :
                   /\ data[i].index = i - 1
                   /\ Len(data[i].embedding.values) =
                          IF Get(asking, "model").text = "embed"
                          THEN NativeDimensions ELSE CompatDimensions
                   /\ \A k \in DOMAIN data[i].embedding.values :
                       /\ k <= NativeDimensions => vectors[i].items[k].single
                       /\ data[i].embedding.values[k] -
                              (IF k <= NativeDimensions THEN vectors[i].items[k].value ELSE 0)
                          \in IF data[i].embedding.format = "base64" THEN -1 .. 1 ELSE {0}
<1>. DEFINE
    input == Get(asking, "input")
    list == Get(native, "embeddings")
    vectors == list.items
    count == Len(vectors)
    alias == Get(asking, "model").text
    format == IF Has(asking, "encoding_format")
              THEN Get(asking, "encoding_format").text ELSE "float"
    Plain(i) == [k \in DOMAIN vectors[i].items |-> vectors[i].items[k].value]
    Made(i) == EncodeEmbedding(PadToDimensions(Plain(i), AliasDimensions(alias)), format)
    data == EmbeddingsResponse(asking, native).data
<1>1. list \in Inside(native) /\ list.is = "list" /\ count = ExpectedVectorCount(input)
      /\ \A i \in DOMAIN vectors : IsValidVector(vectors[i])
  <2>1. /\ list.is = "list" /\ native.is = "object" /\ count = ExpectedVectorCount(input)
        /\ \A i \in DOMAIN vectors : IsValidVector(vectors[i])
    BY DEF IsValidEmbeddingBody, StandardObject
  <2>2. Null.is = "null"
    BY DEF Null
  <2>3. list # Null
    BY <2>1, <2>2
  <2>. QED
    BY <2>1, <2>3, InsideItself, FieldInside
<1>2. count \in Nat /\ DOMAIN vectors = 1 .. count
  BY <1>1, InsideFacts
<1>3. count = IF input.is = "list" THEN Len(input.items) ELSE 1
  <2>1. input.is = "string" \/ input.is = "list"
    BY DEF ValidEmbeddingRequest, IsEmbeddingInput, IsText
  <2>. QED
    BY <1>1, <2>1 DEF ExpectedVectorCount
<1>4. AliasDimensions(alias) = (IF alias = "embed" THEN NativeDimensions ELSE CompatDimensions)
      /\ AliasDimensions(alias) \in Nat
  BY DimensionsAssumption DEF AliasDimensions
<1>5. data = [i \in DOMAIN vectors |-> [index |-> i - 1, embedding |-> Made(i)]]
  BY DEF EmbeddingsResponse
<1>6. ASSUME NEW i \in 1 .. count
      PROVE  /\ Made(i).format = format
             /\ Len(Made(i).values) = AliasDimensions(alias)
             /\ DOMAIN Made(i).values = 1 .. AliasDimensions(alias)
             /\ \A k \in 1 .. AliasDimensions(alias) :
                 /\ k <= NativeDimensions => vectors[i].items[k].single
                 /\ Made(i).values[k] -
                        (IF k <= NativeDimensions THEN vectors[i].items[k].value ELSE 0)
                    \in IF format = "base64" THEN -1 .. 1 ELSE {0}
  <2>. DEFINE items == vectors[i].items
  <2>1. vectors[i] \in Inside(native) /\ vectors[i].is = "list" /\ Len(items) = NativeDimensions
        /\ \A k \in DOMAIN items : items[k].is = "number" /\ items[k].single
    BY <1>1, <1>2, ItemInside DEF IsValidVector
  <2>2. DOMAIN items = 1 .. NativeDimensions
    BY <2>1, InsideFacts
  <2>3. \A k \in 1 .. NativeDimensions : items[k] \in Inside(native)
    BY <2>1, <2>2, ItemInside
  <2>4. \A k \in 1 .. NativeDimensions : items[k].value \in Int
    BY <2>1, <2>2, <2>3, InsideFacts
  <2>5. \A k \in 1 .. NativeDimensions : Plain(i)[k] = items[k].value
    BY <2>2
  <2>6. \A k \in 1 .. NativeDimensions : Plain(i)[k] \in Int
    BY <2>4, <2>5
  <2>7. /\ Made(i).format = format
        /\ Len(Made(i).values) = AliasDimensions(alias)
        /\ DOMAIN Made(i).values = 1 .. AliasDimensions(alias)
        /\ \A k \in 1 .. AliasDimensions(alias) :
               Made(i).values[k] - (IF k <= NativeDimensions THEN Plain(i)[k] ELSE 0)
               \in IF format = "base64" THEN -1 .. 1 ELSE {0}
    <3>. HIDE DEF Plain, format, alias
    <3>. QED
      BY <1>4, <2>6, EncodedFacts
  <2>8. \A k \in 1 .. AliasDimensions(alias) :
            (IF k <= NativeDimensions THEN Plain(i)[k] ELSE 0)
            = (IF k <= NativeDimensions THEN items[k].value ELSE 0)
    <3>. HIDE DEF Plain, items
    <3>. QED
      BY <1>4, <2>5
  <2>9. \A k \in 1 .. AliasDimensions(alias) : k <= NativeDimensions => items[k].single
    BY <1>4, <2>1, <2>2, DimensionsAssumption
  <2>. HIDE DEF Plain, Made
  <2>. QED
    BY <2>7, <2>8, <2>9
<1>. HIDE DEF Made, format, data, vectors, alias, input
<1>7. Len(data) = count /\ DOMAIN data = 1 .. count
  BY <1>2, <1>5
<1>8. \A i \in 1 .. count : data[i].index = i - 1 /\ data[i].embedding = Made(i)
  BY <1>2, <1>5
<1>9. ASSUME NEW i \in DOMAIN data
      PROVE  /\ data[i].index = i - 1
             /\ Len(data[i].embedding.values) =
                    IF alias = "embed" THEN NativeDimensions ELSE CompatDimensions
             /\ \A k \in DOMAIN data[i].embedding.values :
                 /\ k <= NativeDimensions => vectors[i].items[k].single
                 /\ data[i].embedding.values[k] -
                        (IF k <= NativeDimensions THEN vectors[i].items[k].value ELSE 0)
                    \in IF data[i].embedding.format = "base64" THEN -1 .. 1 ELSE {0}
  <2>1. i \in 1 .. count
    BY <1>7
  <2>2. data[i].embedding = Made(i) /\ data[i].index = i - 1
    BY <1>8, <2>1
  <2>. QED
    BY <1>4, <1>6, <2>1, <2>2
<1>. QED
  BY <1>3, <1>7, <1>9 DEF data, vectors, alias, input

\* Whoever is sent vectors gets one for each text, in order, in the dimensions of
\* the alias, each with a float32 and the local server's; and no request fails for want of a route
\* (create_embeddings, RoutingTable), for any table and any JSON.
THEOREM EmbeddingsAreMatched == Spec => []EmbeddingsMatchInputs
<1>1. ASSUME PipelineInv
      PROVE  EmbeddingsMatchInputs
  <2>1. Converted /\ Given
    BY <1>1 DEF PipelineInv
  <2>2. ASSUME Answered("embeddings")
        PROVE  LET input == Get(request, "input")
                   vectors == Get(upstream, "embeddings").items
                   data == reply.content.data
               IN  /\ Len(data) = IF input.is = "list" THEN Len(input.items) ELSE 1
                   /\ \A i \in DOMAIN data :
                       /\ data[i].index = i - 1
                       /\ Len(data[i].embedding.values) =
                              IF Get(request, "model").text = "embed"
                              THEN NativeDimensions ELSE CompatDimensions
                       /\ \A k \in DOMAIN data[i].embedding.values :
                           /\ k <= NativeDimensions => vectors[i].items[k].single
                           /\ data[i].embedding.values[k] -
                                  (IF k <= NativeDimensions THEN vectors[i].items[k].value ELSE 0)
                              \in IF data[i].embedding.format = "base64" THEN -1 .. 1 ELSE {0}
    <3>1. /\ ValidEmbeddingRequest(request) /\ ValidNative(upstream)
          /\ reply.content = EmbeddingsResponse(request, upstream)
      BY <2>1, <2>2 DEF Converted
    <3>2. IsJson(upstream)
      BY <2>1, <2>2, PipelineAssumption DEF Converted
    <3>. QED
      BY <3>1, <3>2, VectorsAsAsked DEF ValidNative
  <2>3. \A endpoint, alias : <<endpoint, alias>> \in REQUIRED_ROUTES =>
            Resolve(routing, endpoint, alias) # Null
    BY <2>1, RequiredResolved DEF Given
  <2>4. <<"embeddings", "embed">> \in REQUIRED_ROUTES /\ <<"chat", "vision">> \in REQUIRED_ROUTES
    BY DEF REQUIRED_ROUTES
  <2>5. /\ Resolve(routing, "embeddings", "embed") # Null
        /\ Resolve(routing, "chat", "vision") # Null
    BY <2>3, <2>4
  <2>. QED
    BY <2>2, <2>5 DEF EmbeddingsMatchInputs
<1>. QED
  BY <1>1, PipelineInvariance, PTL

-----------------------------------------------------------------------------
\* The responses route.

\* The choice a body is converted from is one that has something to say.
LEMMA OutputChosen ==
    ASSUME NEW chat, IsJson(chat), ConvertibleBody(chat)
    PROVE  LET choices == Get(chat, "choices").items
           IN  \E i \in DOMAIN choices :
                   /\ ChatOutput(chat) = choices[i]
                   /\ choices[i] \in Inside(chat)
                   /\ IsOutput(choices[i])
<1>. DEFINE
    list == Get(chat, "choices")
    choices == list.items
    I == {i \in 1 .. Len(choices) : IsOutput(choices[i])}
    first == CHOOSE i \in I : \A j \in I : i <= j
<1>1. /\ list.is = "list" /\ chat.is = "object"
      /\ \E i \in DOMAIN choices : IsOutput(choices[i])
  BY DEF ConvertibleBody, StandardObject
<1>2. list \in Inside(chat)
  <2>1. Null.is = "null"
    BY DEF Null
  <2>2. list # Null
    BY <1>1, <2>1
  <2>. QED
    BY <1>1, <2>2, InsideItself, FieldInside
<1>3. DOMAIN choices = 1 .. Len(choices) /\ Len(choices) \in Nat
  BY <1>1, <1>2, InsideFacts
<1>4. I # {} /\ I \subseteq Nat
  BY <1>1, <1>3
<1>5. ChatOutput(chat) = choices[first]
  BY <1>4 DEF ChatOutput, SelectInSeq, Min
<1>6. first \in I
  <2>. HIDE DEF I
  <2>1. \E i \in I : \A j \in I : i <= j
    BY <1>4, LeastNatural
  <2>. QED
    BY <2>1
<1>7. first \in DOMAIN choices /\ IsOutput(choices[first])
  <2>. HIDE DEF first
  <2>. QED
    BY <1>3, <1>6
<1>8. choices[first] \in Inside(chat)
  <2>. HIDE DEF first
  <2>. QED
    BY <1>1, <1>2, <1>7, ItemInside
<1>. QED
  BY <1>5, <1>7, <1>8

\* What is answered is the text of that choice, and how it ended.
LEMMA SuccessFacts ==
    ASSUME NEW asking, NEW chat, IsJson(chat), ConvertibleBody(chat)
    PROVE  LET choices == Get(chat, "choices").items
               content == ResponsesSuccess(asking, chat)
           IN  \E i \in DOMAIN choices :
                   /\ choices[i].is = "object"
                   /\ Get(choices[i], "message").is = "object"
                   /\ Get(Get(choices[i], "message"), "content") = Str(content.text)
                   /\ content.status = "completed" <=> Get(choices[i], "finish_reason") = Str("stop")
                   /\ content.status = "incomplete" =>
                          Get(choices[i], "finish_reason").text \in {"length", "content_filter"}
<1>. DEFINE
    choices == Get(chat, "choices").items
    content == ResponsesSuccess(asking, chat)
<1>1. PICK i \in DOMAIN choices :
          /\ ChatOutput(chat) = choices[i]
          /\ choices[i] \in Inside(chat)
          /\ IsOutput(choices[i])
  BY OutputChosen
<1>. DEFINE
    message == Get(choices[i], "message")
    text == Get(message, "content")
    reason == Get(choices[i], "finish_reason")
<1>2. /\ choices[i].is = "object" /\ message.is = "object"
      /\ text.is = "string" /\ reason.is = "string"
      /\ reason.text \in {"stop"} \cup DOMAIN IncompleteReasons
  BY <1>1 DEF IsOutput, IsText
<1>3. Representable(chat)
  BY DEF ConvertibleBody, StandardObject, Standard
<1>4. Null.is = "null"
  BY DEF Null
<1>5. message \in Inside(chat) /\ reason \in Inside(chat)
  <2>1. message # Null /\ reason # Null
    BY <1>2, <1>4
  <2>. QED
    BY <1>1, <1>2, <2>1, FieldInside
<1>6. text \in Inside(chat)
  <2>1. text # Null
    BY <1>2, <1>4
  <2>. QED
    BY <1>2, <1>5, <2>1, FieldInside
<1>7. text = Str(text.text) /\ reason = Str(reason.text)
  BY <1>2, <1>3, <1>5, <1>6, TextInside
<1>8. /\ content.text = text.text
      /\ content.status = IF reason.text = "stop" THEN "completed" ELSE "incomplete"
  BY <1>1 DEF ResponsesSuccess
<1>. HIDE DEF content, reason, text
<1>9. content.status = "completed" <=> reason = Str("stop")
  <2>1. CASE reason.text = "stop"
    BY <1>7, <1>8, <2>1
  <2>2. CASE reason.text # "stop"
    <3>1. reason # Str("stop")
      <4>1. Str("stop").text = "stop"
        BY DEF Str
      <4>. QED
        BY <2>2, <4>1
    <3>. QED
      BY <1>8, <2>2, <3>1
  <2>. QED
    BY <2>1, <2>2
<1>10. content.status = "incomplete" => reason.text \in {"length", "content_filter"}
  <2>1. DOMAIN IncompleteReasons = {"length", "content_filter"}
    BY DEF IncompleteReasons
  <2>. QED
    BY <1>2, <1>8, <2>1
<1>11. text = Str(content.text)
  BY <1>7, <1>8
<1>. QED
  BY <1>2, <1>9, <1>10, <1>11 DEF content, reason, text

\* Counts are never negative, and there is a total if there is anything to add up.
LEMMA UsageFacts ==
    ASSUME NEW asking, NEW chat, IsJson(chat), StandardObject(chat)
    PROVE  LET usage == ResponsesSuccess(asking, chat).usage
           IN  /\ \A f \in DOMAIN usage : usage[f] >= 0
               /\ usage.total = 0 => usage.input = 0 /\ usage.output = 0
<1>1. Null.is = "null"
  BY DEF Null
<1>2. ASSUME NEW w \in Inside(chat) \cup {Null}
      PROVE  TokenCount(w) \in Nat
  <2>1. CASE IsCount(w)
    <3>1. w.is = "number" /\ w.value >= 0
      BY <2>1 DEF IsCount
    <3>2. w # Null
      BY <1>1, <3>1
    <3>3. w.value \in Int
      BY <1>2, <3>1, <3>2, InsideFacts
    <3>. QED
      BY <2>1, <3>1, <3>3 DEF TokenCount
  <2>2. CASE ~IsCount(w)
    BY <2>2 DEF TokenCount
  <2>. QED
    BY <2>1, <2>2
<1>. DEFINE
    given == Get(chat, "usage")
    usage == IF given.is = "object" THEN given ELSE Obj(<<>>)
    Prompt == TokenCount(Get(usage, "prompt_tokens"))
    Completion == TokenCount(Get(usage, "completion_tokens"))
    Total == TokenCount(Get(usage, "total_tokens"))
    Cached == DetailTokenCount(Get(usage, "prompt_tokens_details"), "cached_tokens")
    Reasoning == DetailTokenCount(Get(usage, "completion_tokens_details"), "reasoning_tokens")
<1>3. \A f : Get(usage, f) \in Inside(chat) \cup {Null}
  <2>1. CASE given.is = "object"
    <3>1. given \in Inside(chat)
      <4>1. given # Null
        BY <1>1, <2>1
      <4>2. chat.is = "object" /\ chat \in Inside(chat)
        BY InsideItself DEF StandardObject
      <4>. QED
        BY <4>1, <4>2, FieldInside
    <3>. QED
      BY <2>1, <3>1, FieldInside
  <2>2. CASE given.is # "object"
    <3>1. usage.fields = <<>>
      BY <2>2 DEF Obj
    <3>2. DOMAIN usage.fields = {}
      BY <3>1
    <3>. QED
      BY <3>2 DEF Get
  <2>. QED
    BY <2>1, <2>2
<1>. HIDE DEF usage
<1>4. ASSUME NEW details \in Inside(chat) \cup {Null}, NEW f
      PROVE  DetailTokenCount(details, f) \in Nat
  <2>1. CASE details.is = "object"
    <3>1. Get(details, f) \in Inside(chat) \cup {Null}
      BY <1>1, <1>4, <2>1, FieldInside
    <3>. QED
      BY <1>2, <2>1, <3>1 DEF DetailTokenCount
  <2>2. CASE details.is # "object"
    BY <2>2 DEF DetailTokenCount
  <2>. QED
    BY <2>1, <2>2
<1>5. Prompt \in Nat /\ Completion \in Nat /\ Total \in Nat /\ Cached \in Nat /\ Reasoning \in Nat
  BY <1>2, <1>3, <1>4
<1>6. ResponsesSuccess(asking, chat).usage =
          [input |-> Prompt, output |-> Completion, cached |-> Cached, reasoning |-> Reasoning,
           total |-> IF Total = 0 THEN Prompt + Completion ELSE Total]
  BY DEF ResponsesSuccess, ResponsesUsage, usage
<1>. HIDE DEF Prompt, Completion, Total, Cached, Reasoning
<1>. QED
  BY <1>5, <1>6

\* Every item of an accepted input gets a role the chat API knows.
LEMMA RoleKnown ==
    ASSUME NEW item, IsInputMessage(item)
    PROVE  ChatMessage(item).role \in {"system", "user", "assistant"}
<1>1. Get(item, "role") \in {Str("developer"), Str("system"), Str("user"), Str("assistant")}
  BY DEF IsInputMessage
<1>2. Get(item, "role").text \in {"developer", "system", "user", "assistant"}
  BY <1>1 DEF Str
<1>. QED
  BY <1>2 DEF ChatMessage

\* What is relayed of an accepted request: its instructions, if it has any, and
\* every item of its input.
LEMMA RelayedFacts ==
    ASSUME NEW asking, IsJson(asking), ValidResponsesRequest(asking)
    PROVE  LET input == Get(asking, "input")
               messages == ChatMessages(asking)
           IN  /\ Len(messages) = (IF Get(asking, "instructions") = Null THEN 0 ELSE 1)
                                  + (IF input.is = "list" THEN Len(input.items) ELSE 1)
               /\ \A m \in DOMAIN messages :
                      messages[m].role \in {"system", "user", "assistant"}
<1>. DEFINE
    Roles == {"system", "user", "assistant"}
    input == Get(asking, "input")
    instructions == Get(asking, "instructions")
    Text(role, v) == [role |-> role,
                      content |-> <<[type |-> "text", of |-> v.text, detail |-> Null]>>]
    head == IF instructions = Null THEN <<>> ELSE <<Text("system", instructions)>>
    tail == IF input.is = "string" THEN <<Text("user", input)>>
            ELSE [i \in DOMAIN input.items |-> ChatMessage(input.items[i])]
    Both == {head[i] : i \in DOMAIN head} \cup {tail[i] : i \in DOMAIN tail}
    n == IF input.is = "list" THEN Len(input.items) ELSE 1
    h == IF instructions = Null THEN 0 ELSE 1
<1>1. ChatMessages(asking) = head \o tail
  BY DEF ChatMessages
<1>2. \/ input.is = "string"
      \/ input.is = "list" /\ \A i \in DOMAIN input.items : IsInputMessage(input.items[i])
  BY DEF ValidResponsesRequest, IsText
<1>3. /\ head \in Seq(Both) /\ Len(head) = h
      /\ \A i \in 1 .. h : head[i].role \in Roles
  <2>1. CASE instructions = Null
    <3>1. head = <<>> /\ h = 0
      BY <2>1
    <3>. HIDE DEF head, h
    <3>. QED
      BY <3>1
  <2>2. CASE instructions # Null
    <3>1. head = <<Text("system", instructions)>> /\ h = 1
      BY <2>2
    <3>2. Text("system", instructions).role \in Roles
      OBVIOUS
    <3>. HIDE DEF head, h, Text, Roles
    <3>3. Len(head) = 1 /\ DOMAIN head = 1 .. 1 /\ head[1] = Text("system", instructions)
      BY <3>1
    <3>4. head[1] \in Both
      BY <3>3
    <3>5. head \in Seq(Both)
      BY <3>1, <3>3, <3>4
    <3>. QED
      BY <3>1, <3>2, <3>3, <3>5
  <2>. QED
    BY <2>1, <2>2
<1>4. /\ tail \in Seq(Both) /\ Len(tail) = n
      /\ \A i \in 1 .. n : tail[i].role \in Roles
  <2>1. CASE input.is = "string"
    <3>1. tail = <<Text("user", input)>> /\ n = 1
      BY <2>1
    <3>2. Text("user", input).role \in Roles
      OBVIOUS
    <3>. HIDE DEF tail, n, Text, Roles
    <3>3. Len(tail) = 1 /\ DOMAIN tail = 1 .. 1 /\ tail[1] = Text("user", input)
      BY <3>1
    <3>4. tail[1] \in Both
      BY <3>3
    <3>5. tail \in Seq(Both)
      BY <3>1, <3>3, <3>4
    <3>. QED
      BY <3>1, <3>2, <3>3, <3>5
  <2>2. CASE input.is = "list"
    <3>1. input \in Inside(asking)
      <4>1. Null.is = "null"
        BY DEF Null
      <4>2. input # Null /\ asking.is = "object"
        BY <2>2, <4>1 DEF ValidResponsesRequest, StandardObject
      <4>. QED
        BY <4>2, InsideItself, FieldInside
    <3>2. DOMAIN input.items = 1 .. Len(input.items) /\ Len(input.items) \in Nat
      BY <2>2, <3>1, InsideFacts
    <3>3. tail = [i \in 1 .. n |-> ChatMessage(input.items[i])] /\ n = Len(input.items)
      BY <2>2, <3>2
    <3>4. \A i \in 1 .. n : IsInputMessage(input.items[i])
      BY <1>2, <2>2, <3>2, <3>3
    <3>. HIDE DEF tail, n, Roles, input
    <3>5. n \in Nat /\ DOMAIN tail = 1 .. n
      BY <3>2, <3>3
    <3>6. \A i \in 1 .. n : tail[i] \in Both
      BY <3>5
    <3>7. tail \in Seq(Both) /\ Len(tail) = n
      <4>. HIDE DEF Both
      <4>1. tail \in [1 .. n -> Both]
        BY <3>3, <3>5, <3>6
      <4>. QED
        BY <3>5, <4>1
    <3>8. \A i \in 1 .. n : tail[i].role \in {"system", "user", "assistant"}
      BY <3>3, <3>4, RoleKnown
    <3>. QED
      BY <3>7, <3>8 DEF Roles
  <2>. QED
    BY <1>2, <2>1, <2>2
<1>5. h \in Nat /\ n \in Nat
  BY <1>3, <1>4, LenProperties
<1>. HIDE DEF head, tail, Both, n, h, Roles
<1>6. Len(head \o tail) = h + n
  BY <1>3, <1>4, ConcatProperties
<1>7. ASSUME NEW m \in DOMAIN (head \o tail)
      PROVE  (head \o tail)[m].role \in Roles
  <2>1. m \in 1 .. h + n
    BY <1>3, <1>4, <1>6, ConcatProperties, LenProperties
  <2>2. CASE m <= h
    <3>1. (head \o tail)[m] = head[m] /\ m \in 1 .. h
      BY <1>3, <1>4, <1>5, <2>1, <2>2, ConcatProperties
    <3>. QED
      BY <1>3, <3>1
  <2>3. CASE m > h
    <3>1. (head \o tail)[m] = tail[m - h] /\ m - h \in 1 .. n
      BY <1>3, <1>4, <1>5, <2>1, <2>3, ConcatProperties
    <3>. QED
      BY <1>4, <3>1
  <2>. QED
    BY <1>5, <2>1, <2>2, <2>3
<1>. QED
  BY <1>1, <1>6, <1>7 DEF h, n, Roles

\* What is answered on the responses route is what its provider said, in the
\* format of that API, and what was relayed is the whole of the request
\* (create_response), for any JSON.
THEOREM ResponsesAreMatched == Spec => []ResponsesMatchProvider
<1>1. ASSUME PipelineInv, Answered("responses")
      PROVE  LET choices == Get(upstream, "choices").items
                 content == reply.content
                 input == Get(request, "input")
             IN  /\ \E i \in DOMAIN choices :
                     /\ choices[i].is = "object"
                     /\ Get(choices[i], "message").is = "object"
                     /\ Get(Get(choices[i], "message"), "content") = Str(content.text)
                     /\ content.status = "completed"
                        <=> Get(choices[i], "finish_reason") = Str("stop")
                     /\ content.status = "incomplete" =>
                            Get(choices[i], "finish_reason").text \in {"length", "content_filter"}
                 /\ \A f \in DOMAIN content.usage : content.usage[f] >= 0
                 /\ content.usage.total = 0 =>
                        content.usage.input = 0 /\ content.usage.output = 0
                 /\ Len(relayed) = (IF Get(request, "instructions") = Null THEN 0 ELSE 1)
                                   + (IF input.is = "list" THEN Len(input.items) ELSE 1)
                 /\ \A m \in DOMAIN relayed : relayed[m].role \in {"system", "user", "assistant"}
  <2>1. /\ ValidResponsesRequest(request) /\ relayed = ChatMessages(request)
        /\ upstream \in ChatBodies /\ ConvertibleBody(upstream)
        /\ reply.content = ResponsesSuccess(request, upstream)
    BY <1>1 DEF PipelineInv, Converted
  <2>2. IsJson(upstream) /\ StandardObject(upstream)
    BY <2>1, PipelineAssumption DEF ConvertibleBody
  <2>3. IsJson(request)
    <3>1. request # Null
      <4>1. Null.is = "null" /\ request.is = "object"
        BY <2>1 DEF Null, ValidResponsesRequest, StandardObject
      <4>. QED
        BY <4>1
    <3>. QED
      BY <1>1, <3>1, PipelineAssumption DEF PipelineInv, Given
  <2>4. \E i \in DOMAIN Get(upstream, "choices").items :
            LET choices == Get(upstream, "choices").items
                content == reply.content
            IN  /\ choices[i].is = "object"
                /\ Get(choices[i], "message").is = "object"
                /\ Get(Get(choices[i], "message"), "content") = Str(content.text)
                /\ content.status = "completed"
                   <=> Get(choices[i], "finish_reason") = Str("stop")
                /\ content.status = "incomplete" =>
                       Get(choices[i], "finish_reason").text \in {"length", "content_filter"}
    BY <2>1, <2>2, SuccessFacts
  <2>5. /\ \A f \in DOMAIN reply.content.usage : reply.content.usage[f] >= 0
        /\ reply.content.usage.total = 0 =>
               reply.content.usage.input = 0 /\ reply.content.usage.output = 0
    BY <2>1, <2>2, UsageFacts
  <2>6. LET input == Get(request, "input")
        IN  /\ Len(relayed) = (IF Get(request, "instructions") = Null THEN 0 ELSE 1)
                              + (IF input.is = "list" THEN Len(input.items) ELSE 1)
            /\ \A m \in DOMAIN relayed : relayed[m].role \in {"system", "user", "assistant"}
    BY <2>1, <2>3, RelayedFacts
  <2>. QED
    BY <2>4, <2>5, <2>6
<1>2. ASSUME PipelineInv
      PROVE  ResponsesMatchProvider
  BY <1>1, <1>2 DEF ResponsesMatchProvider
<1>. QED
  BY <1>2, PipelineInvariance, PTL

=============================================================================
