------------------------------ MODULE ChatRelay -----------------------------
(***************************************************************************)
(* Chat requests through the gateway, from the arrival of the headers to   *)
(* the last byte: main.chat_completions, relay.relay_chat_completions and  *)
(* openai_fallback.OpenAIFallback, with the circuit breaker of each alias  *)
(* that may fall back to OpenAI.                                           *)
(*                                                                         *)
(* All requests share one event loop, so what a handler does between two   *)
(* awaits is one action here; an await is a phase.  Closes that the code   *)
(* shields from cancellation are part of the step that performs them.      *)
(***************************************************************************)
EXTENDS CircuitBreaker

CONSTANTS
    Requests,
    Eligible,      \* relay.FALLBACK_ELIGIBLE_ALIASES: one breaker each
    LocalOnly,     \* chat aliases of the routing table without fallback
    LocalLimit,    \* local_response_start_timeout_seconds, in clock units
    TotalLimit,    \* total_response_start_timeout_seconds
    KeyConfigured  \* is there an OpenAI API key?

ASSUME RelayAssumption ==
    /\ Eligible \cap LocalOnly = {}
    /\ LocalLimit \in Nat \ {0}
    /\ TotalLimit \in Nat \ {0}
    /\ KeyConfigured \in BOOLEAN

VARIABLES
    breakers,    \* one breaker per eligible alias
    phase,       \* the await each request is in
    alias, streaming,
    age,         \* time since arrival, counted up to Late
    limit,       \* the age at which the current await times out
    token,       \* the breaker token held, or NoToken
    local,       \* the response from the local server
    openai,      \* the response from OpenAI
    refused,     \* did the local server answer with a 4xx of the client's own?
    served,      \* the providers whose bytes the client has received
    answer       \* how the request ended

vars == <<breakers, phase, alias, streaming, age, limit, token, local, openai,
          refused, served, answer>>

NoToken == [decision |-> "none", generation |-> 0]
NoAlias == "none"
Aliases == Eligible \cup LocalOnly

\* Past every deadline, and the limit of an await that no deadline bounds.
Late == TotalLimit + 1
Unbounded == Late + 1

\* The age at which the local attempt is over: deadline.local_remaining_seconds
\* is zero from here on.
LocalDeadline == IF LocalLimit < TotalLimit THEN LocalLimit ELSE TotalLimit

WaitingForLocal == {"sending", "reading", "reading_refusal", "inspecting"}
WaitingForOpenAI == {"asking", "asking_body"}
Phases == {"idle", "receiving", "discarding", "streaming", "closing", "done"}
              \cup WaitingForLocal \cup WaitingForOpenAI
Handles == {"none", "asked", "open", "closed"}
Answers == {"none", "invalid", "timeout", "unavailable", "refused", "served",
            "cut", "gone", "dropped"}

TypeOK ==
    /\ breakers \in [Eligible -> Breaker]
    /\ phase \in [Requests -> Phases]
    /\ alias \in [Requests -> Aliases \cup {NoAlias}]
    /\ streaming \in [Requests -> BOOLEAN]
    /\ age \in [Requests -> 0 .. Late]
    /\ limit \in [Requests -> 0 .. Unbounded]
    /\ token \in [Requests -> LocalAttempt \cup {NoToken}]
    /\ local \in [Requests -> Handles]
    /\ openai \in [Requests -> Handles]
    /\ refused \in [Requests -> BOOLEAN]
    /\ served \in [Requests -> SUBSET {"local", "openai"}]
    /\ answer \in [Requests -> Answers]

Init ==
    /\ breakers = [a \in Eligible |-> NewBreaker]
    /\ phase = [r \in Requests |-> "idle"]
    /\ alias = [r \in Requests |-> NoAlias]
    /\ streaming = [r \in Requests |-> FALSE]
    /\ age = [r \in Requests |-> 0]
    /\ limit = [r \in Requests |-> Unbounded]
    /\ token = [r \in Requests |-> NoToken]
    /\ local = [r \in Requests |-> "none"]
    /\ openai = [r \in Requests |-> "none"]
    /\ refused = [r \in Requests |-> FALSE]
    /\ served = [r \in Requests |-> {}]
    /\ answer = [r \in Requests |-> "none"]

-----------------------------------------------------------------------------
\* Pieces of the handlers.

\* The request waits in phase p, until age l at the latest.
Await(r, p, l) ==
    /\ phase' = [phase EXCEPT ![r] = p]
    /\ limit' = [limit EXCEPT ![r] = l]
    /\ UNCHANGED answer

Finish(r, a) ==
    /\ phase' = [phase EXCEPT ![r] = "done"]
    /\ limit' = [limit EXCEPT ![r] = Unbounded]
    /\ answer' = [answer EXCEPT ![r] = a]

\* Breaker b after an attempt with token t had the outcome o.
Reported(b, t, o) ==
    CASE o = "success" -> RecordSuccess(b, t)
      [] o = "failure" -> RecordFailure(b, t)
      [] o = "abandoned" -> Release(b, t)

\* Report the outcome of r's local attempt to its breaker, if r has a token.
Conclude(r, o) ==
    /\ token' = [token EXCEPT ![r] = NoToken]
    /\ IF token[r] = NoToken
       THEN UNCHANGED breakers
       ELSE breakers' = [breakers EXCEPT ![alias[r]] = Reported(@, token[r], o)]

\* Mistake: OpenAI gets the whole budget again, not what is left of it.
AskWithFreshBudget(r) ==
    CASE age[r] >= TotalLimit -> Finish(r, "timeout") /\ UNCHANGED openai
      [] age[r] < TotalLimit /\ ~KeyConfigured ->
            Finish(r, "unavailable") /\ UNCHANGED openai
      [] OTHER ->
            /\ Await(r, "asking", Unbounded)
            /\ openai' = [openai EXCEPT ![r] = "asked"]

\* Mistake: the fallback too is measured against the local budget.
AskWithinLocalBudget(r) ==
    CASE age[r] >= LocalDeadline -> Finish(r, "timeout") /\ UNCHANGED openai
      [] age[r] < LocalDeadline /\ ~KeyConfigured ->
            Finish(r, "unavailable") /\ UNCHANGED openai
      [] OTHER ->
            /\ Await(r, "asking", LocalDeadline)
            /\ openai' = [openai EXCEPT ![r] = "asked"]

\* relay._fallback: OpenAI gets what is left of the total budget.
AskOpenAI(r) ==
    CASE age[r] >= TotalLimit -> Finish(r, "timeout") /\ UNCHANGED openai
      [] age[r] < TotalLimit /\ ~KeyConfigured ->
            Finish(r, "unavailable") /\ UNCHANGED openai
      [] OTHER ->
            /\ Await(r, "asking", TotalLimit)
            /\ openai' = [openai EXCEPT ![r] = "asked"]

\* The local server gave no valid answer: the breaker hears of it and the
\* request goes on to OpenAI, unless its alias may not leave the house.
LocalFails(r) ==
    /\ Conclude(r, "failure")
    /\ IF alias[r] \in Eligible
       THEN AskOpenAI(r)
       ELSE Finish(r, "unavailable") /\ UNCHANGED openai

-----------------------------------------------------------------------------
\* Receiving and routing.

Arrive(r) ==
    /\ phase[r] = "idle"
    /\ Await(r, "receiving", TotalLimit)
    /\ \E a \in Aliases, s \in BOOLEAN :
          /\ alias' = [alias EXCEPT ![r] = a]
          /\ streaming' = [streaming EXCEPT ![r] = s]
    /\ UNCHANGED <<breakers, age, token, local, openai, refused, served>>

\* The body does not arrive in time.
BodyLate(r) ==
    /\ phase[r] = "receiving"
    /\ age[r] >= limit[r]
    /\ Finish(r, "timeout")
    /\ UNCHANGED <<breakers, alias, streaming, age, token, local, openai, refused, served>>

\* The body is not a request the relay understands: no upstream is called.
Reject(r) ==
    /\ phase[r] = "receiving"
    /\ Finish(r, "invalid")
    /\ UNCHANGED <<breakers, alias, streaming, age, token, local, openai, refused, served>>

\* begin() says skip: straight to OpenAI.
RouteSkip(r) ==
    /\ phase[r] = "receiving"
    /\ alias[r] \in Eligible
    /\ LET begun == Begin(breakers[alias[r]]) IN
        /\ begun.decision = "skip"
        /\ breakers' = [breakers EXCEPT ![alias[r]] = begun.breaker]
    /\ AskOpenAI(r)
    /\ UNCHANGED <<alias, streaming, age, token, local, refused, served>>

\* The breaker this request leaves behind when it gets a slot.
BegunBreakers(r) ==
    [breakers EXCEPT ![alias[r]] = Begin(breakers[alias[r]]).breaker]

BegunToken(r) ==
    [decision   |-> Begin(breakers[alias[r]]).decision,
     generation |-> Begin(breakers[alias[r]]).generation]

\* Mistake: a request told to skip goes to the local server all the same.
GetsSlotWhateverDecided(r) ==
    /\ phase[r] = "receiving"
    /\ alias[r] \in Eligible

GetsSlot(r) ==
    /\ phase[r] = "receiving"
    /\ alias[r] \in Eligible
    /\ Begin(breakers[alias[r]]).decision # "skip"

\* Mistake: running out of time before the call counts as a local failure.
RouteTooLateBlamingLocal(r) ==
    /\ GetsSlot(r)
    /\ age[r] + 1 >= LocalDeadline
    /\ breakers' = [BegunBreakers(r) EXCEPT ![alias[r]] = RecordFailure(@, BegunToken(r))]
    /\ AskOpenAI(r)
    /\ UNCHANGED <<alias, streaming, age, token, local, refused, served>>

\* begin() grants a slot but the local budget is spent before the call: the
\* slot is given back and no failure recorded.  The clock is read twice, so a
\* request about to reach the deadline may pass it between the two readings.
RouteTooLate(r) ==
    /\ GetsSlot(r)
    /\ age[r] + 1 >= LocalDeadline
    /\ breakers' = [BegunBreakers(r) EXCEPT ![alias[r]] = Release(@, BegunToken(r))]
    /\ AskOpenAI(r)
    /\ UNCHANGED <<alias, streaming, age, token, local, refused, served>>

\* begin() grants a slot and the local call goes out.
RouteLocal(r) ==
    /\ GetsSlot(r)
    /\ age[r] < LocalDeadline
    /\ breakers' = BegunBreakers(r)
    /\ token' = [token EXCEPT ![r] = BegunToken(r)]
    /\ local' = [local EXCEPT ![r] = "asked"]
    /\ Await(r, "sending", LocalDeadline)
    /\ UNCHANGED <<alias, streaming, age, openai, refused, served>>

\* relay._relay_local_only: no breaker, no fallback.
RouteLocalOnly(r) ==
    /\ phase[r] = "receiving"
    /\ alias[r] \in LocalOnly
    /\ \/ /\ age[r] >= LocalDeadline
          /\ Finish(r, "timeout")
          /\ UNCHANGED local
       \/ /\ age[r] + 1 = LocalDeadline
          /\ Finish(r, "unavailable")
          /\ UNCHANGED local
       \/ /\ age[r] < LocalDeadline
          /\ Await(r, "sending", LocalDeadline)
          /\ local' = [local EXCEPT ![r] = "asked"]
    /\ UNCHANGED <<breakers, alias, streaming, age, token, openai, refused, served>>

-----------------------------------------------------------------------------
\* The local attempt (relay._attempt_local).

\* No answer: connection error, or the local deadline.
LocalUnreachable(r) ==
    /\ phase[r] = "sending"
    /\ local' = [local EXCEPT ![r] = "closed"]
    /\ LocalFails(r)
    /\ UNCHANGED <<alias, streaming, age, refused, served>>

\* Status 404, 429, 5xx or nothing HTTP means by an answer: close and fail.
LocalBadStatus(r) ==
    /\ phase[r] = "sending"
    /\ local' = [local EXCEPT ![r] = "open"]
    /\ Await(r, "discarding", Unbounded)
    /\ UNCHANGED <<breakers, alias, streaming, age, token, openai, refused, served>>

\* This close stands outside every deadline and is not shielded.
Discarded(r) ==
    /\ phase[r] = "discarding"
    /\ local' = [local EXCEPT ![r] = "closed"]
    /\ LocalFails(r)
    /\ UNCHANGED <<alias, streaming, age, refused, served>>

\* Any other 4xx is the client's own error and final.
LocalRefuses(r) ==
    /\ phase[r] = "sending"
    /\ local' = [local EXCEPT ![r] = "open"]
    /\ refused' = [refused EXCEPT ![r] = TRUE]
    /\ Await(r, "reading_refusal", LocalDeadline)
    /\ UNCHANGED <<breakers, alias, streaming, age, token, openai, served>>

\* Mistake: a refusal whose body cannot be read goes to OpenAI.
ServeRefusalOrFallBack(r) ==
    /\ phase[r] = "reading_refusal"
    /\ local' = [local EXCEPT ![r] = "closed"]
    /\ LocalFails(r)
    /\ UNCHANGED <<alias, streaming, age, refused, served>>

\* The refusal is passed on; if its body cannot be read one is made up for the
\* same status.  Either way local has answered.
ServeRefusal(r) ==
    /\ phase[r] = "reading_refusal"
    /\ local' = [local EXCEPT ![r] = "closed"]
    /\ \/ served' = [served EXCEPT ![r] = @ \cup {"local"}]
       \/ UNCHANGED served
    /\ Conclude(r, "success")
    /\ Finish(r, "refused")
    /\ UNCHANGED <<alias, streaming, age, openai, refused>>

LocalAccepts(r) ==
    /\ phase[r] = "sending"
    /\ local' = [local EXCEPT ![r] = "open"]
    /\ Await(r, IF streaming[r] THEN "inspecting" ELSE "reading", LocalDeadline)
    /\ UNCHANGED <<breakers, alias, streaming, age, token, openai, refused, served>>

\* The body breaks off, is late or is no completion; or the stream does not
\* reach a first valid event.
LocalUnreadable(r) ==
    /\ phase[r] \in {"reading", "inspecting"}
    /\ local' = [local EXCEPT ![r] = "closed"]
    /\ LocalFails(r)
    /\ UNCHANGED <<alias, streaming, age, refused, served>>

ServeLocal(r) ==
    /\ phase[r] = "reading"
    /\ local' = [local EXCEPT ![r] = "closed"]
    /\ served' = [served EXCEPT ![r] = @ \cup {"local"}]
    /\ Conclude(r, "success")
    /\ Finish(r, "served")
    /\ UNCHANGED <<alias, streaming, age, openai, refused>>

\* The first valid event commits the stream to the local server.
CommitLocal(r) ==
    /\ phase[r] = "inspecting"
    /\ served' = [served EXCEPT ![r] = @ \cup {"local"}]
    /\ Await(r, "streaming", Unbounded)
    /\ UNCHANGED <<breakers, alias, streaming, age, token, local, openai, refused>>

-----------------------------------------------------------------------------
\* The fallback (openai_fallback.OpenAIFallback).

\* A buffered answer or error, complete.
ServeOpenAI(r) ==
    /\ \/ phase[r] = "asking" /\ ~streaming[r]
       \/ phase[r] = "asking_body"
    /\ openai' = [openai EXCEPT ![r] = "closed"]
    /\ served' = [served EXCEPT ![r] = @ \cup {"openai"}]
    /\ Finish(r, "served")
    /\ UNCHANGED <<breakers, alias, streaming, age, token, local, refused>>

\* Response headers of a stream, or of an error in its place.
OpenAIHeaders(r) ==
    /\ phase[r] = "asking"
    /\ streaming[r]
    /\ openai' = [openai EXCEPT ![r] = "open"]
    /\ Await(r, "asking_body", limit[r])
    /\ UNCHANGED <<breakers, alias, streaming, age, token, local, refused, served>>

\* Connection error, invalid answer, or the total deadline.
OpenAIFails(r) ==
    /\ phase[r] \in WaitingForOpenAI
    /\ openai' = [openai EXCEPT ![r] = "closed"]
    /\ Finish(r, IF age[r] >= limit[r] THEN "timeout" ELSE "unavailable")
    /\ UNCHANGED <<breakers, alias, streaming, age, token, local, refused, served>>

CommitOpenAI(r) ==
    /\ phase[r] = "asking_body"
    /\ served' = [served EXCEPT ![r] = @ \cup {"openai"}]
    /\ Await(r, "streaming", Unbounded)
    /\ UNCHANGED <<breakers, alias, streaming, age, token, local, openai, refused>>

-----------------------------------------------------------------------------
\* Committed streams, of either provider (relay._stream_committed,
\* relay_common.iter_committed_stream).

\* The stream ends with [DONE].
StreamCompletes(r) ==
    /\ phase[r] = "streaming"
    /\ Conclude(r, "success")
    /\ phase' = [phase EXCEPT ![r] = "closing"]
    /\ answer' = [answer EXCEPT ![r] = "served"]
    /\ UNCHANGED <<alias, streaming, age, limit, local, openai, refused, served>>

\* Mistake: a stream cut short is continued by the other provider.
StreamCutContinued(r) ==
    /\ phase[r] = "streaming"
    /\ local' = [local EXCEPT ![r] = "closed"]
    /\ LocalFails(r)
    /\ UNCHANGED <<alias, streaming, age, refused, served>>

\* The stream breaks off, ends without [DONE] or exceeds the inspection bound:
\* the failure is recorded and the client sees the connection fail.
StreamCut(r) ==
    /\ phase[r] = "streaming"
    /\ Conclude(r, "failure")
    /\ phase' = [phase EXCEPT ![r] = "closing"]
    /\ answer' = [answer EXCEPT ![r] = "cut"]
    /\ UNCHANGED <<alias, streaming, age, limit, local, openai, refused, served>>

\* The client goes away or the task is cancelled in mid-stream.  The iterator's
\* own close may be cancelled in turn; then StreamCleanup gives up the token at
\* once and the response's shielded second close comes later.  Otherwise the
\* token is still held while the close runs.
StreamAbandoned(r) ==
    /\ phase[r] = "streaming"
    /\ phase' = [phase EXCEPT ![r] = "closing"]
    /\ answer' = [answer EXCEPT ![r] = "gone"]
    /\ \/ Conclude(r, "abandoned")
       \/ UNCHANGED <<breakers, token>>
    /\ UNCHANGED <<alias, streaming, age, limit, local, openai, refused, served>>

\* Mistake: a stream nobody resolved is closed without giving up its token.
CleanupWithoutAbandon(r) ==
    /\ phase[r] = "closing"
    /\ phase' = [phase EXCEPT ![r] = "done"]
    /\ local' = [local EXCEPT ![r] = IF @ = "open" THEN "closed" ELSE @]
    /\ openai' = [openai EXCEPT ![r] = IF @ = "open" THEN "closed" ELSE @]
    /\ UNCHANGED <<breakers, alias, streaming, age, limit, token, refused, served, answer>>

\* StreamCleanup.close: the response is closed and a token still held, that is
\* a stream never resolved, is given up.
Cleanup(r) ==
    /\ phase[r] = "closing"
    /\ phase' = [phase EXCEPT ![r] = "done"]
    /\ Conclude(r, "abandoned")
    /\ local' = [local EXCEPT ![r] = IF @ = "open" THEN "closed" ELSE @]
    /\ openai' = [openai EXCEPT ![r] = IF @ = "open" THEN "closed" ELSE @]
    /\ UNCHANGED <<alias, streaming, age, limit, refused, served, answer>>

-----------------------------------------------------------------------------
\* Cancellation of the request's task before a response exists.

\* Mistake: cancellation is not told to the breaker.
CancelForgettingToken(r) ==
    /\ phase[r] \in {"receiving"} \cup WaitingForLocal \cup WaitingForOpenAI
    /\ local' = [local EXCEPT ![r] = IF @ = "none" THEN @ ELSE "closed"]
    /\ openai' = [openai EXCEPT ![r] = IF @ = "none" THEN @ ELSE "closed"]
    /\ token' = [token EXCEPT ![r] = NoToken]
    /\ Finish(r, "gone")
    /\ UNCHANGED <<breakers, alias, streaming, age, refused, served>>

\* Mistake: an interrupted read leaves its response open.
CancelWithoutClosing(r) ==
    /\ phase[r] \in {"receiving"} \cup WaitingForLocal \cup WaitingForOpenAI
    /\ Conclude(r, "abandoned")
    /\ Finish(r, "gone")
    /\ UNCHANGED <<alias, streaming, age, local, openai, refused, served>>

Cancel(r) ==
    /\ phase[r] \in {"receiving"} \cup WaitingForLocal \cup WaitingForOpenAI
    /\ local' = [local EXCEPT ![r] = IF @ = "none" THEN @ ELSE "closed"]
    /\ openai' = [openai EXCEPT ![r] = IF @ = "none" THEN @ ELSE "closed"]
    /\ Conclude(r, "abandoned")
    /\ Finish(r, "gone")
    /\ UNCHANGED <<alias, streaming, age, refused, served>>

\* Cancelled inside the one close that is not shielded, or that close fails:
\* the response may stay open.
CancelDiscarding(r) ==
    /\ phase[r] = "discarding"
    /\ \/ local' = [local EXCEPT ![r] = "closed"]
       \/ UNCHANGED local
    /\ Conclude(r, "abandoned")
    /\ Finish(r, "dropped")
    /\ UNCHANGED <<alias, streaming, age, openai, refused, served>>

-----------------------------------------------------------------------------
\* Time.

Waiting(r) == phase[r] \notin {"idle", "streaming", "closing", "done"}

\* Time does not pass a deadline somebody is waiting on: the await ends first.
Tick ==
    /\ \A r \in Requests : Waiting(r) => age[r] < limit[r]
    /\ age' = [r \in Requests |->
                  IF Waiting(r) /\ age[r] < Late THEN age[r] + 1 ELSE age[r]]
    /\ breakers' = [a \in Eligible |-> Elapse(breakers[a])]
    /\ <<age, breakers>>' # <<age, breakers>>
    /\ UNCHANGED <<phase, alias, streaming, limit, token, local, openai,
                   refused, served, answer>>

\* What an await does when its deadline comes.
Expire(r) ==
    /\ age[r] >= limit[r]
    /\ \/ BodyLate(r)
       \/ LocalUnreachable(r)
       \/ LocalUnreadable(r)
       \/ ServeRefusal(r)
       \/ OpenAIFails(r)

Route(r) == RouteSkip(r) \/ RouteTooLate(r) \/ RouteLocal(r) \/ RouteLocalOnly(r)

LocalStep(r) ==
    \/ LocalUnreachable(r) \/ LocalBadStatus(r) \/ Discarded(r)
    \/ LocalRefuses(r) \/ ServeRefusal(r)
    \/ LocalAccepts(r) \/ LocalUnreadable(r) \/ ServeLocal(r) \/ CommitLocal(r)

OpenAIStep(r) ==
    ServeOpenAI(r) \/ OpenAIHeaders(r) \/ OpenAIFails(r) \/ CommitOpenAI(r)

StreamEnds(r) == StreamCompletes(r) \/ StreamCut(r) \/ StreamAbandoned(r)

Next ==
    \/ \E r \in Requests :
          \/ Arrive(r) \/ BodyLate(r) \/ Reject(r) \/ Route(r)
          \/ LocalStep(r) \/ OpenAIStep(r)
          \/ StreamEnds(r) \/ Cleanup(r)
          \/ Cancel(r) \/ CancelDiscarding(r)
    \/ Tick

Spec == Init /\ [][Next]_vars

\* Time passes, and anyio.fail_after ends an await whose deadline has come.
\* Nothing is assumed of upstreams and clients: none need answer, and none need
\* take what is sent.
Fairness ==
    /\ WF_vars(Tick)
    /\ \A r \in Requests : WF_vars(Expire(r))

FairSpec == Spec /\ Fairness

-----------------------------------------------------------------------------
Holds(r, a) ==
    alias[r] = a /\ token[r] # NoToken /\ Current(breakers[a], token[r])

\* Whatever happens to a request, its alias' probe slot is taken exactly while
\* some request between arrival and end holds the probe: no path through the relay (a
\* timeout, a cut stream, a cancellation in any await, a client that leaves
\* while the response is being closed) loses it.
ProbeSlotOwned ==
    \A a \in Eligible :
        breakers[a].probeInFlight <=>
            \E r \in Requests : /\ Holds(r, a) /\ token[r].decision = "probe"
                               /\ phase[r] \notin {"idle", "receiving", "done"}

\* A prompt leaves for OpenAI only if its alias may fall back and the local
\* server has not already refused it (FALLBACK_ELIGIBLE_ALIASES is "the only
\* source of the data-export policy"; a confirmed 4xx never falls back).
ExportPolicy ==
    \A r \in Requests :
        openai[r] # "none" => alias[r] \in Eligible /\ ~refused[r]

\* No client receives bytes of both providers in one response.
OneProvider ==
    \A r \in Requests :
        /\ served[r] # {"local", "openai"}
        /\ "local" \in served[r] => openai[r] = "none"

\* What each provider may see and say of a request (relay, openai_fallback).
ProvidersKeptApart == ExportPolicy /\ OneProvider

\* Finished requests leave no upstream response open.  The one exception is a
\* task cancelled inside the unshielded close of relay._attempt_local.
UpstreamsReleased ==
    \A r \in Requests :
        phase[r] = "done" => /\ openai[r] # "open"
                             /\ local[r] # "open" \/ answer[r] = "dropped"

\* A request gives back all it took, the probe slot and its responses (relay,
\* StreamCleanup).
NothingLeaks == ProbeSlotOwned /\ UpstreamsReleased

\* An eligible request is told "unavailable" only after OpenAI was asked (or
\* cannot be, for want of a key), and "timeout" only once the total budget is
\* spent: no path gives up on the fallback early.
FallbackTried ==
    \A r \in Requests :
        phase[r] = "done" /\ alias[r] \in Eligible =>
            /\ answer[r] = "unavailable" => openai[r] # "none" \/ ~KeyConfigured
            /\ answer[r] = "timeout" => age[r] >= TotalLimit

\* The first byte of a provider reaches the client within the budget of that
\* provider, counted from the request's arrival (not from the call).
StartsInTime ==
    [][\A r \in Requests : served'[r] # served[r] =>
          age[r] <= IF "openai" \in served'[r] THEN TotalLimit ELSE LocalDeadline]_vars

\* A breaker counts a failure, or opens, only for a request whose call to the
\* local server had gone out.
NoBlameWithoutCall ==
    [][\A a \in Eligible :
          \/ breakers'[a].failures > breakers[a].failures
          \/ breakers'[a].state = "open" /\ breakers[a].state # "open"
          => \E r \in Requests : alias[r] = a /\ local[r] # "none" /\ token'[r] # token[r]]_vars

\* Both budgets: what is served is served within one, and who had none left is not
\* blamed (ResponseStartDeadline).
BudgetsKept == StartsInTime /\ NoBlameWithoutCall

\* The awaits under no deadline: the unshielded close of relay._attempt_local; a
\* committed stream, which waits at each yield for a client to take the chunk, and
\* before it for an upstream that may trickle (httpx's read timeout is for one
\* silence while it reads); and the close of that stream.
Undeadlined == {"discarding", "streaming", "closing"}

\* Whoever falls silent, a request ends, or has got to one of these awaits and
\* stays in it for ever: no other await, and no sequence of awaits through both
\* providers, goes on without end (deadline.ResponseStartDeadline).  Shielded
\* closes end with the steps that they are part of.
WaitsAreBounded ==
    \A r \in Requests :
        phase[r] = "receiving" ~>
            (phase[r] = "done" \/ [](phase[r] \in Undeadlined))

\* To each breaker the relay is a well-behaved set of clients.
BreakerOf(a) == INSTANCE AbstractBreaker WITH
    mode    <- breakers[a].state,
    counted <- {r \in Requests : Holds(r, a)},
    streak  <- IF breakers[a].state = "closed" THEN breakers[a].failures ELSE 0,
    rested  <- IF breakers[a].state = "open" THEN breakers[a].sinceOpened ELSE 0

\* Every step of the relay keeps the promise of every alias' breaker, although
\* reports arrive in any order and an attempt may outlive several transitions.
\* (This is \A a \in Eligible : BreakerOf(a)!Spec with the quantifier inside.)
KeepsBreakerPromise ==
    /\ \A a \in Eligible : BreakerOf(a)!Init
    /\ [][\A a \in Eligible : BreakerOf(a)!Next \/ UNCHANGED BreakerOf(a)!vars]_vars

=============================================================================
