----------------------------- MODULE Responses ------------------------------
(***************************************************************************)
(* What create_response makes of a request and of the Chat Completions     *)
(* answer it is converted from (responses.py).  The relay in between is    *)
(* ChatRelay's, which is given ConvertibleBody to judge bodies by.         *)
(***************************************************************************)
EXTENDS Json, SequencesExt

RESPONSES_MODEL_ALIAS == "gpt-5.4-nano"
SUPPORTED_REQUEST_FIELDS == {"model", "instructions", "input", "stream"}

\* _INCOMPLETE_REASONS
IncompleteReasons == [length |-> "max_output_tokens", content_filter |-> "content_filter"]

\* _chat_content raises nothing.
IsContentPart(part) ==
    /\ part.is = "object"
    /\ \/ Get(part, "type") = Str("input_text") /\ IsText(Get(part, "text"))
       \/ /\ Get(part, "type") = Str("input_image")
          /\ IsText(Get(part, "image_url"))
          /\ Has(part, "detail") =>
                 Get(part, "detail") \in {Str("auto"), Str("low"), Str("high")}

\* _chat_message raises nothing.
IsInputMessage(item) ==
    /\ item.is = "object"
    /\ Get(item, "role") \in {Str("developer"), Str("system"), Str("user"), Str("assistant")}
    /\ LET content == Get(item, "content")
       IN  \/ IsText(content)
           \/ /\ content.is = "list"
              /\ content.items # <<>>
              /\ \A i \in DOMAIN content.items : IsContentPart(content.items[i])

\* The checks of the try block of create_response.
ValidResponsesRequest(body) ==
    /\ StandardObject(body)
    /\ Get(body, "model") = Str(RESPONSES_MODEL_ALIAS)
    /\ DOMAIN body.fields \subseteq SUPPORTED_REQUEST_FIELDS
    /\ Has(body, "stream") => Get(body, "stream") = Bool(FALSE)
    /\ Get(body, "instructions") # Null => IsText(Get(body, "instructions"))
    /\ LET input == Get(body, "input")
       IN  \/ IsText(input)
           \/ /\ input.is = "list"
              /\ input.items # <<>>
              /\ \A i \in DOMAIN input.items : IsInputMessage(input.items[i])

\* _chat_message and _chat_content on what they accept.
ChatContent(part) ==
    IF Get(part, "type") = Str("input_text")
    THEN [type |-> "text", of |-> Get(part, "text").text, detail |-> Null]
    ELSE [type |-> "image_url", of |-> Get(part, "image_url").text,
          detail |-> Get(part, "detail")]

ChatMessage(item) ==
    LET role == Get(item, "role").text
        content == Get(item, "content")
    IN  [role |-> IF role = "developer" THEN "system" ELSE role,
         content |-> IF content.is = "string"
                     THEN <<[type |-> "text", of |-> content.text, detail |-> Null]>>
                     ELSE [i \in DOMAIN content.items |-> ChatContent(content.items[i])]]

\* _chat_messages: the instructions first, then the input in its order.
ChatMessages(body) ==
    LET Text(role, v) == [role |-> role,
                          content |-> <<[type |-> "text", of |-> v.text, detail |-> Null]>>]
        instructions == Get(body, "instructions")
        input == Get(body, "input")
    IN  (IF instructions = Null THEN <<>> ELSE <<Text("system", instructions)>>)
        \o (IF input.is = "string" THEN <<Text("user", input)>>
            ELSE [i \in DOMAIN input.items |-> ChatMessage(input.items[i])])

-----------------------------------------------------------------------------
\* _choice_output has something to say: a text, and a reason to end it knows.
IsOutput(choice) ==
    /\ choice.is = "object"
    /\ Get(choice, "message").is = "object"
    /\ IsText(Get(Get(choice, "message"), "content"))
    /\ LET reason == Get(choice, "finish_reason")
       IN  reason.is = "string" /\ reason.text \in {"stop"} \cup DOMAIN IncompleteReasons

\* _chat_output is not None: _is_convertible_chat_body.
ConvertibleBody(body) ==
    /\ StandardObject(body)
    /\ Get(body, "choices").is = "list"
    /\ \E i \in DOMAIN Get(body, "choices").items : IsOutput(Get(body, "choices").items[i])

\* _chat_output of such a body: the first choice that can be converted.
ChatOutput(body) ==
    LET choices == Get(body, "choices").items
    IN  choices[SelectInSeq(choices, IsOutput)]

\* _token_count
TokenCount(v) == IF IsCount(v) THEN v.value ELSE 0

\* _detail_token_count
DetailTokenCount(details, field) ==
    IF details.is = "object" THEN TokenCount(Get(details, field)) ELSE 0

\* Mistake: the sum is given only if there is no total at all.
ResponsesUsageAsReported(body) ==
    LET usage == IF Get(body, "usage").is = "object" THEN Get(body, "usage") ELSE Obj(<<>>)
        prompt == TokenCount(Get(usage, "prompt_tokens"))
        completion == TokenCount(Get(usage, "completion_tokens"))
        total == TokenCount(Get(usage, "total_tokens"))
    IN  [input |-> prompt, output |-> completion, cached |-> 0, reasoning |-> 0,
         total |-> IF Has(usage, "total_tokens") THEN total ELSE prompt + completion]

\* _responses_usage
ResponsesUsage(body) ==
    LET usage == IF Get(body, "usage").is = "object" THEN Get(body, "usage") ELSE Obj(<<>>)
        prompt == TokenCount(Get(usage, "prompt_tokens"))
        completion == TokenCount(Get(usage, "completion_tokens"))
        total == TokenCount(Get(usage, "total_tokens"))
    IN  [input |-> prompt, output |-> completion,
         cached |-> DetailTokenCount(Get(usage, "prompt_tokens_details"), "cached_tokens"),
         reasoning |-> DetailTokenCount(Get(usage, "completion_tokens_details"),
                                        "reasoning_tokens"),
         total |-> IF total = 0 THEN prompt + completion ELSE total]

\* _responses_success of a body that can be converted.
ResponsesSuccess(request, body) ==
    LET output == ChatOutput(body)
        reason == Get(output, "finish_reason").text
    IN  [status |-> IF reason = "stop" THEN "completed" ELSE "incomplete",
         incomplete |-> IF reason = "stop" THEN "none" ELSE IncompleteReasons[reason],
         text |-> Get(Get(output, "message"), "content").text,
         instructions |-> Get(request, "instructions"),
         usage |-> ResponsesUsage(body)]

=============================================================================
