----------------------------- MODULE Embeddings -----------------------------
(***************************************************************************)
(* What create_embeddings makes of a request and of the local server's     *)
(* answer (embeddings.py).  The calls and deadlines between the two are in *)
(* RequestPipeline.                                                        *)
(***************************************************************************)
EXTENDS Json

CONSTANTS
    NativeDimensions,   \* NATIVE_EMBEDDING_VECTOR_DIMENSIONS
    CompatDimensions    \* OPENAI_COMPAT_VECTOR_DIMENSIONS

ASSUME DimensionsAssumption ==
    /\ NativeDimensions \in Nat \ {0}
    /\ CompatDimensions \in Nat
    /\ NativeDimensions <= CompatDimensions

\* ALIAS_VECTOR_DIMENSIONS
EmbeddingAliases == {"embed", "text-embedding-3-small"}
AliasDimensions(alias) == IF alias = "embed" THEN NativeDimensions ELSE CompatDimensions

\* _require_embedding_input: an array may hold empty strings, but not be empty.
IsEmbeddingInput(v) ==
    \/ IsText(v)
    \/ /\ v.is = "list"
       /\ v.items # <<>>
       /\ \A i \in DOMAIN v.items : v.items[i].is = "string"

\* The contract of the request: the checks of the try block of create_embeddings.
ValidEmbeddingRequest(body) ==
    /\ StandardObject(body)
    /\ LET model == Get(body, "model") IN
       /\ IsText(model)
       /\ model.text \in EmbeddingAliases
       /\ IsEmbeddingInput(Get(body, "input"))
       /\ Has(body, "encoding_format") =>
              Get(body, "encoding_format") \in {Str("float"), Str("base64")}
       /\ Has(body, "dimensions") =>
              Get(body, "dimensions") = Num(AliasDimensions(model.text))

\* _expected_vector_count
ExpectedVectorCount(input) == IF input.is = "string" THEN 1 ELSE Len(input.items)

\* Mistake: a number that a double holds is good enough.
IsValidVectorOfDoubles(v) ==
    /\ v.is = "list"
    /\ Len(v.items) = NativeDimensions
    /\ \A i \in DOMAIN v.items : v.items[i].is = "number" /\ v.items[i].finite

\* _is_valid_vector: every value must fit the float32 it may be packed into.
IsValidVector(v) ==
    /\ v.is = "list"
    /\ Len(v.items) = NativeDimensions
    /\ \A i \in DOMAIN v.items :
           v.items[i].is = "number" /\ v.items[i].finite /\ v.items[i].single

\* Mistake: a body of valid vectors will do, however many.
IsValidEmbeddingBodyUncounted(body, count, model) ==
    /\ StandardObject(body)
    /\ Get(body, "model") = model
    /\ Get(body, "embeddings").is = "list"
    /\ \A i \in DOMAIN Get(body, "embeddings").items :
           IsValidVector(Get(body, "embeddings").items[i])

\* load_standard_json raises nothing and _is_valid_embedding_body.
IsValidEmbeddingBody(body, count, model) ==
    /\ StandardObject(body)
    /\ Get(body, "model") = model
    /\ LET vectors == Get(body, "embeddings") IN
       /\ vectors.is = "list"
       /\ Len(vectors.items) = count
       /\ \A i \in DOMAIN vectors.items : IsValidVector(vectors.items[i])
    /\ Has(body, "prompt_eval_count") => IsCount(Get(body, "prompt_eval_count"))

\* _pad_to_dimensions
PadToDimensions(values, dimensions) ==
    [k \in 1 .. dimensions |-> IF k <= NativeDimensions THEN values[k] ELSE 0]

\* What is left of a double in a float32, in units of which a float32 holds the
\* even ones: to the nearest, and between two to the multiple of four.
Single(n) == CASE n % 2 = 0 -> n [] n % 4 = 1 -> n - 1 [] OTHER -> n + 1

\* _encode_embedding: only base64 goes through float32.
EncodeEmbedding(values, format) ==
    [format |-> format,
     values |-> IF format = "base64" THEN [k \in DOMAIN values |-> Single(values[k])]
                ELSE values]

\* _openai_embeddings_response
EmbeddingsResponse(request, body) ==
    LET alias == Get(request, "model").text
        format == IF Has(request, "encoding_format")
                  THEN Get(request, "encoding_format").text ELSE "float"
        vectors == Get(body, "embeddings").items
        Plain(i) == [k \in DOMAIN vectors[i].items |-> vectors[i].items[k].value]
        tokens == IF Has(body, "prompt_eval_count")
                  THEN Get(body, "prompt_eval_count").value ELSE 0
    IN  [data |-> [i \in DOMAIN vectors |->
             [index |-> i - 1,
              embedding |-> EncodeEmbedding(
                  PadToDimensions(Plain(i), AliasDimensions(alias)), format)]],
         model |-> alias,
         tokens |-> tokens]

\* _upstream_error_response: the local server's own message, if it has one.
UpstreamErrorMessage(body) ==
    IF StandardObject(body) /\ Get(body, "error").is = "string"
    THEN Get(body, "error")
    ELSE Str("upstream embedding request failed")

=============================================================================
