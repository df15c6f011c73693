------------------------- MODULE MCRequestPipeline -------------------------
(***************************************************************************)
(* A request to every path, with bodies around the limit, and what clients *)
(* and providers may say on the routes that convert it.  Vectors have two  *)
(* dimensions, three for the compatible alias.                             *)
(***************************************************************************)
EXTENDS RequestPipeline

Entry(endpoint, alias) ==
    Obj([endpoint |-> Str(endpoint), alias |-> Str(alias), model |-> Str(alias \o "-model")])

Table(entries) == Obj([routes |-> List(entries)])

Required == <<Entry("chat", "chat"), Entry("chat", "vision"), Entry("embeddings", "embed")>>

Documents ==
    {Null, Obj([models |-> Null]), Table(<<>>), Table(Required), Table(Tail(Required)),
     Table(SubSeq(Required, 1, 2)),
     Table(Append(Required, Entry("embeddings", "chat"))),
     Table(<<Obj([endpoint |-> Str("chat"), alias |-> Str(" "), model |-> Str("m")])>>
           \o Required)}

Embed(alias, input) == Obj([model |-> Str(alias), input |-> input])

With(object, field, value) ==
    Obj([f \in DOMAIN object.fields \cup {field} |->
            IF f = field THEN value ELSE object.fields[f]])

Two == List(<<Str("a"), Str("")>>)

EmbeddingRequests ==
    {Garbled, Null, Embed("chat", Str("a")), Embed("embed", Str("")),
     Embed("embed", List(<<>>)), Embed("embed", List(<<Str("a"), Num(1)>>)),
     Embed("embed", Surrogate), Embed("embed", Str("a")), Embed("embed", Two),
     With(Embed("text-embedding-3-small", Two), "encoding_format", Str("base64")),
     With(Embed("text-embedding-3-small", Str("a")), "dimensions", Num(3)),
     With(Embed("embed", Str("a")), "dimensions", Num(3)),
     With(Embed("embed", Str("a")), "encoding_format", Null)}

Vector(m, n) == List(<<Num(m), Num(n)>>)

Native(vectors) == Obj([model |-> Str("embed-model"), embeddings |-> List(vectors)])

NativeAnswers ==
    {Garbled, List(<<>>), Obj([error |-> Str("no such model")]),
     Native(<<>>), Native(<<Vector(1, 2)>>), Native(<<Vector(-1, 3), Vector(5, -6)>>),
     Native(<<Vector(1, 2), List(<<Num(3)>>)>>),
     Native(<<List(<<Num(1), Huge>>)>>), Native(<<List(<<Num(1), Overflow>>)>>),
     Native(<<List(<<Num(1), Bool(TRUE)>>)>>),
     With(Native(<<Vector(1, 2)>>), "prompt_eval_count", Num(4)),
     With(Native(<<Vector(1, 2)>>), "prompt_eval_count", Num(-1)),
     With(Native(<<Vector(1, 2)>>), "model", Str("other"))}

Ask(input) == Obj([model |-> Str("gpt-5.4-nano"), input |-> input])

Message(role, content) == Obj([role |-> Str(role), content |-> content])

Image == Obj([type |-> Str("input_image"), image_url |-> Str("url")])

ResponsesRequests ==
    {Garbled, Obj([model |-> Str("vision"), input |-> Str("a")]), Ask(Null), Ask(Str("a")),
     With(Ask(Str("a")), "stream", Bool(TRUE)), With(Ask(Str("a")), "temperature", Num(1)),
     With(With(Ask(Str("a")), "stream", Bool(FALSE)), "instructions", Str("do")),
     With(Ask(Str("a")), "instructions", Num(1)),
     Ask(List(<<Message("developer", Str("a")),
                Message("user", List(<<Obj([type |-> Str("input_text"), text |-> Str("b")]),
                                       With(Image, "detail", Str("low"))>>))>>)),
     Ask(List(<<Message("tool", Str("a"))>>)),
     Ask(List(<<Message("user", List(<<With(Image, "detail", Str("best"))>>))>>))}

Choice(text, reason) ==
    Obj([message |-> Obj([content |-> text]), finish_reason |-> reason])

Chat(choices) == Obj([choices |-> List(choices)])

Usage(prompt, completion, total) ==
    Obj([prompt_tokens |-> prompt, completion_tokens |-> completion, total_tokens |-> total,
         prompt_tokens_details |-> Obj([cached_tokens |-> Num(1)])])

ChatAnswers ==
    {Garbled, Chat(<<>>), Chat(<<Choice(Str(""), Str("stop"))>>),
     Chat(<<Choice(Str("a"), Str("tool_calls"))>>), Chat(<<Choice(Str("a"), Null)>>),
     Chat(<<Choice(Str("a"), Str("stop"))>>),
     Chat(<<Null, Choice(Str("a"), Str("length")), Choice(Str("b"), Str("stop"))>>),
     With(Chat(<<Choice(Str("a"), Str("content_filter"))>>), "usage",
          Usage(Num(2), Num(3), Num(0))),
     With(Chat(<<Choice(Str("a"), Str("stop"))>>), "usage",
          Usage(Num(2), Bool(TRUE), Num(-1)))}

RouteBodies == [embeddings |-> EmbeddingRequests, responses |-> ResponsesRequests]

=============================================================================
