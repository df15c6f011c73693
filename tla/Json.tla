------------------------------- MODULE Json --------------------------------
(***************************************************************************)
(* JSON values as the gateway tells them apart (validation.py).  A body    *)
(* that is no JSON at all, or holds NaN or Infinity, is Garbled.           *)
(***************************************************************************)
EXTENDS Integers, Sequences

Garbled == [is |-> "garbled"]
Null == [is |-> "null"]
Bool(b) == [is |-> "boolean", holds |-> b]
\* A number, its value or a stand-in for one out of range, is it an integer, and the ranges
\* it is within.
Num(n) == [is |-> "number", value |-> n, integer |-> TRUE, finite |-> TRUE, single |-> TRUE]
Str(s) == [is |-> "string", text |-> s, encodable |-> TRUE]
List(items) == [is |-> "list", items |-> items]
Obj(fields) == [is |-> "object", fields |-> fields]

\* A lone surrogate; 1e400; 1e300, which a double holds and a float32 does not.
Surrogate == [Str("?") EXCEPT !.encodable = FALSE]
Overflow == [Num(9) EXCEPT !.integer = FALSE, !.finite = FALSE, !.single = FALSE]
Huge == [Num(9) EXCEPT !.integer = FALSE, !.single = FALSE]

\* dict.get and `in`.
Get(object, field) ==
    IF field \in DOMAIN object.fields THEN object.fields[field] ELSE Null

Has(object, field) == field \in DOMAIN object.fields

\* What an array or an object holds.
Parts(v) ==
    CASE v.is = "list"   -> {v.items[i] : i \in DOMAIN v.items}
      [] v.is = "object" -> {v.fields[f] : f \in DOMAIN v.fields}
      [] OTHER           -> {}

WithParts(S) == S \cup UNION {Parts(w) : w \in S}

\* A value and all there is in it (bound: down to five levels).
Inside(v) == WithParts(WithParts(WithParts(WithParts(WithParts({v})))))

\* _reject_unrepresentable_values raises nothing.
Representable(v) ==
    \A w \in Inside(v) :
        /\ w.is = "number" => w.finite
        /\ w.is = "string" => w.encodable

\* load_standard_json raises nothing.
Standard(body) == body.is # "garbled" /\ Representable(body)

\* load_json_object raises nothing.
StandardObject(body) == Standard(body) /\ body.is = "object"

\* require_string and responses._required_string raise nothing.
IsText(v) == v.is = "string" /\ v.text # ""

\* bool is a subtype of int in Python: each check excludes it by name.
IsCount(v) == v.is = "number" /\ v.integer /\ v.value >= 0

\* What is made of a body by json.loads, if anything: the values above, and none
\* nested more deeply than Inside looks.
IsJson(v) ==
    /\ WithParts(Inside(v)) = Inside(v)
    /\ \A w \in Inside(v) :
        \/ w.is \in {"garbled", "null", "boolean", "object"}
        \/ w.is = "list" /\ w.items \in Seq({w.items[i] : i \in DOMAIN w.items})
        \/ w.is = "number" /\ w.value \in Int
        \/ /\ w.is = "string"
           /\ w = [is |-> "string", text |-> w.text, encodable |-> w.encodable]
           /\ w.encodable \in BOOLEAN

=============================================================================
