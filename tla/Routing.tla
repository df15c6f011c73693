------------------------------ MODULE Routing ------------------------------
(***************************************************************************)
(* The routing table (routing.py): built once when the gateway starts, and *)
(* then trusted by every request.  A document is what YAML makes of the    *)
(* file, in the shapes of Json.                                            *)
(***************************************************************************)
EXTENDS Json

Endpoints == {"chat", "embeddings"}
REQUIRED_ROUTES == {<<"chat", "chat">>, <<"chat", "vision">>, <<"embeddings", "embed">>}

\* _require_config_str: a blank string is an empty one.
IsConfigText(entry, field) ==
    IsText(Get(entry, field)) /\ Get(entry, field).text # " "

\* _parse_route raises nothing.
IsRoute(entry) ==
    /\ entry.is = "object"
    /\ \A field \in {"alias", "model", "endpoint"} : IsConfigText(entry, field)
    /\ Get(entry, "endpoint").text \in Endpoints

RouteKey(entry) == <<Get(entry, "endpoint").text, Get(entry, "alias").text>>

\* Mistake: what is required may be missing.
BuildsUnchecked(document) ==
    /\ document.is = "object"
    /\ Get(document, "routes").is = "list"
    /\ LET entries == Get(document, "routes").items
       IN  /\ entries # <<>>
           /\ \A i \in DOMAIN entries : IsRoute(entries[i])

\* load_routing_table and _build_table raise nothing, so that the gateway starts.
Builds(document) ==
    /\ document.is = "object"
    /\ Get(document, "routes").is = "list"
    /\ LET entries == Get(document, "routes").items
       IN  /\ entries # <<>>
           /\ \A i \in DOMAIN entries : IsRoute(entries[i])
           /\ \A i, j \in DOMAIN entries :
                  Get(entries[i], "alias") = Get(entries[j], "alias") => i = j
           /\ REQUIRED_ROUTES \subseteq {RouteKey(entries[i]) : i \in DOMAIN entries}

\* RoutingTable.resolve: the model an alias is routed to, or Null if there is
\* none.  The dictionary keeps the last of two entries with the same key.
Resolve(document, endpoint, alias) ==
    LET entries == Get(document, "routes").items
        matching == {i \in DOMAIN entries : RouteKey(entries[i]) = <<endpoint, alias>>}
    IN  IF matching = {} THEN Null
        ELSE Get(entries[CHOOSE i \in matching : \A j \in matching : j <= i], "model")

=============================================================================
