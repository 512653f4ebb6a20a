-------------------------- MODULE MCExtensionHost --------------------------
(* Small instances of ExtensionHost for TLC. *)
EXTENDS ExtensionHost, TLC

Request(id, action, context, body) ==
    [kind |-> "request", request_id |-> id, action |-> action,
     thread_context |-> context, features |-> context, body |-> body]

\* Two peers use the same ids as each other and as the host.
Overlapping ==
    {Request(1, "DISCOVERY_EXTENSIONS", "x", "decodable"),
     Request(1, "DISCOVERY_EXTENSIONS", "y", "decodable")}

\* Either handshake, an action nobody knows and a REST request on one connection,
\* next to two init requests.
Pipelined ==
    {Request(1, "TCP_HANDSHAKE", "x", "decodable"),
     Request(1, "TRANSPORT_HANDSHAKE", "y", "decodable"),
     Request(5, "UNKNOWN", "x", "decodable"),
     Request(2, "DISCOVERY_EXTENSIONS", "x", "decodable"),
     Request(3, "DISCOVERY_EXTENSIONS", "y", "decodable"),
     Request(4, "REST_EXECUTE_ON_EXTENSION", "y", "decodable")}

\* One request per connection, whose handler may fail.
Failing ==
    {Request(1, "DISCOVERY_EXTENSIONS", "x", "decodable"),
     Request(1, "DISCOVERY_EXTENSIONS", "x", "undecodable"),
     Request(1, "REST_EXECUTE_ON_EXTENSION", "y", "panics"),
     Request(1, "REST_EXECUTE_ON_EXTENSION", "y", "undecodable")}

\* What a peer waits for: an init request and a REST request.
Awaited ==
    {Request(1, "DISCOVERY_EXTENSIONS", "x", "decodable"),
     Request(1, "REST_EXECUTE_ON_EXTENSION", "x", "decodable")}

\* Connections are interchangeable: nothing orders or names them.
Interchangeable == Permutations(Conns)

=============================================================================
