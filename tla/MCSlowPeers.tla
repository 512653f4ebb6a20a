---------------------------- MODULE MCSlowPeers ----------------------------
(* A small instance of SlowPeers for TLC. *)
EXTENDS SlowPeers, TLC

Request(id, action, body) ==
    [kind |-> "request", request_id |-> id, action |-> action,
     thread_context |-> "x", features |-> "x", body |-> body]

\* An init request next to one that is answered at once, or never.
SomeRequests ==
    {Request(1, "TRANSPORT_HANDSHAKE", "decodable"),
     Request(1, "REST_EXECUTE_ON_EXTENSION", "hangs"),
     Request(2, "DISCOVERY_EXTENSIONS", "decodable")}

=============================================================================
