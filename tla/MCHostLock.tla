----------------------------- MODULE MCHostLock -----------------------------
(* A small instance of HostLock for TLC. *)
EXTENDS HostLock

Request(id, action, context, body) ==
    [kind |-> "request", request_id |-> id, action |-> action,
     thread_context |-> context, features |-> context, body |-> body]

\* Two peers initialize the extension under the same id.
Contending == {Request(1, "DISCOVERY_EXTENSIONS", "x", "decodable")}

=============================================================================
