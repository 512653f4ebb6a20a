--------------------------- MODULE MCStrayAnswers ---------------------------
(* A small instance of StrayAnswers for TLC. *)
EXTENDS StrayAnswers, TLC

Request(id, context) ==
    [kind |-> "request", request_id |-> id, action |-> "DISCOVERY_EXTENSIONS",
     thread_context |-> context, features |-> context, body |-> "decodable"]

\* Init requests under one id, told apart by their contexts.
SomeRequests == {Request(1, context) : context \in Contexts}

\* Nothing orders or names connections or contexts.
Interchangeable == Permutations(Conns) \cup Permutations(Contexts)

=============================================================================
