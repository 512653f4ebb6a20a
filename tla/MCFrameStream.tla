--------------------------- MODULE MCFrameStream ---------------------------
(* A small instance of FrameStream for TLC. *)
EXTENDS FrameStream, TLC

Empty == [k \in {} |-> k]

NoContext == [request_headers |-> Empty, response_headers |-> Empty]

\* Cells that are also lengths and markers, to tempt a reader out of step.
Context ==
    [request_headers |-> (<<69>> :> <<>>),
     response_headers |-> (<<>> :> {<<2>>, <<>>})]

EmptySet == [NoContext EXCEPT !.response_headers = (<<>> :> {})]

SomeRequests == {<<1, Context, <<<<>>>>, <<1>>, <<69>>, FALSE>>, <<0, NoContext, <<>>, <<>>, <<>>, TRUE>>}

SomeResponses == {<<1, EmptySet, <<1, 0>>, FALSE, TRUE>>}

SomeBare == {<<5, NoContext, <<69, 4>>>>}

=============================================================================
