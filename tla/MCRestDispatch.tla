--------------------------- MODULE MCRestDispatch ---------------------------
(* A small instance of RestDispatch for TLC. *)
EXTENDS RestDispatch, TLC

\* "/a", "/a/", "/a/{}", "/a/b", "//{b}", "/", and "/}/a", where } is literal.
SomePaths ==
    {<<47, 97>>, <<47, 97, 47>>, <<47, 97, 47, 123, 125>>, <<47, 97, 47, 98>>,
     <<47, 47, 123, 98, 125>>, <<47>>, <<47, 125, 47, 97>>}

\* Tables of up to three routes for GET, and for POST, where order matters.
SomeRouteTables ==
    BoundedSeq({[method |-> 0, path |-> <<47, 97>>], [method |-> 0, path |-> <<47, 97, 47, 123, 125>>],
                [method |-> 0, path |-> <<47, 97, 47, 98>>],
                [method |-> 1, path |-> <<47, 47, 123, 98, 125>>]}, 3)

Empty == [k \in {} |-> k]

\* The key of one parameter is a character of two bytes.
Full(method, http_version) ==
    [task |-> [node_id |-> <<7>>, id |-> <<0>>], method |-> method,
     uri |-> <<47>>, path |-> <<47, 97, 47, 98>>,
     params |-> (<<194, 128>> :> <<1>>) @@ (<<2>> :> <<>>), headers |-> (<<1>> :> <<<<3>>, <<>>>>),
     media_type |-> <<<<1>>>>, content |-> <<4, 0>>, token |-> <<2>>,
     http_version |-> http_version]

Plain(method, path) ==
    [task |-> [node_id |-> <<>>, id |-> <<>>], method |-> method, uri |-> path, path |-> path,
     params |-> Empty, headers |-> Empty, media_type |-> <<>>,
     content |-> <<>>, token |-> <<>>, http_version |-> 1]

\* Also ordinals that are not known.
SomeRequests ==
    {Plain(m, p) : m \in {0, 1}, p \in SomePaths}
    \cup {Full(0, 1), Full(0, 2), Full(9, 0)}

\* Every status; no headers, one with several values, and several headers, one
\* of which has no value; consumed parameters a request has and one it has not.
Answer(status, content_type, content, headers, consumed_params, content_consumed) ==
    [status |-> status, content_type |-> content_type, content |-> content,
     headers |-> headers, consumed_params |-> consumed_params,
     content_consumed |-> content_consumed]

SomeResponses ==
    {Answer(2, <<116>>, <<3>>, Empty, {}, FALSE),
     Answer(4, <<>>, <<>>, <<1>> :> <<<<194, 128>>, <<>>, <<2>>>>, {<<2>>}, TRUE),
     Answer(40, <<116>>, <<0, 1>>, (<<194, 128>> :> <<>>) @@ (<<2>> :> <<<<3>>>>),
            {<<2>>, <<194, 128>>}, FALSE),
     Answer(21, <<194, 128>>, <<2>>, <<>> :> <<<<>>>>, {<<9>>}, TRUE)}

=============================================================================
