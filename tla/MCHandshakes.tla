---------------------------- MODULE MCHandshakes ----------------------------
(* A small instance of Handshakes for TLC. *)
EXTENDS Handshakes, TLC

\* The oldest release, both sides of the stream address and the host's, and a
\* newer one.
SomeReleases == {219, 301, 302, 306, 400}

Empty == [k \in {} |-> k]

Node(address, stream_address, attributes, roles) ==
    [names |-> << <<110>>, <<110>>, <<>>, <<3>>, <<3>> >>, address |-> TransportAddress(address, 2),
     stream_address |-> stream_address, attributes |-> attributes, roles |-> roles,
     version |-> 2]

SomePeerNodes ==
    {Node(<<0, 1>>, <<TransportAddress(<<1>>, 3)>>, (<<1>> :> <<>>) @@ (<<2, 1>> :> <<1>>), <<Role(<<194, 128>>, <<>>, TRUE)>>),
     Node(<<1>>, <<>>, Empty, <<>>)}

SomeExtensions ==
    {[discovery_node |-> Node(<<1>>, <<>>, Empty, Roles), minimum_compatible_version |-> 1,
      dependencies |-> dependencies] :
        dependencies \in {<<>>, <<[unique_id |-> <<1>>, version |-> 0]>>}}

SomeTasks == {[node_id |-> <<>>, id |-> <<>>], [node_id |-> <<3>>, id |-> <<0>>]}

\* True and false, each alone and with more behind it, no flag and no byte.
SomeAcknowledgements == {<<1>>, <<1, 2>>, <<0>>, <<0, 1>>, <<2>>, <<>>}

\* Unset, IPv6, and no address.
SomeHostSettings == {<<>>, << <<0, 1>> >>, << <<>> >>}

\* Unset, any free port, the last and one more.
SomePortSettings == {<<>>, <<0>>, <<LAST_PORT>>, <<LAST_PORT + 1>>}

\* No routes, the one of Hello World, and two of which one has no name.
SomeRouteLists ==
    {<<>>, <<[method |-> 0, path |-> <<47, 104>>, name |-> <<6>>]>>,
     <<[method |-> 8, path |-> <<47, 194, 128>>, name |-> <<>>], [method |-> 1, path |-> <<47>>, name |-> <<6, 6>>]>>}

\* No interface, and one beside the actions.
SomeOwnInterfaces == {<<>>, << <<194, 128>>, ACTION_EXTENSION >>}

SomeServiceAccounts == {<<194, 128>>}

=============================================================================
