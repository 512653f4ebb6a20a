----------------------------- MODULE Handshakes -----------------------------
(***************************************************************************)
(* The bodies of one connection, from the start of the process to the      *)
(* response to the init request: what the Hello World binary listens on,   *)
(* under which version the host writes and reads each body, and what the   *)
(* peer learns from it.  Framing is left to FrameStream, threads and the   *)
(* table of pending requests to ExtensionHost; a frame here is its         *)
(* header's version and the cells of its body.                             *)
(*                                                                         *)
(* The peer is OpenSearch: it opens the connection under a version it can  *)
(* always read, goes on under the lower of both versions, reads each body  *)
(* under the version of its header, and refuses one it cannot read to the  *)
(* end.                                                                    *)
(***************************************************************************)
EXTENDS Payloads, Protobuf

CONSTANTS
    PeerReleases,     \* release ids peers may have
    PeerNodes,        \* what a peer may say of itself
    Extensions,       \* what a peer may say of the extension
    Tasks,            \* task ids a peer may send
    Acknowledgements, \* bodies a peer may answer a registration with
    HostSettings,     \* values of OPENSEARCH_SDK_RS_HOST: octets, if any
    PortSettings,     \* values of OPENSEARCH_SDK_RS_PORT: a number, if any
    FreePorts,        \* ports the system may choose
    RouteLists,       \* lists routes() may return
    OwnInterfaces,    \* lists an implemented_interfaces() of its own may return
    ServiceAccounts   \* service account headers a peer may send

\* Strings are told apart by one byte or two; U+0080 is one that takes two.
UNIQUE_ID == <<104>>
NAME == <<72, 194, 128>>
ACTION_EXTENSION == <<65>>
SPACE == 32

DEFAULT_PORT == 1234
LAST_PORT == 65535

\* Scaled: one octet for IPv4.
LOCALHOST == <<1>>

ASSUME ReleasesAssumption == PeerReleases \subseteq MIN_COMPAT_RELEASE_ID..(MASK - 1)

\* No path or name holds the space that separates the parts of a registration.
Words == {string \in Strings : SPACE \notin ToSet(string)}

ASSUME RoutesAssumption == RouteLists \subseteq Seq([method : 0..8, path : Words, name : Words])

ASSUME InterfacesAssumption == OwnInterfaces \subseteq Seq(Strings)

ASSUME AccountsAssumption == ServiceAccounts \subseteq Strings

\* Octets are digits, and a setting that is unset is empty.
ASSUME SettingsAssumption == HostSettings \subseteq Seq(Seq(0..9)) /\ PortSettings \subseteq Seq(Nat)

ASSUME PeersAssumption ==
    /\ \A node \in PeerNodes : IsNode(node)
    /\ \A extension \in Extensions : IsExtensionNode(extension)
    /\ \A task \in Tasks : IsTask(task)

VARIABLES
    stage,      \* how far the process and its connection are
    metadata,   \* address and port in ExtensionMetadata
    routes,     \* ExtensionHost.routes
    interfaces, \* ExtensionHost.implemented_interfaces
    steady,     \* history: the trait's own implemented_interfaces saw the same routes
    listening,  \* the port the listener has, <<>> before
    release,    \* release id of the peer
    channel,    \* the version the peer writes under
    sent,       \* the body of the peer's last request, as it holds it
    learnt,     \* the actions it read from the registration, <<>> before
    inbound,    \* its last frame, as it reaches the host
    outbound,   \* the host's last frame
    read        \* what the host read from the init request, <<>> before

server == <<metadata, routes, interfaces, steady, listening>>
peer == <<release, channel, sent, learnt>>
vars == <<stage, server, peer, inbound, outbound, read>>

NoFrame == [version |-> 0, body |-> <<>>]

\* Slip: there are actions even when there are no routes.
ImplementedInterfaces_Always(list) == <<ACTION_EXTENSION>>

\* Extension::implemented_interfaces, for what routes() returns to it.
ImplementedInterfaces(list) == IF list = <<>> THEN <<>> ELSE <<ACTION_EXTENSION>>

\* What ExtensionHost::new stores: it calls routes(), then
\* implemented_interfaces(), which calls routes() again, or which the extension
\* has overridden.  Nothing obliges the two to agree, and neither depends on the
\* settings, so the lists are there from the start.
New ==
    /\ routes \in RouteLists
    /\ \/ \E again \in RouteLists :
              interfaces = ImplementedInterfaces(again) /\ steady = (again = routes)
       \/ interfaces \in OwnInterfaces /\ steady = FALSE

Init ==
    /\ stage = "starting"
    /\ metadata = [host_address |-> LOCALHOST, port |-> DEFAULT_PORT]
    /\ New
    /\ listening = <<>>
    /\ release \in PeerReleases
    /\ channel = FromReleaseId(MIN_COMPAT_RELEASE_ID)
    /\ sent = <<>>
    /\ learnt = <<>>
    /\ inbound = NoFrame
    /\ outbound = NoFrame
    /\ read = <<>>

-----------------------------------------------------------------------------
(* Start-up: main and the first line of serve. *)

\* A setting that is there must parse; u16 holds the port.
Parses(host, port) ==
    /\ host = <<>> \/ Len(host[1]) \in {1, 2}
    /\ port = <<>> \/ port[1] \in 0..LAST_PORT

Configured(host, port) ==
    [host_address |-> IF host = <<>> THEN LOCALHOST ELSE host[1],
     port |-> IF port = <<>> THEN DEFAULT_PORT ELSE port[1]]

\* HelloWorldExtension::new.
Configure ==
    /\ stage = "starting"
    /\ \E host \in HostSettings, port \in PortSettings :
          IF Parses(host, port)
          THEN metadata' = Configured(host, port) /\ stage' = "configured"
          ELSE stage' = "failed" /\ UNCHANGED metadata
    /\ UNCHANGED <<routes, interfaces, steady, listening, peer, inbound, outbound, read>>

\* TcpListener::bind takes the port, or any free one for 0.
Bind ==
    /\ stage = "configured"
    /\ \E port \in IF metadata.port = 0 THEN FreePorts ELSE {metadata.port} :
          listening' = <<port>>
    /\ stage' = "listening"
    /\ UNCHANGED <<metadata, routes, interfaces, steady, peer, inbound, outbound, read>>

BindFails ==
    /\ stage = "configured"
    /\ stage' = "failed"
    /\ UNCHANGED <<server, peer, inbound, outbound, read>>

-----------------------------------------------------------------------------
(* What the extension says of itself. *)

\* The text of an address: a digit for each octet.
Text(octets) == [i \in DOMAIN octets |-> 48 + octets[i]]

TransportAddress(octets, port) ==
    [address |-> octets, host_name |-> Text(octets), port |-> port]

\* The string with "-ephemeral" behind it.
Ephemeral(string) == string \o <<45>>

Role(name, abbreviation, can_contain_data) ==
    [name |-> name, abbreviation |-> abbreviation, can_contain_data |-> can_contain_data]

\* Cluster manager, data, ingest, remote cluster client, by their first letters.
Roles == <<Role(<<99>>, <<109>>, FALSE), Role(<<100>>, <<100>>, TRUE),
           Role(<<105>>, <<105>>, FALSE), Role(<<114>>, <<114>>, FALSE)>>

\* Slip: the node announces the default port.
DiscoveryNode_DefaultPort ==
    [names |-> <<UNIQUE_ID, UNIQUE_ID, Ephemeral(UNIQUE_ID),
                 Text(metadata.host_address), Text(metadata.host_address)>>,
     address |-> TransportAddress(metadata.host_address, DEFAULT_PORT),
     stream_address |-> <<>>,
     attributes |-> [k \in {} |-> k],
     roles |-> Roles,
     version |-> FromReleaseId(CURRENT_RELEASE_ID)]

DiscoveryNode ==
    [names |-> <<UNIQUE_ID, UNIQUE_ID, Ephemeral(UNIQUE_ID),
                 Text(metadata.host_address), Text(metadata.host_address)>>,
     address |-> TransportAddress(metadata.host_address, metadata.port),
     stream_address |-> <<>>,
     attributes |-> [k \in {} |-> k],
     roles |-> Roles,
     version |-> FromReleaseId(CURRENT_RELEASE_ID)]

\* RestMethod::as_str: a name of one letter for each ordinal.
AsStr(method) == <<65 + method>>

RegistrationString(route) ==
    AsStr(route.method) \o <<SPACE>> \o route.path \o <<SPACE>> \o route.name

-----------------------------------------------------------------------------
(* The frames of the host. *)

MIN_COMPAT == FromReleaseId(MIN_COMPAT_RELEASE_ID)
CURRENT == FromReleaseId(CURRENT_RELEASE_ID)

\* Slip: the handshake echoes the version it was asked under.
TcpHandshakeResponse_Echoes(frame) == [version |-> frame.version, body |-> <<frame.version>>]

\* The version of the body is the host's own, whatever the request carries.
TcpHandshakeResponse(frame) == [version |-> frame.version, body |-> <<CURRENT>>]

\* Slip: the body is written under the version of the host.
TransportHandshakeResponse_OwnVersion(frame) ==
    [version |-> frame.version,
     body |-> FlattenSeq(<<WriteBool(TRUE), WriteNode(DiscoveryNode, CURRENT),
                           WriteString(<<>>), <<CURRENT>>>>)]

\* The body is written under the version that the header carries back: a node,
\* an empty cluster name and the version of the host.
TransportHandshakeResponse(frame) ==
    [version |-> frame.version,
     body |-> FlattenSeq(<<WriteBool(TRUE), WriteNode(DiscoveryNode, frame.version),
                           WriteString(<<>>), <<CURRENT>>>>)]

\* Slip: the id is there although the node id is empty.
DefaultTask_WithId == [node_id |-> <<>>, id |-> <<0>>]

DefaultTask == [node_id |-> <<>>, id |-> <<>>]

\* Both requests of the host: a task id, and a message as a byte array.
HostRequest(message) ==
    [version |-> MIN_COMPAT,
     body |-> WriteTaskId(DefaultTask) \o WriteByteArray(message)]

RegisterRequest ==
    HostRequest(EncodeRegisterRestActions(
        UNIQUE_ID, [i \in DOMAIN routes |-> RegistrationString(routes[i])], <<>>))

ENVIRONMENT_SETTINGS == 4

\* The settings are asked for without an identity.
SettingsRequest == HostRequest(EncodeExtensionRequest(<<>>, ENVIRONMENT_SETTINGS))

InitializeResponse ==
    [version |-> MIN_COMPAT, body |-> WriteString(NAME) \o WriteStringArray(interfaces)]

-----------------------------------------------------------------------------
(* The handlers. *)

HandleTcpHandshake ==
    /\ stage = "tcp handshake"
    /\ outbound' = TcpHandshakeResponse(inbound)
    /\ stage' = "tcp answered"
    /\ UNCHANGED <<server, peer, inbound, read>>

HandleTransportHandshake ==
    /\ stage = "transport handshake"
    /\ outbound' = TransportHandshakeResponse(inbound)
    /\ stage' = "transport answered"
    /\ UNCHANGED <<server, peer, inbound, read>>

\* Slip: the request is read under the oldest version the host knows.
ReadInit_MinCompat(frame) ==
    Then(ReadTaskId(frame.body), LAMBDA task, rest :
        ReadInitializeRequest(rest, MIN_COMPAT))

\* What handle_initialize_extension decodes before it takes the lock.
ReadInit(frame) ==
    Then(ReadTaskId(frame.body), LAMBDA task, rest :
        ReadInitializeRequest(rest, frame.version))

HandleInitializeExtension ==
    /\ stage = "initializing"
    /\ LET result == ReadInit(inbound)
       IN  IF result.error = "none"
           THEN stage' = "registering" /\ read' = <<result.value>> /\ outbound' = RegisterRequest
           ELSE stage' = "failed" /\ UNCHANGED <<read, outbound>>
    /\ UNCHANGED <<server, peer, inbound>>

\* handle_response for a registration: what follows the flag is not read.
HandleAcknowledgement ==
    /\ stage = "acknowledging"
    /\ LET result == ReadBool(inbound.body)
       IN  \/ result.error # "none" /\ stage' = "failed" /\ UNCHANGED outbound
           \/ result.error = "none" /\ result.value
              /\ stage' = "configuring" /\ outbound' = SettingsRequest
           \/ result.error = "none" /\ ~result.value
              /\ stage' = "refused" /\ UNCHANGED outbound
    /\ UNCHANGED <<server, peer, inbound, read>>

\* handle_response for the settings: their body is not read.
HandleSettings ==
    /\ stage = "settled"
    /\ outbound' = InitializeResponse
    /\ stage' = "initialized"
    /\ UNCHANGED <<server, peer, inbound, read>>

-----------------------------------------------------------------------------
(* The peer. *)

\* The peer connects to the port that was opened and sends its release.
PeerOpens ==
    /\ stage = "listening"
    /\ inbound' = [version |-> channel, body |-> <<FromReleaseId(release)>>]
    /\ stage' = "tcp handshake"
    /\ UNCHANGED <<server, peer, outbound, read>>

\* The peer goes on under the lower of its own version and the host's.
PeerAgrees ==
    /\ stage = "tcp answered"
    /\ LET theirs == ReleaseId(outbound.body[1])
       IN  channel' = FromReleaseId(IF theirs < release THEN theirs ELSE release)
    /\ inbound' = [version |-> channel', body |-> <<>>]
    /\ stage' = "transport handshake"
    /\ UNCHANGED <<server, release, sent, learnt, outbound, read>>

WriteInit(init, version) ==
    WriteTaskId(init.task)
        \o FlattenSeq(<<WriteNode(init.source_node, version), WriteExtensionNode(init.extension, version),
                        WriteString(init.service_account_header)>>)

\* The request may be cut to any length.
PeerInitializes ==
    /\ stage = "transport answered"
    /\ \E task \in Tasks, node \in PeerNodes, extension \in Extensions, header \in ServiceAccounts :
          LET init  == [task |-> task, source_node |-> node, extension |-> extension,
                        service_account_header |-> header]
              cells == WriteInit(init, channel)
          IN  /\ sent' = <<init>>
              /\ \E n \in 0..Len(cells) :
                    inbound' = [version |-> channel, body |-> SubSeq(cells, 1, n)]
    /\ stage' = "initializing"
    /\ UNCHANGED <<server, release, channel, learnt, outbound, read>>

\* The peer's view of a transport handshake response, under its version.
HandshakeReaders(version) ==
    <<Reader(ReadBool), Reader(LAMBDA input : ReadNode(input, version)), Reader(ReadString),
      Reader(ReadCell)>>

PeerReadsHandshake(frame) ==
    Then(ReadFields(HandshakeReaders(frame.version), frame.body), LAMBDA f, rest :
        Reads([node |-> f[2], version |-> f[4]], rest))

\* The fields of the message in a request of the host, behind an unset task id.
PeerReadsMessage(frame) ==
    Then(ReadTaskId(frame.body), LAMBDA task, r1 :
    Then(ReadByteArray(r1), LAMBDA bytes, r2 :
    Then(ReadMessage(bytes), LAMBDA fields, r3 :
        IF task = DefaultTask THEN Reads(fields, r2) ELSE Fails("data"))))

PeerAnswers(now, next, bodies) ==
    /\ stage = now
    /\ \E body \in bodies : inbound' = [version |-> channel, body |-> body]
    /\ stage' = next
    /\ UNCHANGED <<server, release, channel, sent, outbound, read>>

\* The peer keeps the actions of the registration before it answers.
PeerAcknowledges ==
    /\ PeerAnswers("registering", "acknowledging", Acknowledgements)
    /\ learnt' = ValuesOf(PeerReadsMessage(outbound).value, 2)

PeerSendsSettings ==
    /\ PeerAnswers("configuring", "settled", {<<>>})
    /\ UNCHANGED learnt

\* The peer knows a method by its ordinal and splits a registration at its
\* first two spaces.
PeerReadsRoute(registration) ==
    LET spaces == {i \in DOMAIN registration : registration[i] = SPACE}
        first  == Min(spaces)
        second == Min(spaces \ {first})
    IN  [method |-> IF first = 2 THEN registration[1] - 65 ELSE 9,
         path |-> SubSeq(registration, first + 1, second - 1),
         name |-> SubSeq(registration, second + 1, Len(registration))]

Next ==
    \/ Configure \/ Bind \/ BindFails
    \/ PeerOpens \/ HandleTcpHandshake
    \/ PeerAgrees \/ HandleTransportHandshake
    \/ PeerInitializes \/ HandleInitializeExtension
    \/ PeerAcknowledges \/ HandleAcknowledgement
    \/ PeerSendsSettings \/ HandleSettings

Spec == Init /\ [][Next]_vars

-----------------------------------------------------------------------------
(* Properties. *)

\* A peer of any release reads the response to its transport handshake, under
\* the version that came with it, to the last cell: the node of the host and
\* its release.
PeerReadsResponse ==
    stage = "transport answered" =>
        PeerReadsHandshake(outbound) = Reads([node |-> DiscoveryNode, version |-> CURRENT], <<>>)

\* The port in that node is the one the peer found the host at, unless the
\* system was asked to choose it, and the address is the one the listener was
\* bound to, a wildcard included.
AnnouncesWhereItListens ==
    stage = "transport answered" /\ metadata.port # 0 =>
        LET announced == PeerReadsHandshake(outbound).value.node.address
        IN  announced = TransportAddress(metadata.host_address, listening[1])

\* A node as far as a version tells it.
Told(node, version) ==
    IF OnOrAfter(version, STREAM_ADDRESS_RELEASE_ID) THEN node
    ELSE [node EXCEPT !.stream_address = <<>>]

Whole == inbound.body = WriteInit(sent[1], channel)

\* The host reads the init request of a peer of any release as the peer meant
\* it, and refuses it if and only if it is cut.
HostReadsInit ==
    /\ stage = "failed" /\ read = <<>> /\ sent # <<>> => ~Whole
    /\ stage = "registering" =>
          /\ Whole
          /\ read[1].source_node = Told(sent[1].source_node, channel)
          /\ read[1].extension =
                [sent[1].extension EXCEPT !.discovery_node = Told(@, channel)]
          /\ read[1].service_account_header = sent[1].service_account_header

\* After the TCP handshake both sides use the newest version that both know,
\* so that no field only one of them knows is ever written or expected.
VersionsAgree ==
    sent # <<>> \/ stage \in {"transport handshake", "transport answered"} =>
        /\ ReleaseId(channel) \in {release, CURRENT_RELEASE_ID}
        /\ ReleaseId(channel) <= release /\ ReleaseId(channel) <= CURRENT_RELEASE_ID
        /\ stage = "transport answered" => outbound.version = channel

\* The registration tells the peer who asks and, in order and none deprecated,
\* the routes that will be matched: a request the peer forwards for one of them
\* carries the method it was registered with.
PeerLearnsRoutes ==
    stage = "registering" =>
        LET message == PeerReadsMessage(outbound)
            actions == ValuesOf(message.value, 2)
        IN  /\ message.error = "none" /\ message.rest = <<>>
            /\ IdentitiesOf(message.value) = << <<UNIQUE_ID>> >>
            /\ [i \in DOMAIN actions |-> PeerReadsRoute(actions[i])] =
                  [i \in DOMAIN routes |->
                      [method |-> routes[i].method,
                       path |-> routes[i].path, name |-> routes[i].name]]
            /\ ValuesOf(message.value, 3) = <<>>

\* The settings request is one for the environment settings, and nothing else
\* is in it.
PeerUnderstandsSettingsRequest ==
    stage = "configuring" =>
        PeerReadsMessage(outbound) =
            Reads(<<[tag |-> 2, value |-> <<ENVIRONMENT_SETTINGS>>]>>, <<>>)

\* The response tells the peer the interfaces stored at the start, whatever they
\* are.  If they are the trait's own answer and routes() said the same both
\* times, they name actions if and only if the peer read some from the
\* registration, three frames earlier.
InterfacesMatchRoutes ==
    stage = "initialized" =>
        LET heard == Then(ReadString(outbound.body), LAMBDA name, rest : ReadStringArray(rest))
        IN  /\ heard = Reads(interfaces, <<>>)
            /\ steady => (ACTION_EXTENSION \in ToSet(heard.value) <=> learnt # <<>>)

=============================================================================
