------------------------------ MODULE Payloads ------------------------------
(***************************************************************************)
(* The payload types of src/transport.rs that are read or written under a  *)
(* transport version, as readers and writers of StreamCodec.  A release id *)
(* is scaled (3.6.0 is 306), and so are the octets of an address: one for  *)
(* IPv4 and two for IPv6 in place of 4 and 16.  An optional value is <<>>  *)
(* or a sequence of one.                                                   *)
(***************************************************************************)
EXTENDS StreamCodec

-----------------------------------------------------------------------------
(* Version: an encoded id is the release id with the mask's bit flipped. *)

MASK == 1024

CURRENT_RELEASE_ID == 306
MIN_COMPAT_RELEASE_ID == 219
STREAM_ADDRESS_RELEASE_ID == 302

\* Release ids are below the mask, so flipping its bit adds it.
FromReleaseId(release_id) == release_id + MASK

ReleaseId(version) == version % MASK

OnOrAfter(version, release_id) == ReleaseId(version) >= release_id

-----------------------------------------------------------------------------
(* TaskId. *)

\* There is no id without a node.
IsTask(task) ==
    /\ task.node_id \in Strings /\ task.id \in Seq(Nat)
    /\ Len(task.id) = IF task.node_id = <<>> THEN 0 ELSE 1

\* The id follows only a node id that is not empty.
ReadTaskId(input) ==
    Then(ReadString(input), LAMBDA node_id, rest :
        IF node_id = <<>> THEN Reads([node_id |-> <<>>, id |-> <<>>], rest)
        ELSE Then(ReadCell(rest), LAMBDA id, left :
            Reads([node_id |-> node_id, id |-> <<id>>], left)))

\* The id is written whenever there is one.
WriteTaskId(task) == WriteString(task.node_id) \o task.id

-----------------------------------------------------------------------------
(* TransportAddress and DiscoveryNode. *)

Addresses ==
    [address : {octets \in Seq(Nat) : Len(octets) \in {1, 2}}, host_name : Strings, port : Nat]

AddressReaders == <<Reader(ReadByteArray), Reader(ReadString), Reader(ReadCell)>>

\* The length is judged only after host name and port are read.
ReadAddress(input) ==
    Then(ReadFields(AddressReaders, input), LAMBDA f, rest :
        IF Len(f[1]) \in {1, 2}
        THEN Reads([address |-> f[1], host_name |-> f[2], port |-> f[3]], rest)
        ELSE Fails("data"))

WriteAddress(address) ==
    FlattenSeq(<<WriteByteArray(address.address), WriteString(address.host_name), <<address.port>>>>)

ReadStreamAddress(input, version) ==
    IF ~OnOrAfter(version, STREAM_ADDRESS_RELEASE_ID) THEN Reads(<<>>, input)
    ELSE Then(ReadBool(input), LAMBDA some, rest :
            IF ~some THEN Reads(<<>>, rest)
            ELSE Then(ReadAddress(rest), LAMBDA address, left : Reads(<<address>>, left)))

WriteStreamAddress(node, version) ==
    IF ~OnOrAfter(version, STREAM_ADDRESS_RELEASE_ID) THEN <<>>
    ELSE IF node.stream_address = <<>> THEN WriteBool(FALSE)
    ELSE WriteBool(TRUE) \o WriteAddress(node.stream_address[1])

NodeRoles == [name : Strings, abbreviation : Strings, can_contain_data : BOOLEAN]

RoleReaders == <<Reader(ReadString), Reader(ReadString), Reader(ReadBool)>>

ReadRole(input) ==
    Then(ReadFields(RoleReaders, input), LAMBDA f, rest :
        Reads([name |-> f[1], abbreviation |-> f[2], can_contain_data |-> f[3]], rest))

WriteRole(role) ==
    FlattenSeq(<<WriteString(role.name), WriteString(role.abbreviation),
                 WriteBool(role.can_contain_data)>>)

\* The five strings at the head of a node: its name, id and ephemeral id, and
\* the name and address of its host.
ReadNames(input) == ReadItems(Reader(ReadString), 5, input)

WriteNames(names) == FlattenSeq([i \in DOMAIN names |-> WriteString(names[i])])

ReadRoles(input) == ReadMany(Reader(ReadRole), input)

WriteRoles(roles) == WriteMany([i \in DOMAIN roles |-> WriteRole(roles[i])])

IsNode(node) ==
    /\ node = [names |-> node.names, address |-> node.address,
               stream_address |-> node.stream_address, attributes |-> node.attributes,
               roles |-> node.roles, version |-> node.version]
    /\ node.names \in Seq(Strings) /\ Len(node.names) = 5
    /\ node.address \in Addresses
    /\ node.stream_address \in Seq(Addresses) /\ Len(node.stream_address) <= 1
    /\ IsMap(node.attributes, Strings)
    /\ node.roles \in Seq(NodeRoles)
    /\ node.version \in Nat

NodeReaders(version) ==
    <<Reader(ReadNames), Reader(ReadAddress), Reader(LAMBDA input : ReadStreamAddress(input, version)),
      Reader(ReadStringMap), Reader(ReadRoles), Reader(ReadCell)>>

ReadNode(input, version) ==
    Then(ReadFields(NodeReaders(version), input), LAMBDA f, rest :
        Reads([names |-> f[1], address |-> f[2], stream_address |-> f[3], attributes |-> f[4],
               roles |-> f[5], version |-> f[6]], rest))

WriteNode(node, version) ==
    FlattenSeq(<<WriteNames(node.names), WriteAddress(node.address), WriteStreamAddress(node, version),
                 WriteStringMap(node.attributes), WriteRoles(node.roles), <<node.version>>>>)

-----------------------------------------------------------------------------
(* DiscoveryExtensionNode and InitializeExtensionRequest. *)

Dependencies == [unique_id : Strings, version : Nat]

DependencyReaders == <<Reader(ReadString), Reader(ReadCell)>>

ReadDependency(input) ==
    Then(ReadFields(DependencyReaders, input), LAMBDA f, rest :
        Reads([unique_id |-> f[1], version |-> f[2]], rest))

WriteDependency(dependency) ==
    FlattenSeq(<<WriteString(dependency.unique_id), <<dependency.version>>>>)

ReadDependencies(input) == ReadMany(Reader(ReadDependency), input)

WriteDependencies(dependencies) ==
    WriteMany([i \in DOMAIN dependencies |-> WriteDependency(dependencies[i])])

IsExtensionNode(extension) ==
    /\ extension = [discovery_node |-> extension.discovery_node,
                    minimum_compatible_version |-> extension.minimum_compatible_version,
                    dependencies |-> extension.dependencies]
    /\ IsNode(extension.discovery_node)
    /\ extension.minimum_compatible_version \in Nat
    /\ extension.dependencies \in Seq(Dependencies)

ExtensionReaders(version) ==
    <<Reader(LAMBDA input : ReadNode(input, version)), Reader(ReadCell), Reader(ReadDependencies)>>

ReadExtensionNode(input, version) ==
    Then(ReadFields(ExtensionReaders(version), input), LAMBDA f, rest :
        Reads([discovery_node |-> f[1], minimum_compatible_version |-> f[2],
               dependencies |-> f[3]], rest))

WriteExtensionNode(extension, version) ==
    FlattenSeq(<<WriteNode(extension.discovery_node, version),
                 <<extension.minimum_compatible_version>>,
                 WriteDependencies(extension.dependencies)>>)

InitializeReaders(version) ==
    <<Reader(LAMBDA input : ReadNode(input, version)),
      Reader(LAMBDA input : ReadExtensionNode(input, version)), Reader(ReadString)>>

ReadInitializeRequest(input, version) ==
    Then(ReadFields(InitializeReaders(version), input), LAMBDA f, rest :
        Reads([source_node |-> f[1], extension |-> f[2], service_account_header |-> f[3]], rest))

=============================================================================
