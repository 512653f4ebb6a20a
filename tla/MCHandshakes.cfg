CONSTANTS
    PeerReleases <- SomeReleases
    PeerNodes <- SomePeerNodes
    Extensions <- SomeExtensions
    Tasks <- SomeTasks
    Acknowledgements <- SomeAcknowledgements
    HostSettings <- SomeHostSettings
    PortSettings <- SomePortSettings
    FreePorts = {49152}
    RouteLists <- SomeRouteLists
    OwnInterfaces <- SomeOwnInterfaces
    ServiceAccounts <- SomeServiceAccounts
SPECIFICATION Spec
CHECK_DEADLOCK FALSE
INVARIANTS
    PeerReadsResponse
    AnnouncesWhereItListens
    HostReadsInit
    VersionsAgree
    PeerLearnsRoutes
    PeerUnderstandsSettingsRequest
    InterfacesMatchRoutes
