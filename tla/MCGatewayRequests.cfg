SPECIFICATION Spec
CONSTANTS
    Self = 2
    Slots = 3
    Ordinal = 0
    GatewayCount = 2
    MaxGateways = 2
    Peers <- MCPeers
    ClaimSlots <- MCClaimSlots
    Window = 1
    MaxContexts = 1
    MaxPending = 2
    MaxRequests = 3
    MaxSuperframe = 2
    MaxRenewed = 1
    MaxCrashes = 1
    MaxFailures = 1
    MaxEvents = 2
CONSTRAINT FewEvents
INVARIANTS
    StoresReadable
    PromisesKept
    ClaimsRespected
    CandidatesValid
PROPERTIES
    ServedOnce
    NonceFresh
    AnsweredOnce
CHECK_DEADLOCK FALSE
