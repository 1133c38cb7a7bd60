SPECIFICATION Spec
CONSTANTS
    Jobs <- MCJobs
    PackageSpecs <- MCSpecs
    PackageFaults = 2
    AttachAttempts = 2
    Inputs <- MCInputs
    FullRange = 4
    DEVICE_PER_BRIDGE = 2
    MaxChassis = 3
    ContainerJobs <- MCContainerJobs
    Accounts <- MCAccounts
    VmJobs <- MCVmJobs
INVARIANTS
    ChangeStreamFaithful
    SendstreamsFaithful
    StorageFaithful
    PackageIsWhole
    ParsesWhateverThePieces
    IsolatedAsAsked
    VmAsAsked
PROPERTY ToolsEnd
CHECK_DEADLOCK FALSE
