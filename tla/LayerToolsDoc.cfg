SPECIFICATION Spec
CONSTANTS
    Jobs <- DocJobs
    PackageSpecs <- NoSpecs
    PackageFaults = 0
    AttachAttempts = 1
    Inputs <- NoInputs
    FullRange = 4
    DEVICE_PER_BRIDGE = 2
    MaxChassis = 3
    ContainerJobs = {}
    Accounts = {}
    VmJobs = {}
INVARIANT LayersStack
CHECK_DEADLOCK FALSE
