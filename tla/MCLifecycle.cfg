CONSTANTS
    Fds <- MCFds5
    EphPorts <- MCEphPorts
    UserPort <- MCUserPort
    EphBinds = {}
    MaxOpts = 0
    MaxSockets = 2
    FileStates = {Absent, External}
    SingleThreaded = TRUE
    MixBindConnect = FALSE
    RuleKinds = {"socket_path", "blackhole", "socket_activation"}
    SystemdFd = 3
    ActPath = p1
    SockTypes = {"TCP", "UDP"}
    Paths = {p1, p2}
    None = None
    NoObj = NoObj
    Absent = Absent
    Stale = Stale
    External = External
    BhPath = BhPath
SPECIFICATION Spec
INVARIANT PeerDiffersFromLocal
PROPERTY LifecycleRefined
CHECK_DEADLOCK FALSE
