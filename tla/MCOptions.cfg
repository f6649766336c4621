CONSTANTS
    Fds <- MCFds
    EphPorts <- MCEphPorts
    UserPort <- MCUserPort
    EphBinds = {32768}
    MaxOpts = 2
    MaxSockets = 1
    FileStates = {Absent, Stale, External}
    SingleThreaded = FALSE
    MixBindConnect = TRUE
    RuleKinds = {"socket_path", "blackhole"}
    SystemdFd = None
    ActPath = p1
    SockTypes = {"TCP", "UDP"}
    Paths = {p1, p2}
    None = None
    NoObj = NoObj
    Absent = Absent
    Stale = Stale
    External = External
    BhPath = BhPath
SPECIFICATION Spec
INVARIANT TypeOK
INVARIANT OptionsReplayed
INVARIANT PeerMapsInverse
INVARIANT ConnectedHasBinding
INVARIANT PeerDiffersFromLocal
PROPERTY PeerAddressStable
CHECK_DEADLOCK FALSE
