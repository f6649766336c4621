CONSTANTS
    Fds <- MCFds4
    EphPorts <- MCEphPorts
    UserPort <- MCUserPort
    EphBinds = {32768}
    MaxOpts = 0
    MaxSockets = 2
    FileStates = {Absent}
    SingleThreaded = TRUE
    MixBindConnect = FALSE
    RuleKinds = {"socket_path", "socket_activation"}
    SystemdFd = 3
    ActPath = p1
    SockTypes = {"TCP"}
    Paths = {p1, p2}
    None = None
    NoObj = NoObj
    Absent = Absent
    Stale = Stale
    External = External
    BhPath = BhPath
SPECIFICATION Spec
INVARIANT PeerDiffersFromLocal
CHECK_DEADLOCK FALSE
