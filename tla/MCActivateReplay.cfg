CONSTANTS
    Fds <- MCFds
    EphPorts <- MCEphPorts
    UserPort <- MCUserPort
    EphBinds = {}
    MaxOpts = 1
    MaxSockets = 1
    FileStates = {Absent, External}
    SingleThreaded = TRUE
    MixBindConnect = FALSE
    RuleKinds = {"socket_path", "socket_activation"}
    SystemdFd = 3
    ActPath = p1
    SockTypes = {"TCP"}
    Paths = {p1, p2}
    None = None
    NoObj = NoObj
    Absent = Absent
    Stale = Stale
    External = External
    BhPath = BhPath
SPECIFICATION Spec
INVARIANT SystemdSocketKept
CHECK_DEADLOCK FALSE
