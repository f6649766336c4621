CONSTANTS
    Fds <- MCFds4
    EphPorts <- MCEphPorts
    UserPort <- MCUserPort
    EphBinds = {}
    MaxOpts = 0
    MaxSockets = 1
    FileStates = {Absent, External}
    SingleThreaded = TRUE
    MixBindConnect = FALSE
    RuleKinds = {"socket_path", "socket_activation"}
    SystemdFd = 3
    ActPath = p1
    SockTypes = {"TCP"}
    Paths = {p1, p2}
    None = None
    NoObj = NoObj
    Absent = Absent
    Stale = Stale
    External = External
    BhPath = BhPath
SPECIFICATION Spec
INVARIANT ActivatedAdoptsSystemdSocket
CHECK_DEADLOCK FALSE
