CONSTANTS
    Fds <- MCFds4
    EphPorts <- MCEphPorts
    UserPort <- MCUserPort
    EphBinds = {}
    MaxOpts = 0
    MaxSockets = 2
    FileStates = {Absent, External}
    SingleThreaded = FALSE
    MixBindConnect = TRUE
    RuleKinds = {"socket_path"}
    SystemdFd = None
    ActPath = p1
    SockTypes = {"TCP", "UDP"}
    Paths = {p1, p2}
    None = None
    NoObj = NoObj
    Absent = Absent
    Stale = Stale
    External = External
    BhPath = BhPath
SPECIFICATION Spec
PROPERTY CollidingBindIsBlackholed
CHECK_DEADLOCK FALSE
