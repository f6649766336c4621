CONSTANTS
    Hosts = {h1}
    Ports = {p80}
    NoValue = NoValue
    MaxLen = 5
SPECIFICATION Spec
INVARIANT FormatMatchesReference
CHECK_DEADLOCK FALSE
