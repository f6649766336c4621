CONSTANTS
    Words = {w1, w2}
    ParseOk = {w1}
    MaxArgs = 4
    Self = Self
    OtherLib = OtherLib
    None = None
SPECIFICATION Spec
INVARIANT TypeOK
INVARIANT ExecEnvironment
CHECK_DEADLOCK FALSE
