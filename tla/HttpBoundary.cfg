SPECIFICATION BoundarySpec
CONSTANTS
    Keys = {key, ip}
    Unset = Unset
    WindowMs = 2
    Max = 1
    TrustedMax = 2
    StartTime = 0
    MaxTime = 3
    AllowedPrefixes <- MCAllowedPrefixes
    AnyPrefix = AnyPrefix
    ChainPrefixes <- MCChainPrefixes
    MinDataLength = 32
    MaxDataLength = 103
    Requests = {r1, r2}
    Bodies <- MCBodies
    ChainIds = {"osmosis-1", "noble-1", "unknown-1"}
    Tokens = {tA, tB, tShort}
    UsableTokens = {tA, tB}
    Subjects = {d1, d2, dUnsafe}
    SafeSubjects = {d1, d2}
    Absent = Absent
SYMMETRY Symmetry
INVARIANTS BoundaryTypeOK WindowBound AcceptedIsRight NoOpenDoor DeviceKeepsItsQuota
PROPERTIES ExactLimit
CHECK_DEADLOCK TRUE
