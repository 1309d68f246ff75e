CONSTANTS
    Procs = {p1, p2}
    TempNames = {t1, t2, t3}
    OldNames = {t3}
    MaxAttempts = 1
    Sources <- MCSources
    Formats = {"zip", "tar"}
    MaxFaults = 1
SPECIFICATION Spec
INVARIANTS TypeOK FreshPath RoundTrip UnpackLeavesPrefix
PROPERTIES CallsReturn
CHECK_DEADLOCK FALSE
