CONSTANTS
    Svc = svc
    Net = net
    c1 = c1
    c2 = c2
    c3 = c3
    q1 = q1
    q2 = q2
    prof1 = prof1
    prof2 = prof2
    Checkers = {c1, c2, c3}
    Pppds = {q1, q2}
    NoPid = NoPid
    Profiles = {prof1}
    NoProfile = NoProfile
    Backup <- MCBackup
    MaxRetries = 2
    AutoConnect = TRUE
    Faults = {"hangup", "slow", "brief", "hasty"}
    MaxRequests = 2

SPECIFICATION Spec
SYMMETRY Symmetry
INVARIANTS
    NoStaleRedial
PROPERTIES
    HangupHolds
CHECK_DEADLOCK FALSE
