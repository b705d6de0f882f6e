CONSTANTS
    Svc = svc
    Net = net
    c1 = c1
    c2 = c2
    c3 = c3
    q1 = q1
    q2 = q2
    prof1 = prof1
    prof2 = prof2
    Checkers = {c1, c2, c3}
    Pppds = {q1, q2}
    NoPid = NoPid
    Profiles = {prof1}
    NoProfile = NoProfile
    Backup <- MCBackup
    MaxRetries = 1
    AutoConnect = TRUE
    Faults = {"power", "brief", "hangup"}
    MaxRequests = 1

SPECIFICATION FairSpec
PROPERTIES
    BootDials
CHECK_DEADLOCK FALSE
