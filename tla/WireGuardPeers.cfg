\* Any one disturbance, which may be an overlap of two operations.
SPECIFICATION Spec
CONSTANTS
    Requests = {r1, r2}
    Boot = Boot
    Keys = {k1, k2}
    Inputs <- MCInputs
    Operations = {"create", "delete", "other", "ipv6", "peer", "enable"}
    None = None
    Disturbances = {"overlap", "command", "silent", "write", "crash", "reboot"}
    MaxDisturbances = 1
SYMMETRY Symmetry
INVARIANTS
    TypeOK
    NoOverlap
    PeersInForce
