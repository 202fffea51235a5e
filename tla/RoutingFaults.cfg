\* Requests beside the startup, one destination per route, hops that are always
\* there, any three disturbances.
SPECIFICATION Spec
CONSTANTS
    Requests = {r1}
    Boot = Boot
    Ids = {i1, i2}
    Destinations = {lan, net1, net2}
    Hops = {eth}
    TunnelHops = {}
    Metrics = {1}
    Foreign <- OneForeign
    Careful = TRUE
    Disturbances = {"refuse", "keep", "write", "crash", "reboot", "wireguard"}
    MaxDisturbances = 3
    None = None
    eth = eth
    lan = lan
SYMMETRY Symmetry
INVARIANTS
    TypeOK
    Installed
    NothingLeft
