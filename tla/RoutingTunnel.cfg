\* A route through a WireGuard interface, and a reboot.
SPECIFICATION Spec
CONSTANTS
    Requests = {r1}
    Boot = Boot
    Ids = {i1}
    Destinations = {lan, net1}
    Hops = {eth, wg0}
    TunnelHops = {wg0}
    Metrics = {1}
    Foreign <- NoForeign
    Careful = TRUE
    Disturbances = {"reboot"}
    MaxDisturbances = 1
    None = None
    eth = eth
    lan = lan
INVARIANTS
    Installed
