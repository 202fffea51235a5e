\* A policy that cannot be rendered, beside one that was granted.
SPECIFICATION Spec
CONSTANTS
    Interfaces <- TwoInterfaces
    Families <- TwoFamilies
    Resources = {app, lan, hidden}
    Sites = {branch}
    Policies <- MCPolicies
    Client = Client
    Internet = Internet
    None = None
    Requests = {r1}
    Boot = Boot
    DockerUser = {4}
    Disturbances = {}
    MaxDisturbances = 0
    wg0 = wg0
    wg1 = wg1
    app = app
    lan = lan
    hidden = hidden
    branch = branch
INVARIANTS
    OnlySelected
