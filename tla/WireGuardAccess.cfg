\* One family, and any one disturbance, which may be that a request begins while
\* the startup or another operation is in progress.
SPECIFICATION Spec
CONSTANTS
    Interfaces <- TwoInterfaces
    Families <- OneFamily
    Resources = {app, lan, hidden}
    Sites = {branch}
    Policies <- GrantedPolicies
    Client = Client
    Internet = Internet
    None = None
    Requests = {r1}
    Boot = Boot
    DockerUser = {6}
    Disturbances = {"overlap", "command", "list", "write", "crash", "reboot", "docker", "foreign"}
    MaxDisturbances = 1
    wg0 = wg0
    wg1 = wg1
    app = app
    lan = lan
    hidden = hidden
    branch = branch
INVARIANTS
    TypeOK
    PolicyEnforced
    DockerUserFirst
