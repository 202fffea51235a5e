\* One request at a time, any one disturbance.
SPECIFICATION Spec
CONSTANTS
    HookCount = 2
    ForwardHooks <- TwoForward
    EssentialHooks <- TwoEssential
    Rules = {p1, n1, i1}
    Kind <- MCKind
    RuleHooks <- MCRuleHooks
    Networks = {netA, netB}
    RuleNetworks <- MCRuleNetworks
    NetworkHooks <- MCNetworkHooks
    Missing = Missing
    Torn = Torn
    Requests = {r1}
    Refusing = {p1}
    Flows = {f1}
    FlowHook <- MCFlowHook
    FlowRules <- MCFlowRules
    Disturbances = {"iptables", "docker", "write", "crash", "reboot", "foreign", "network"}
    MaxDisturbances = 1
    p1 = p1
    n1 = n1
    i1 = i1
    netA = netA
    netB = netB
INVARIANTS
    TypeOK
    InForce
    EssentialIcmpFirst
    RefusedFlowsEnded
PROPERTIES
    NeverRecordedAhead
