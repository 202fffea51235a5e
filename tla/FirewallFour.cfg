\* The four hooks of the code, one request at a time.
SPECIFICATION FairSpec
CONSTANTS
    HookCount = 4
    ForwardHooks <- FourForward
    EssentialHooks <- FourEssential
    Rules = {p1, n1}
    Kind <- MCKind
    RuleHooks <- MCRuleHooks
    Networks = {netA, netB}
    RuleNetworks <- MCRuleNetworks
    NetworkHooks <- MCNetworkHooks
    Missing = Missing
    Torn = Torn
    Requests = {r1}
    Refusing = {p1}
    Flows = {}
    FlowHook <- MCFlowHook
    FlowRules <- MCFlowRules
    Disturbances = {"iptables", "conntrack", "network"}
    MaxDisturbances = 1
    p1 = p1
    n1 = n1
    i1 = i1
    netA = netA
    netB = netB
INVARIANTS
    InForce
PROPERTIES
    RequestsAnswered
    ImplementsWorkflow
