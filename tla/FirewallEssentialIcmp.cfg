\* Two overlapping applies of an input rule.
SPECIFICATION Spec
CONSTANTS
    HookCount = 1
    ForwardHooks <- NoHook
    EssentialHooks <- OneHook
    Rules = {i1}
    Kind <- MCKind
    RuleHooks <- MCRuleHooks
    Networks = {}
    RuleNetworks <- MCRuleNetworks
    NetworkHooks <- MCNetworkHooks
    Missing = Missing
    Torn = Torn
    Requests = {r1, r2}
    Refusing = {}
    Flows = {}
    FlowHook <- MCFlowHook
    FlowRules <- MCFlowRules
    Disturbances = {}
    MaxDisturbances = 0
    p1 = p1
    n1 = n1
    i1 = i1
    netA = netA
    netB = netB
INVARIANTS
    EssentialIcmpFirst
