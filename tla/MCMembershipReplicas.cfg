SPECIFICATION Spec
CONSTANTS
    r1 = r1
    r2 = r2
    r3 = r3
    p1 = p1
    p2 = p2
    agent = agent
    manager = manager
    None = None
    Requests <- ThreeRequests
    Replicas <- TwoReplicas
    Roles <- TwoRoles
CHECK_DEADLOCK FALSE
INVARIANT AddsSerialized
