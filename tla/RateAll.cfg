SPECIFICATION Spec
CONSTANTS
    t1 = t1
    t2 = t2
    q1 = q1
    q2 = q2
    q3 = q3
    Tenants <- TwoTenants
    Requests <- ThreeReqs
    Rpm = 2
    MaxCount = 5
    MaxFails = 2
INVARIANT WindowLimit
INVARIANT WindowNotExtended
