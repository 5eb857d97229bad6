SPECIFICATION UnitsSpec
CONSTANTS
    t1 = t1
    t2 = t2
    s1 = s1
    s2 = s2
    o1 = o1
    o2 = o2
    o3 = o3
    o4 = o4
    Runner = Runner
    Tests <- MCTests
    Suites <- MCSuites
    Objects <- MCObjects
    LastConstructed = t2
    Kinds = {"report", "failure", "error"}
    MaxEvents = 8
    MaxArgs = 3
    MaxText = 7
INVARIANT TrueConditionFails
CHECK_DEADLOCK FALSE
