SPECIFICATION WebSpec
CONSTANTS
    t1 = t1
    s1 = s1
    Nobody = Nobody
    Runner = Runner
    Tests <- MCTests
    Suites <- MCSuites
    SuiteSize <- MCSuiteSize
    LastConstructed = t1
    Kinds = {"failure"}
    MaxEvents = 5
    MaxRequests = 1
    SignalsBefore = 2
    MaxSignals = 4
INVARIANTS
    WebTypeOK
    AnswersAreWhole
    StatusTellsVerdicts
PROPERTIES
    StopsUnlessSelfLocked
    PageIsAnswered
\* The program ends, and may lock itself.
CHECK_DEADLOCK FALSE
