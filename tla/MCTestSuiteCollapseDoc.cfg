SPECIFICATION SuiteSpec
CONSTANTS
    t1 = t1
    t2 = t2
    s1 = s1
    f1 = f1
    f2 = f2
    NoTest = NoTest
    NoSuite = NoSuite
    Tests <- MCTests
    Suites <- MCSuites
    Fixtures <- MCFixtures
    SuiteTests <- MCSuiteTests
    SuiteFixtures <- MCSuiteFixtures
    UIntMax = 1
    Repetition <- MCRepetition
    LastConstructed = t2
    CrashSignals = {}
    MaxStarts = 0
    MaxSuiteStarts = 1
PROPERTY
    RemainingTestsNotExecuted
CHECK_DEADLOCK FALSE
