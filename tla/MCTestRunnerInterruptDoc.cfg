SPECIFICATION ProgSpec
CONSTANTS
    t1 = t1
    t2 = t2
    s1 = s1
    f1 = f1
    NoTest = NoTest
    NoSuite = NoSuite
    Tests <- MCTests
    Suites <- MCSuites
    Fixtures <- MCFixtures
    SuiteTests <- MCSuiteTests
    SuiteFixtures <- MCSuiteFixtures
    Queue <- MCQueue
    UIntMax = 1
    Repetition <- MCRepetition
    LastConstructed = t2
    CrashSignals = {}
    MaxStarts = 0
    MaxSuiteStarts = 0
    MaxSignals = 1
INVARIANT
    InterruptOnlyInterrupts
CHECK_DEADLOCK FALSE
