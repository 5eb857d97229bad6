SPECIFICATION Spec
CONSTANTS
    t1 = t1
    t2 = t2
    NoTest = NoTest
    Tests <- MCTests
    Suites <- MCSuites
    UIntMax <- MCUIntMax
    Repetition <- MCRepetition
    LastConstructed = t2
    CrashSignals = {"SIGSEGV", "SIGABRT"}
    MaxStarts = 2
INVARIANT
    TotalsAddUp
CHECK_DEADLOCK FALSE
