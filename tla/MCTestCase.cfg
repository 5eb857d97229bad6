SPECIFICATION Spec
CONSTANTS
    t1 = t1
    t2 = t2
    NoTest = NoTest
    Tests <- MCTests
    Suites <- MCSuites
    UIntMax <- MCUIntMax
    Repetition <- MCRepetition
    LastConstructed = t2
    CrashSignals = {"SIGSEGV", "SIGABRT"}
    MaxStarts = 3
INVARIANTS
    TypeOK
    VerdictExplained
    CountsBalance
    RepetitionsComplete
PROPERTIES
    ImplementsContract
    RunTerminates
\* The caller may stop calling run(), and the process may die.
CHECK_DEADLOCK FALSE
