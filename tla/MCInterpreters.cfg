SPECIFICATION InterpretersSpec
CONSTANTS
    p1 = p1
    p2 = p2
    p3 = p3
    nobody = nobody
    Impls <- MCImpls
    Nobody <- nobody
SYMMETRY MCSymmetry
INVARIANTS
    InterpreterLives
    ChecksReachTheirTest
    TearDownIsCalled
    RunsInLivingInterpreter
\* The session ends when every loader is deleted, or in a crash.
CHECK_DEADLOCK FALSE
