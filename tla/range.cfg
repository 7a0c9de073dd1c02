\* Two sessions on one data.csv, with every argument list and every fault.
\* The program ends after the last session, so the model may stop there.
SPECIFICATION Spec
CONSTANTS
    TxCount <- MCTxCount
    Arguments <- MCArguments
    Shuffles <- MCShuffles
    NoSample = NoSample
    Header = Header
    Threads = 2
    MaxSessions = 2
    Faults = {"open", "bytecodes", "compile", "sim", "write", "crash"}
CHECK_DEADLOCK FALSE
INVARIANTS
    TypeOK
    HeaderOfCreator
    CompiledIsPaired
    SampleSound
    Reproducible
PROPERTIES
    CompleteWhenDone
    WrittenIsKept
    ImplementsLog
    SessionEnds
