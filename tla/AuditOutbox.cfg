SPECIFICATION FairSpec
CONSTANTS
    Traces = {tr1, tr2}
    BatchSize = 2
    MaxEvents = 4
    MaxCrashes = 2
    MaxFaults = 2
    MaxReplacements = 1
    Corrupt = Corrupt
INVARIANTS TypeOK AckedBeforeCursor TraceInOrder ChainVerifies
PROPERTIES EvidenceArrives ImplementsOutbox
CHECK_DEADLOCK FALSE
