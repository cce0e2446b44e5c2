SPECIFICATION FairSpec
CONSTANTS
    Call = {c1, c2}
    NoCall = NoCall
    MaxValues = 2
CHECK_DEADLOCK FALSE
INVARIANTS
    TypeOK
    TrueMeansStored
    PasteAnswersOutcome
    FrameOutlivesWrites
    StopFrameOutlivesCallback
    RunningIsAccurate
PROPERTIES
    ImplementsPutService
    BlockedCallsReturn
    CallbacksCalled
