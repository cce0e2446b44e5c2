SPECIFICATION Spec
CONSTANTS
    Call = {c1, c2}
    NoCall = NoCall
    MaxValues = 2
SYMMETRY Calls
CHECK_DEADLOCK FALSE
INVARIANT
    PasteBlocksUntilDone
