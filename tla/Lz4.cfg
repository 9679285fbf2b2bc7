SPECIFICATION Spec
CONSTANTS
    Window = 24
    Slots <- MCSlots
    Hash <- MCHash
    HCHash <- MCHCHash
    ClTable <- MCClTable
    OptNum = 24
    HashUnit = 8
    SkipTrigger = 6
    MaxOffset = 60
    Origin = 30
    Junk = 99
    Programs <- MCPrograms
    EncAt = 40
    DecAt = 40
    SafeAt = 1
    TmpAt = 40
    CDictAt = 1
    TmpOutAt = 40
    Jobs <- MCJobs
    SrcAt = 220
    DictAt = 1
    DstAt = 220
INVARIANTS RoundTrip MatchesAreHistory WritesFit BoundsSuffice FramesArrive
CHECK_DEADLOCK FALSE
