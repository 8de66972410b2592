SPECIFICATION Spec
CONSTANTS
    MinInterval = 2
    Wrap = 16
    Attempts = 2
    MaxLag = 2
    RxSlots = 3
    MaxPasses = 3
    MaxResets = 1
INVARIANTS TypeOK OneMoment PromptInStep HangNeedsSilence
PROPERTIES CacheExact RowsForward
CHECK_DEADLOCK FALSE
