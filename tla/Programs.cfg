SPECIFICATION ProgramsSpec
CONSTANTS
    StackSize = 2
    Commands <- MCCommands
    ClearedSlots = 1
    GetCommands <- MCGetCommands
    LargestBlock = 255
    Answers <- MCAnswers
    MaxMsgs = 3
    MaxLoads = 0
    Signals <- MCSignals
    Configs <- MCConfigs
    MSGMAX = 5
    MAXFRAMES = 3
    Lengths <- MCLengths
    RtAddresses = {0, 6, 31}
    CommandSubAddresses = {1, 9, 11, 30}
    Sections = {1, 2}
    Values <- MCValues
    MaxLines = 3
    N = 2
    Rate <- MCRates
    Second = 10
    SendMax = 1
    SleepMax = 2
    Horizon = 22
INVARIANTS
    LifeInv FailedModuleNotLoaded
    SendWaitsForBus FailedSetupUndone
    MessageArrives ListsMatchFile
    SpacingKept NeverLater RateNotExceeded
PROPERTIES
    StopExits PacedTaken
    SigintEndsProcess
    DueMessageSent SigintEndsPlatform
CHECK_DEADLOCK FALSE
