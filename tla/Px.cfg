SPECIFICATION PxSpec
CONSTANTS
    Blocks <- MCBlocks
    Cards <- MCCards
    Commands <- MCCommands
    Gaps = {1}
    MsgMax = 4
    MaxFrames = 2
    StackLen = 4
    MaxCalls = 4
    Stack <- MCStack
    FrameTable <- MCFrameTable
    Counts <- MCCounts
    MaxHost = 4
    MaxFetch = 5
    Modules <- MCModules
    Modes <- MCModes
    Given <- MCGiven
    MaxSettings = 2
    UserModes = {"RT", "MON"}
    ModeModules <- MCModeModules
    MaxModeCalls = 5
    MonBlocks = 3
    OldBlocks = 2
    BankEnds = {1, 2}
    CacheBlocks = 2
    Readers <- MCReaders
    MaxMonMsgs = 4
    MaxMonRuns = 2
    Offsets <- MCOffsets
    TransferLens = {0, 2, 4, 6, 8, 10, 11, 12, 16, 20, 24, 30, 32}
    LongChunk = 16
    NumCards = 2
    PciDevices = {"b"}
    ExCards = {"x"}
    Pcmcia = {"p"}
    UNets = {"u"}
    ModuleNums <- MCModuleNums
    MaxHandleCalls = 3
INVARIANTS
    StaysInside FramesNameMessages
    JumpWhole RunsWholeFrames
    BitsHold TimesHold
    ModeAgrees
    NeverMixed 
    TransferExact
    HandlesUsable
PROPERTY
    DevicesUsed
CHECK_DEADLOCK FALSE
