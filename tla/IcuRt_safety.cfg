SPECIFICATION Spec
CONSTANTS
    StackSize = 2
    Commands <- MCHighCommands
    ClearedSlots = 1
    GetCommands <- MCHighGet
    LargestBlock = 255
    Answers <- MCAnswers
    MaxMsgs = 3
    MaxLoads = 1
INVARIANTS TakenInOrder WakeupFindsMessage DataRegular
PROPERTIES BacklogKept
CHECK_DEADLOCK FALSE
