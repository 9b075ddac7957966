SPECIFICATION FairSpec
CONSTANTS
    StackSize = 2
    Commands <- MCCommands
    ClearedSlots = 1
    GetCommands <- MCGetCommands
    LargestBlock = 255
    Answers <- MCAnswers
    MaxMsgs = 3
    MaxLoads = 0
PROPERTIES EveryMessageTaken
CHECK_DEADLOCK FALSE
