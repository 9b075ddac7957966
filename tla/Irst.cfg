SPECIFICATION FairSpec
CONSTANTS
    Clients = {"icu"}
    Messages <- MCMessages
    SeqModulus = 4
    Signals = {1}
INVARIANTS AcksAnswerStatus SeqNoGap
PROPERTIES StatusAnswered MessagesServed SigintEndsIrst
CHECK_DEADLOCK FALSE
