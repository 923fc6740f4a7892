\* Three messages of two conversations at every kind of polled endpoint, with
\* two faults: errors, delivery timeouts, orderly stops and crashes.
SPECIFICATION FairSpec
CONSTANTS
    Messages = {1, 2, 3}
    Conversation <- TwoConversations
    TextLength <- LongTexts
    Endpoints <- AllEndpoints
    Kinds <- OneNotForTheAgent
    TurnResults = {"reply", "silent", "unroutable"}
    MaxFaults = 2
INVARIANTS TypeOK NoMessageLost NoNeedlessRepeat
PROPERTIES AnsweredOrParked
