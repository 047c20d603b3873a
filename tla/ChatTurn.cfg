SPECIFICATION FairSpec
CONSTANTS
    user = user
    chat1 = chat1
    stream1 = stream1
    plain = plain
    Users <- MCUsers
    Chats <- MCChats
    Calls = {stream1, plain}
    Streamed = {stream1}
    UserOf <- MCUserOf
    ChatOf <- MCChatOf
    DayOf <- MCDayOf
    MinuteLimit = 2
    DayLimit = 1
    GlobalLimit = 2
    LastMinute = 1
    Providers = 2
    MaxTokens = 2
INVARIANTS
    AnswersFollowQuestions
    SavedAnswersArePaid
    NeverSpliced
    StreamTellsTheTruth
PROPERTY EveryTurnEnds
\* Every turn is over and the chat deleted.
CHECK_DEADLOCK FALSE
