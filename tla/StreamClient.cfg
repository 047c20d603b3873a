SPECIFICATION Spec
CONSTANTS
    q1 = q1
    q2 = q2
    k1 = k1
    k2 = k2
    Calls = {q1, q2}
    Chats = {k1, k2}
    ChatOf <- MCChatOf
    NewChats = {k2}
    MaxTokens = 1
    Chunks = {1, 40}
    None = None
    Newline <- MCNewline
INVARIANTS
    EventsSurviveTheSplit
    CacheTellsTheTruth
    LiveTurnIsItsOwn
\* All questions asked, answered or given up.
CHECK_DEADLOCK FALSE
