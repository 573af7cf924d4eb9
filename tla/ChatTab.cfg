\* One tab: of the session two requests and a refresh in flight and two logins, of the
\* chat page two messages and two requests in flight.
SPECIFICATION TabSpec
CONSTANTS
    Tabs = {a}
    NoTab = none
    Slots = {s1, s2}
    MaxTokens = 2
    Faults = TRUE
    Texts = {a}
    ChatHandlers = {h1}
    MaxMessages = 2
    MaxChatRequests = 2
    HistorySize = 1
    SocketLoss = TRUE
    ChatOverlap = FALSE
    Hasty = FALSE
INVARIANTS
    NothingTwice
    PendingSettles
PROPERTIES
    SendingEnds
    CallEnds
