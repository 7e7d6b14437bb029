CONSTANTS
    e1 = e1
    e2 = e2
    c1 = c1
    NoConversation = NoConversation
    Episodes = {e1, e2}
    Anchored = {e1, e2}
    Conversations = {c1}
    ConvOf <- OneConversation
    Findings = {}
    CandidateLimit = 2
    MaxConcurrent = 1
    RecoverLimit = 2
    MaxRestarts = 0
SPECIFICATION TurnFairSpec
CHECK_DEADLOCK FALSE
PROPERTIES
    BarrierEnds
