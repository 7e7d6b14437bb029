CONSTANTS
    e1 = e1
    e2 = e2
    c1 = c1
    NoConversation = NoConversation
    Episodes = {e1, e2}
    Anchored = {e1, e2}
    Conversations = {c1}
    ConvOf <- OneDocument
    Findings = {"contradiction"}
    CandidateLimit = 2
    MaxConcurrent = 1
    RecoverLimit = 1
    MaxRestarts = 1
SPECIFICATION FairSpec
CHECK_DEADLOCK FALSE
INVARIANTS
    NoUncomparedPair
PROPERTIES
    EveryTaskFinishes
    StopEnds
