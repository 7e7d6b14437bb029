CONSTANTS
    e1 = e1
    e2 = e2
    c1 = c1
    NoConversation = NoConversation
    Episodes = {e1, e2}
    Anchored = {e1, e2}
    Conversations = {c1}
    ConvOf <- OneConversation
    Findings = {"unclear", "change"}
    CandidateLimit = 2
    MaxConcurrent = 2
    RecoverLimit = 2
    MaxRestarts = 1
SPECIFICATION Spec
CHECK_DEADLOCK FALSE
INVARIANTS
    CoordinatorInvariant
    SlotsAccounted
    WatermarkHonest
PROPERTIES
    SuccessMeansCommitted
    RecoveryComplete
    LedgerKept
