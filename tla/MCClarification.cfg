CONSTANTS
    k1 = k1
    k2 = k2
    k3 = k3
    k4 = k4
    m1 = m1
    q1 = q1
    user = user
    sarah = sarah
    Nobody = Nobody
    Commits = {k1, k2, k3, k4}
    Mergers = {m1}
    Slots = 2
    MaxMerges = 2
    Names = {user, sarah}
    SelfNames = {user}
    TheUser = user
    Foldable = {user, sarah}
    Spellings = {"lower", "upper"}
    Utterances <- OneName
    Legacy = {}
    Threads = {q1}
    MaxCheckpoints = 4
SPECIFICATION ClarificationSpec
SYMMETRY Alike
CHECK_DEADLOCK FALSE
INVARIANTS
    AbsorbedAsAgreed
    AbsorbedOnce
