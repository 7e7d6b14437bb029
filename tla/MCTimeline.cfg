CONSTANTS
    w1 = w1
    w2 = w2
    s1 = s1
    Writers = {w1, w2}
    Sources = {s1}
    Phrases <- ThreePhrases
    MaxFacts = 3
    MaxNew = 1
    MaxTime = 2
SPECIFICATION Spec
SYMMETRY WritersAlike
CHECK_DEADLOCK FALSE
INVARIANTS
    TypeOK
    BeliefsAgree
    SupersessionMeets
PROPERTIES
    PastIsKept
    AxesSeparate
