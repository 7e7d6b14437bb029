CONSTANTS
    w1 = w1
    w2 = w2
    s1 = s1
    t1 = t1
    t2 = t2
    Writers = {w1, w2}
    Threads = {t1, t2}
    Sources = {s1}
    Phrases <- OnePhrase
    MaxFacts = 3
    MaxTime = 1
    MaxCheckpoints = 4
    MaxNew = 1
SPECIFICATION CorrectionSpec
SYMMETRY Alike
CHECK_DEADLOCK FALSE
INVARIANTS
    CorrectionInvariant
    AppliedOnce
    OneReplacement
