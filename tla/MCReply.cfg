CONSTANTS
    f1 = f1
    f2 = f2
    f3 = f3
    Facts = {f1, f2, f3}
    Salience <- ThreeSalient
    Size <- OneLong
    About = {f1, f3}
    Dated = {f2}
    MaxHits = 1
    Cutoff = 2
    MaxItems = 2
    MaxChars = 2
    ActiveLimit = 2
    MaxChanges = 1
    Uncertain = {f1}
    Replacing = {f2}
    Stated = {f1, f2, f3}
    MaxExcerpts = 1
    m1 = m1
    m2 = m2
    m3 = m3
    Messages = {m1, m2, m3}
    HistoryLimit = 2
SPECIFICATION ContextSpec
SYMMETRY MessagesAlike
CHECK_DEADLOCK FALSE
VIEW ReplyView
INVARIANTS
    ContextInvariant
    LossIsDisclosed
    ReplyRestsOnRecord
