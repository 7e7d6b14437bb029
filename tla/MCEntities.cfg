CONSTANTS
    k1 = k1
    k2 = k2
    k3 = k3
    m1 = m1
    user = user
    me = me
    sarah = sarah
    priya = priya
    Nobody = Nobody
    Commits = {k1, k2, k3}
    Mergers = {m1}
    Slots = 2
    MaxMerges = 2
    Names = {user, me, sarah, priya}
    SelfNames = {user, me}
    TheUser = user
    Foldable = {user, me, sarah, priya}
    Spellings = {"lower", "upper"}
    Utterances <- PlainUtterances
    Legacy = {me}
SPECIFICATION Spec
SYMMETRY CommitsAlike
CHECK_DEADLOCK FALSE
INVARIANTS
    EntityInvariant
    NamesKept
    OnlyRacesDuplicate
PROPERTIES
    LinksFollowMerges
