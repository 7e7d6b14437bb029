CONSTANTS
    w1 = w1
    s1 = s1
    r1 = r1
    Writers = {w1}
    Readers = {r1}
    Sources = {s1}
    Phrases <- OnePhrase
    MaxFacts = 3
    MaxNew = 3
    MaxTime = 2
    Asked <- TwoAsked
    StateLimit = 2
    BeliefLimit = 3
    Years = {2023, 2024}
    Zones <- ThreeZones
    Quantities = {0, 1, 2, 3, 5, 11}
SPECIFICATION HistorySpec
CHECK_DEADLOCK FALSE
INVARIANTS
    HistoryInvariant
    PhrasesDenotePeriods
PROPERTIES
    PastBeliefsStand
