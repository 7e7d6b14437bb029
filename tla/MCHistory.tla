----------------------------- MODULE MCHistory -----------------------------
EXTENDS HistoricalAnalysis

CONSTANTS w1, s1, r1

\* A fact without a phrase.
OnePhrase == {[from |-> 0, undated |-> FALSE]}

\* A period named the wrong way round, and one that lasts until now.
TwoAsked == {<<2, 1>>, <<2, 0>>}

\* A zone without a change of offset, one that puts the clock forward in the
\* spring of 2024 and one, far in the west, that puts it back in the autumn.
ThreeZones == {[change |-> 0, before |-> 5, after |-> 5],
               [change |-> DayNumber(Date(2024, 3, 31)), before |-> 1, after |-> 2],
               [change |-> DayNumber(Date(2024, 11, 3)), before |-> -7, after |-> -8]}
=============================================================================
