----------------------------- MODULE MCTimeline -----------------------------
EXTENDS BeliefTimeline, TLC

CONSTANTS w1, w2, s1

WritersAlike == Permutations(Writers)

\* No phrase, a start only, and a phrase nobody could resolve.
ThreePhrases == {[from |-> 0, undated |-> FALSE],
                 [from |-> 1, undated |-> FALSE],
                 [from |-> 0, undated |-> TRUE]}
=============================================================================
