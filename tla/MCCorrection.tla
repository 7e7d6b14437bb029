---------------------------- MODULE MCCorrection ----------------------------
EXTENDS CorrectionWorkflow, TLC

CONSTANTS w1, w2, s1, t1, t2

Alike == Permutations(Writers) \union Permutations(Threads)

OnePhrase == {[from |-> 0, undated |-> FALSE]}
=============================================================================
