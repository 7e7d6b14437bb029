-------------------------- MODULE MCClarification --------------------------
EXTENDS ClarificationWorkflow, TLC

CONSTANTS k1, k2, k3, k4, m1, user, sarah, q1

Alike == Permutations(Commits)

\* Messages that mention one name.
OneName == {<<[name |-> sarah, spelling |-> "lower"]>>}
=============================================================================
