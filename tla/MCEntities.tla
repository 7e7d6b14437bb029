----------------------------- MODULE MCEntities -----------------------------
EXTENDS EntityResolution, TLC

CONSTANTS k1, k2, k3, m1, user, me, sarah, priya

CommitsAlike == Permutations(Commits)

As(name, spelling) == [name |-> name, spelling |-> spelling]

\* Two names that may be related, a name spelled in two ways, or one
\* first-person mention.
PlainUtterances ==
    {<<As(sarah, "lower"), As(priya, "lower")>>,
     <<As(sarah, "lower"), As(sarah, "upper")>>,
     <<As(user, "lower")>>}
=============================================================================
