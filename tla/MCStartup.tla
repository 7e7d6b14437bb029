------------------------------ MODULE MCStartup ------------------------------
EXTENDS Startup

CONSTANTS p1, p2

Script(creates, drops, adds) == [creates |-> creates, drops |-> drops, adds |-> adds]

\* 0001 has the checkpoints' state, 0002 tables of its own, and 0003 stands for
\* 0004: a table, the guard, the state dropped and columns added.
First  == Script({"conversation", "state"}, {}, {})
Second == Script({"fact"}, {}, {})
Third  == Script({"extraction"}, {"state"}, {"payload"})
Last   == {"conversation", "fact", "extraction", "payload"}

\* The last release with its first script edited, in the text of a table, or
\* its second, by a column that is added.
FirstEdited  == [First EXCEPT !.creates = @ \union {"title"}]
SecondEdited == [Second EXCEPT !.adds = {"corrected_from"}]

R(files, needs) == [files |-> files, needs |-> needs]
FourReleases ==
    {R(<<First>>, {"conversation", "state"}),
     R(<<First, Second, Third>>, Last),
     R(<<FirstEdited, Second, Third>>, Last \union {"title"}),
     R(<<First, SecondEdited, Third>>, Last \union {"corrected_from"})}
AllColumns == Last \union {"state", "title", "corrected_from"}
=============================================================================
