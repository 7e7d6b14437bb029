------------------------------- MODULE MCTurn -------------------------------
EXTENDS ConversationTurn, TLC

CONSTANTS e1, e2, c1

OneConversation == [e \in Episodes |-> c1]
=============================================================================
