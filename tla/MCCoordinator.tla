--------------------------- MODULE MCCoordinator ---------------------------
EXTENDS ExtractionCoordinator, TLC

CONSTANTS e1, e2, c1

OneConversation == [e \in Episodes |-> c1]
OneDocument     == [e \in Episodes |-> IF e = e1 THEN NoConversation ELSE c1]
=============================================================================
