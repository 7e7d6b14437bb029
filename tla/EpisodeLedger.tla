--------------------------- MODULE EpisodeLedger ---------------------------
(***************************************************************************)
(* What the background write path promises about one episode, with the     *)
(* tasks, slots, timeouts and restarts left out: an episode is owed an     *)
(* extraction from the moment it is claimed until that is settled, its     *)
(* memories are written at most once and only while it is owed, and what   *)
(* is settled stays settled.                                               *)
(***************************************************************************)
EXTENDS Naturals

CONSTANT Episodes

VARIABLES
    account,   \* [Episodes -> {"unclaimed", "owed", "settled"}]
    written    \* how often the memories of each episode were written

ledgerVars == <<account, written>>

LedgerTypeOK ==
    /\ account \in [Episodes -> {"unclaimed", "owed", "settled"}]
    /\ written \in [Episodes -> {0, 1}]

LedgerInit ==
    /\ account = [e \in Episodes |-> "unclaimed"]
    /\ written = [e \in Episodes |-> 0]

Claim(e) ==
    /\ account[e] = "unclaimed"
    /\ account' = [account EXCEPT ![e] = "owed"]
    /\ UNCHANGED written

Write(e) ==
    /\ account[e] = "owed"
    /\ written[e] = 0
    /\ written' = [written EXCEPT ![e] = 1]
    /\ UNCHANGED account

\* The loop may close on several writes of a final state at once.
Settle(E) ==
    /\ \A e \in E : account[e] = "owed"
    /\ account' = [e \in Episodes |-> IF e \in E THEN "settled" ELSE account[e]]
    /\ UNCHANGED written

LedgerNext ==
    \/ \E e \in Episodes : Claim(e) \/ Write(e)
    \/ \E E \in SUBSET Episodes : Settle(E)

LedgerSpec == LedgerInit /\ [][LedgerNext]_ledgerVars
=============================================================================
