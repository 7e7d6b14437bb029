-------------------------- MODULE ConversationTurn --------------------------
(***************************************************************************)
(* send_message: the turn of one user message, from the durable append     *)
(* through the barrier, the notices, the streamed reply and the episode,   *)
(* to the done event, interleaved with the coordinator's tasks.  A turn is *)
(* named by the episode its message becomes.  The client may disconnect    *)
(* while the generator is suspended anywhere, which ends the turn there.   *)
(***************************************************************************)
EXTENDS ExtractionCoordinator

VARIABLES
    turn,       \* where the turn of each message is
    awaited,    \* the tasks its barrier waits for
    held,       \* findings it has taken and not yet sent
    disclosed,  \* what its done event will disclose
    delivered,  \* history: findings sent, with the turn that sent them
    ended       \* history, until the reply: turns that had ended when it was sent

historyVars == <<delivered, ended>>
turnVars == <<turn, awaited, held, disclosed, historyVars>>
allVars  == <<vars, turnVars>>

Turns == {e \in Episodes : ConvOf[e] # NoConversation}

\* Suspended somewhere in the response.
Live == {"sent", "barrier", "reply", "record", "submit", "close"}
TurnStates == Live \union {"idle", "done", "gone"}

TurnTypeOK ==
    /\ TypeOK
    /\ turn \in [Turns -> TurnStates]
    /\ awaited \in [Turns -> SUBSET Episodes]
    /\ held \in [Turns -> SUBSET Episodes]
    /\ disclosed \in [Turns -> SUBSET {"slow", "unsaved"}]
    /\ delivered \subseteq Episodes \X Turns
    /\ ended \in [Turns -> SUBSET Turns]

TurnInit ==
    /\ Init
    /\ turn = [e \in Turns |-> "idle"]
    /\ awaited = [e \in Turns |-> {}]
    /\ held = [e \in Turns |-> {}]
    /\ disclosed = [e \in Turns |-> {}]
    /\ delivered = {}
    /\ ended = [e \in Turns |-> {}]

SameConversation(e) == {d \in Turns : d # e /\ ConvOf[d] = ConvOf[e]}
Go(e, to) == turn' = [turn EXCEPT ![e] = to]
Disclose(e, what) == disclosed' = [disclosed EXCEPT ![e] = @ \union {what}]

-----------------------------------------------------------------------------
\* The message is durable before anything else; when the store fails the
\* request is refused, whether or not the row landed.
SendMessage(e) ==
    /\ phase = "up"
    /\ turn[e] = "idle"
    /\ \/ /\ Go(e, "sent")
          /\ ended' = [ended EXCEPT
                            ![e] = {d \in SameConversation(e) : turn[d] = "done"}]
       \/ /\ Go(e, "gone")
          /\ UNCHANGED ended
    /\ UNCHANGED <<vars, awaited, held, disclosed, delivered>>

\* Variant: only extractions that have a slot are waited for.
OutstandingRunning(c) ==
    {d \in Episodes : ConvOf[d] = c /\ task[d] \in HoldsSlot}

\* Local tasks of the conversation that are not done.
Outstanding(c) == {d \in Episodes : ConvOf[d] = c /\ task[d] # "none"}

\* Variant: the findings are read and left in place.
LeaveNotices(c) == notices' = notices

PopNotices(c) == notices' = [notices EXCEPT ![c] = {}]

\* The barrier has returned: the same step pops the notices.
PassBarrier(e) ==
    /\ Go(e, "reply")
    /\ held' = [held EXCEPT ![e] = notices[ConvOf[e]]]
    /\ PopNotices(ConvOf[e])
    /\ UNCHANGED <<workflowVars, rowVars, processVars, open, queueVars, task,
                   historyVars>>

EnterBarrier(e) ==
    /\ turn[e] = "sent"
    /\ \/ /\ Outstanding(ConvOf[e]) = {}
          /\ PassBarrier(e)
          /\ UNCHANGED <<awaited, disclosed>>
       \/ /\ Outstanding(ConvOf[e]) # {}
          /\ awaited' = [awaited EXCEPT ![e] = Outstanding(ConvOf[e])]
          /\ Go(e, "barrier")
          /\ UNCHANGED <<vars, held, disclosed, historyVars>>

Pending(e) == {d \in awaited[e] : task[d] # "none"}

BarrierClears(e) ==
    /\ turn[e] = "barrier"
    /\ Pending(e) = {}
    /\ awaited' = [awaited EXCEPT ![e] = {}]
    /\ PassBarrier(e)
    /\ UNCHANGED disclosed

\* Variant: the barrier has no timer.
BarrierWaitsOn(e) == FALSE /\ UNCHANGED allVars

BarrierTimesOut(e) ==
    /\ turn[e] = "barrier"
    /\ Pending(e) # {}
    /\ awaited' = [awaited EXCEPT ![e] = {}]
    /\ Disclose(e, "slow")
    /\ PassBarrier(e)

PastReply(e) ==
    /\ ended' = [ended EXCEPT ![e] = {}]

\* The reply has been streamed and appended, or the provider was unavailable.
Reply(e) ==
    /\ turn[e] = "reply"
    /\ Go(e, "record")
    /\ PastReply(e)
    /\ UNCHANGED <<vars, awaited, held, disclosed, delivered>>

\* Variant: a failed write is logged and not disclosed.
LogOnly(e) == UNCHANGED disclosed

DiscloseUnsaved(e) == Disclose(e, "unsaved")

RecordTurn(e) ==
    /\ turn[e] = "record"
    /\ Record(e)
    /\ Go(e, "submit")
    /\ UNCHANGED <<awaited, held, disclosed, historyVars>>

\* record_message raises, with or without effect.
RecordTurnFails(e) ==
    /\ turn[e] = "record"
    /\ Record(e) \/ UNCHANGED vars
    /\ Go(e, "close")
    /\ DiscloseUnsaved(e)
    /\ UNCHANGED <<awaited, held, historyVars>>

\* A submit whose insert is not acknowledged raises.
SubmitTurn(e) ==
    /\ turn[e] = "submit"
    /\ Submit(e)
    /\ Go(e, "close")
    /\ IF task'[e] = "gate" THEN UNCHANGED disclosed ELSE DiscloseUnsaved(e)
    /\ UNCHANGED <<awaited, held, historyVars>>

SubmitTurnFails(e) ==
    /\ turn[e] = "submit"
    /\ Go(e, "close")
    /\ DiscloseUnsaved(e)
    /\ UNCHANGED <<vars, awaited, held, historyVars>>

\* The done event carries the findings and the disclosures.
Done(e) ==
    /\ turn[e] = "close"
    /\ Go(e, "done")
    /\ delivered' = delivered \union (held[e] \X {e})
    /\ held' = [held EXCEPT ![e] = {}]
    /\ UNCHANGED <<vars, awaited, disclosed, ended>>

\* The client disconnects, or an exception no handler names escapes.
Abort(e) ==
    /\ turn[e] \in Live
    /\ Go(e, "gone")
    /\ held' = [held EXCEPT ![e] = {}]
    /\ awaited' = [awaited EXCEPT ![e] = {}]
    /\ PastReply(e)
    /\ UNCHANGED <<vars, disclosed, delivered>>

-----------------------------------------------------------------------------
TurnStep(e) ==
    \/ EnterBarrier(e) \/ BarrierClears(e) \/ BarrierTimesOut(e) \/ Reply(e)
    \/ RecordTurn(e) \/ RecordTurnFails(e)
    \/ SubmitTurn(e) \/ SubmitTurnFails(e) \/ Done(e)

\* The server waits for its responses before it stops, and a crash ends them.
\* Nothing in the repository closes the gate while messages are served.
Around ==
    \/ /\ CoordinatorStep \/ Start \/ CancelTasks \/ Exit
       /\ UNCHANGED turnVars
    \/ /\ BeginStop
       /\ \A e \in Turns : turn[e] \notin Live
       /\ UNCHANGED turnVars
    \/ /\ Crash
       /\ turn' = [e \in Turns |-> IF turn[e] \in Live THEN "gone" ELSE turn[e]]
       /\ awaited' = [e \in Turns |-> {}]
       /\ held' = [e \in Turns |-> {}]
       /\ ended' = [e \in Turns |-> {}]
       /\ UNCHANGED <<disclosed, delivered>>

TurnNext ==
    \/ Around
    \/ \E e \in Turns : SendMessage(e) \/ TurnStep(e) \/ Abort(e)

TurnSpec == TurnInit /\ [][TurnNext]_allVars

\* The event loop runs a turn that is ready and fires the barrier's timer; the
\* provider's stream and the store are given no such promise.
TurnFairSpec ==
    /\ TurnSpec
    /\ \A e \in Turns : WF_allVars(EnterBarrier(e) \/ BarrierClears(e)
                                                   \/ BarrierTimesOut(e))

-----------------------------------------------------------------------------
\* While a reply is generated with nothing disclosed, no extraction of a turn
\* that had ended before this message was sent is still under way: what was
\* stated then has been committed or its failure recorded.
BarrierHolds ==
    \A e \in Turns :
        turn[e] = "reply" /\ disclosed[e] = {}
        => \A d \in ended[e] : task[d] = "none"

\* A finding is in one place: queued, taken by one turn, or sent by one turn.
NoticeOnce ==
    /\ \A e \in Turns : held[e] \intersect notices[ConvOf[e]] = {}
    /\ \A d, e \in Turns : d # e => held[d] \intersect held[e] = {}
    /\ \A n \in Episodes :
          /\ Cardinality({t \in Turns : <<n, t>> \in delivered}) <= 1
          /\ (\E t \in Turns : <<n, t>> \in delivered) =>
                /\ \A t \in Turns : n \notin held[t] \union notices[ConvOf[t]]

\* A step finds a stored message owed and leaves it so, or its task concludes
\* it, or it was concluded and stays as it is.
OwedOrConcluded(e) ==
    /\ e \in saved' /\ status'[e] # "unclaimed"
    /\ status[e] \notin Recoverable => status'[e] = status[e]
    /\ status'[e] \notin Recoverable \union {status[e]} =>
          task[e] \in {"succeed", "fail"} /\ status'[e] = FinalState[task[e]]

\* A turn the user saw to its end, with nothing said of memory not being saved,
\* has its message and its row in the store, and the row is owed a start until
\* its own task writes what the extraction came to: no crash, cancellation,
\* recovery or write of another turn's task concludes it.  A conclusion is
\* final, failed as much as succeeded: a failed extraction is told to nobody
\* and re-queued by no start (_RECOVERABLE has no FAILED).
OwedUntilConcluded ==
    [][\A e \in Turns :
          turn'[e] = "done" /\ "unsaved" \notin disclosed'[e]
          => OwedOrConcluded(e)]_allVars

\* A turn never waits for ever at the barrier, whatever the extractions do.
BarrierEnds == \A e \in Turns : turn[e] \in {"sent", "barrier"}
                                ~> turn[e] \notin {"sent", "barrier"}

\* Turns and the tasks they wait for fit together.
TurnInvariant == TurnTypeOK /\ BarrierHolds
=============================================================================
