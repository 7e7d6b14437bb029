----------------------- MODULE ExtractionCoordinator -----------------------
(***************************************************************************)
(* ExtractionCoordinator: the durable extraction_status rows, the asyncio  *)
(* tasks of one process, the gate (an asyncio.Event), the slots (an        *)
(* asyncio.Semaphore), the notices held for the next turn, and the life of *)
(* the process around them: start with recovery, stop with drain, the      *)
(* cancellation at loop close, and a crash at any point.                   *)
(*                                                                         *)
(* A task is where its coroutine _run is suspended.  Tasks reach the gate  *)
(* and then the semaphore in the order they were created, and both wake    *)
(* their waiters in that order, so each is a FIFO sequence.                *)
(***************************************************************************)
EXTENDS ExtractionWorkflow, Sequences

CONSTANTS
    Conversations,
    NoConversation,  \* an episode of an imported document
    ConvOf,          \* the conversation of each episode
    MaxConcurrent,   \* slots
    RecoverLimit,    \* rows one start re-queues
    MaxRestarts      \* bound on the starts explored

ASSUME CoordinatorAssumption ==
    /\ ConvOf \in [Episodes -> Conversations \union {NoConversation}]
    /\ NoConversation \notin Conversations
    /\ MaxConcurrent \in Nat \ {0}
    /\ RecoverLimit \in Nat
    /\ MaxRestarts \in Nat

VARIABLES
    \* durable: the extraction_status table
    status,        \* state column; "unclaimed" when there is no row
    submittedAt,   \* rank of submitted_at, 0 when there is no row
    \* volatile
    phase,         \* of the process
    open,          \* the gate is open
    gateQ,         \* tasks created or waiting at the gate
    slotQ,         \* tasks waiting for a slot
    free,          \* value of the semaphore
    task,          \* where each local task is suspended
    notices,       \* findings held for each conversation's next turn
    restarts

rowVars     == <<status, submittedAt>>
processVars == <<phase, restarts>>
queueVars   == <<gateQ, slotQ, free>>
coordinatorVars == <<rowVars, processVars, open, queueVars, task, notices>>
vars == <<workflowVars, coordinatorVars>>

\* Variant: recovery takes the rows in_flight_for_conversation takes.
InFlight == {"pending", "running"}

Recoverable == {"pending", "running", "abandoned"}
States      == {"unclaimed", "pending", "running", "abandoned",
                "succeeded", "failed"}
HoldsSlot   == {"mark", "run", "fail", "abandon"}
TaskStates  == HoldsSlot \union {"none", "gate", "slot", "succeed"}
Phases      == {"down", "up", "draining", "closing"}

TypeOK ==
    /\ WorkflowTypeOK
    /\ status \in [Episodes -> States]
    /\ submittedAt \in [Episodes -> Nat]
    /\ phase \in Phases
    /\ open \in BOOLEAN
    /\ gateQ \in Seq(Episodes)
    /\ slotQ \in Seq(Episodes)
    /\ free \in Nat
    /\ task \in [Episodes -> TaskStates]
    /\ notices \in [Conversations -> SUBSET Episodes]
    /\ restarts \in Nat

Claimed == {e \in Episodes : status[e] # "unclaimed"}

NoNotices == [c \in Conversations |-> {}]
NoTasks   == [e \in Episodes |-> "none"]

Init ==
    /\ WorkflowInit
    /\ status = [e \in Episodes |-> "unclaimed"]
    /\ submittedAt = [e \in Episodes |-> 0]
    /\ phase = "up"
    /\ restarts = 0
    /\ open = TRUE
    /\ gateQ = <<>>
    /\ slotQ = <<>>
    /\ free = MaxConcurrent
    /\ task = NoTasks
    /\ notices = NoNotices

Move(e, to) == task' = [task EXCEPT ![e] = to]

-----------------------------------------------------------------------------
\* submit and recover_pending

Record(e) ==
    /\ phase = "up"
    /\ RecordMessage(e)
    /\ UNCHANGED coordinatorVars

\* The row is inserted before the task exists; an insert whose acknowledgement
\* is lost raises, and leaves a row without a task.  A second submit of the
\* same episode meets the row and changes nothing.
Submit(e) ==
    /\ phase = "up"
    /\ e \in saved
    /\ status[e] = "unclaimed"
    /\ status' = [status EXCEPT ![e] = "pending"]
    /\ submittedAt' = [submittedAt EXCEPT ![e] = Cardinality(Claimed) + 1]
    /\ \/ /\ Move(e, "gate")
          /\ gateQ' = Append(gateQ, e)
       \/ UNCHANGED <<task, gateQ>>
    /\ UNCHANGED <<workflowVars, processVars, open, slotQ, free, notices>>

\* Rows recover_pending re-queues: unfinished ones, oldest first, at most limit.
Owed == {e \in Episodes : status[e] \in Recoverable}

RecoveryBatches ==
    LET n == IF Cardinality(Owed) < RecoverLimit
             THEN Cardinality(Owed) ELSE RecoverLimit
        Older(d, e) == submittedAt[d] < submittedAt[e]
    IN  {q \in [1..n -> Owed] :
            /\ \A i, j \in 1..n : i < j => Older(q[i], q[j])
            /\ \A e \in Owed : (\E i \in 1..n : q[i] = e)
                               \/ (\A i \in 1..n : Older(q[i], e))}

\* start(): re-ingest what has no watermark, then re-queue.  A watermark that
\* cannot be written, or a status query that fails, fails the start.
Start ==
    /\ phase = "down"
    /\ restarts < MaxRestarts
    /\ restarts' = restarts + 1
    /\ \E added \in SUBSET (saved \ ingested) : \E marked \in SUBSET added :
          /\ inGraph' = inGraph \union added
          /\ ingested' = ingested \union marked
          /\ \/ /\ added = marked
                /\ phase' = "up"
                /\ \E q \in RecoveryBatches :
                      /\ gateQ' = q
                      /\ task' = [e \in Episodes |->
                                    IF \E i \in DOMAIN q : q[i] = e
                                    THEN "gate" ELSE "none"]
             \/ UNCHANGED <<phase, gateQ, task>>
    /\ UNCHANGED <<runVars, memoryVars, saved, rowVars, open, slotQ, free, notices>>

-----------------------------------------------------------------------------
\* _run, up to the runner

PassGate ==
    /\ open
    /\ gateQ # <<>>
    /\ Move(Head(gateQ), "slot")
    /\ gateQ' = Tail(gateQ)
    /\ slotQ' = Append(slotQ, Head(gateQ))
    /\ UNCHANGED <<workflowVars, rowVars, processVars, open, free, notices>>

\* Variant: the semaphore lets everyone in.
AcquireUnbounded ==
    /\ slotQ # <<>>
    /\ Move(Head(slotQ), "mark")
    /\ slotQ' = Tail(slotQ)
    /\ free' = free - 1
    /\ UNCHANGED <<workflowVars, rowVars, processVars, open, gateQ, notices>>

Acquire ==
    /\ slotQ # <<>>
    /\ free > 0
    /\ Move(Head(slotQ), "mark")
    /\ slotQ' = Tail(slotQ)
    /\ free' = free - 1
    /\ UNCHANGED <<workflowVars, rowVars, processVars, open, gateQ, notices>>

MarkRunning(e) ==
    /\ task[e] = "mark"
    /\ status' = [status EXCEPT ![e] = "running"]
    /\ Move(e, "run")
    /\ BeginRun(e)
    /\ UNCHANGED <<submittedAt, processVars, open, queueVars, notices>>

\* mark_running stands outside the try: its exception leaves _run, the
\* semaphore is released on the way, and no state is recorded.
MarkRunningFails(e) ==
    /\ task[e] = "mark"
    /\ status' \in {status, [status EXCEPT ![e] = "running"]}
    /\ Move(e, "none")
    /\ free' = free + 1
    /\ UNCHANGED <<workflowVars, submittedAt, processVars, open,
                   gateQ, slotQ, notices>>

-----------------------------------------------------------------------------
\* _run, around and after the runner

RunnerStep(e) ==
    /\ task[e] = "run"
    /\ RunStep(e)
    /\ UNCHANGED coordinatorVars

\* The slot is released before the row is marked succeeded.
RunnerReturns(e) ==
    /\ task[e] = "run"
    /\ node[e] = "returned"
    /\ Move(e, "succeed")
    /\ free' = free + 1
    /\ EndRun(e)
    /\ UNCHANGED <<rowVars, processVars, open, gateQ, slotQ, notices>>

\* A TimeoutError raised inside the runner (a connection attempt, say) is taken
\* for the expiry of wait_for.
RunnerRaises(e) ==
    /\ task[e] = "run"
    /\ node[e] = "raised"
    /\ \E to \in {"fail", "abandon"} : Move(e, to)
    /\ EndRun(e)
    /\ UNCHANGED <<rowVars, processVars, open, queueVars, notices>>

\* Variant: only the extractor's model call is timed.
RunnerTimesOutInExtract(e) ==
    /\ task[e] = "run"
    /\ node[e] = "extract"
    /\ Move(e, "abandon")
    /\ EndRun(e)
    /\ UNCHANGED <<rowVars, processVars, open, queueVars, notices>>

\* wait_for expires, wherever the runner is.
RunnerTimesOut(e) ==
    /\ task[e] = "run"
    /\ node[e] \in WorkingNodes
    /\ Move(e, "abandon")
    /\ EndRun(e)
    /\ UNCHANGED <<rowVars, processVars, open, queueVars, notices>>

FinalState == [succeed |-> "succeeded", fail |-> "failed", abandon |-> "abandoned"]

\* Variant: the semaphore is released once more after a success.
ReleaseAlways(e) == free' = free + 1

ReleaseIfHeld(e) == free' = IF task[e] \in HoldsSlot THEN free + 1 ELSE free

\* mark_finished, then the notices of a success.
Finish(e) ==
    /\ task[e] \in DOMAIN FinalState
    /\ status' = [status EXCEPT ![e] = FinalState[task[e]]]
    /\ notices' = [c \in Conversations |->
                      IF task[e] = "succeed" /\ c = ConvOf[e] /\ Reported(e) # {}
                      THEN notices[c] \union {e} ELSE notices[c]]
    /\ Move(e, "none")
    /\ ReleaseIfHeld(e)
    /\ DropRuns({e})
    /\ UNCHANGED <<memoryVars, episodeVars, submittedAt, processVars, open,
                   gateQ, slotQ>>

\* mark_finished raises, with or without effect: the task dies, the slot is
\* released, no notice is queued.
FinishFails(e) ==
    /\ task[e] \in DOMAIN FinalState
    /\ status' \in {status, [status EXCEPT ![e] = FinalState[task[e]]]}
    /\ Move(e, "none")
    /\ ReleaseIfHeld(e)
    /\ DropRuns({e})
    /\ UNCHANGED <<memoryVars, episodeVars, submittedAt, processVars, open,
                   gateQ, slotQ, notices>>

-----------------------------------------------------------------------------
\* quiesce, resume, take_notices

Quiesce ==
    /\ phase = "up"
    /\ open
    /\ open' = FALSE
    /\ UNCHANGED <<workflowVars, rowVars, processVars, queueVars, task, notices>>

\* Event.set wakes every waiter; a woken waiter does not look at the event again.
Resume ==
    /\ phase = "up"
    /\ ~open
    /\ open' = TRUE
    /\ slotQ' = slotQ \o gateQ
    /\ gateQ' = <<>>
    /\ task' = [e \in Episodes |-> IF task[e] = "gate" THEN "slot" ELSE task[e]]
    /\ UNCHANGED <<workflowVars, rowVars, processVars, free, notices>>

TakeNotices(c) ==
    /\ phase = "up"
    /\ notices[c] # {}
    /\ notices' = [notices EXCEPT ![c] = {}]
    /\ UNCHANGED <<workflowVars, rowVars, processVars, open, queueVars, task>>

-----------------------------------------------------------------------------
\* stop and crash

\* stop(): quiesce, then drain.
BeginStop ==
    /\ phase = "up"
    /\ phase' = "draining"
    /\ open' = FALSE
    /\ UNCHANGED <<workflowVars, rowVars, restarts, queueVars, task, notices>>

\* Variant: drain waits for the tasks it found without a limit.
DrainReturnsWhenIdle == task = NoTasks

\* drain waits at most its timeout: it may return with tasks in any state.
DrainReturns == TRUE

\* drain has returned and the loop closes: each task is cancelled once where
\* it is suspended.  A write being awaited may have taken effect.  Only a
\* running extraction survives, to record ABANDONED.
CancelTasks ==
    /\ phase = "draining"
    /\ DrainReturns
    /\ phase' = "closing"
    /\ LET running == {e \in Episodes : task[e] = "run"}
           writing == {e \in Episodes :
                          task[e] \in {"mark"} \union DOMAIN FinalState}
           Written(e) == IF task[e] = "mark" THEN "running"
                         ELSE FinalState[task[e]]
       IN  /\ \E landed \in SUBSET writing :
                 status' = [e \in Episodes |->
                               IF e \in landed THEN Written(e) ELSE status[e]]
           /\ task' = [e \in Episodes |->
                          IF e \in running THEN "abandon" ELSE "none"]
           /\ free' = MaxConcurrent - Cardinality(running)
           /\ DropRuns(Episodes)
    /\ gateQ' = <<>>
    /\ slotQ' = <<>>
    /\ UNCHANGED <<memoryVars, episodeVars, submittedAt, restarts, open, notices>>

\* The process is gone; what is volatile is as a new process finds it.
ProcessGone ==
    /\ phase' = "down"
    /\ DropRuns(Episodes)
    /\ open' = TRUE
    /\ gateQ' = <<>>
    /\ slotQ' = <<>>
    /\ free' = MaxConcurrent
    /\ task' = NoTasks
    /\ notices' = NoNotices
    /\ UNCHANGED <<memoryVars, episodeVars, rowVars, restarts>>

Exit ==
    /\ phase = "closing"
    /\ \A e \in Episodes : task[e] = "none"
    /\ ProcessGone

Crash ==
    /\ phase # "down"
    /\ ProcessGone

-----------------------------------------------------------------------------
TaskStep(e) ==
    \/ MarkRunning(e) \/ MarkRunningFails(e)
    \/ RunnerStep(e) \/ RunnerReturns(e) \/ RunnerRaises(e) \/ RunnerTimesOut(e)
    \/ Finish(e) \/ FinishFails(e)

\* What the coordinator does of itself; the rest is done to it.
CoordinatorStep == PassGate \/ Acquire \/ \E e \in Episodes : TaskStep(e)
ProcessStep == Start \/ BeginStop \/ CancelTasks \/ Exit \/ Crash

Next ==
    \/ CoordinatorStep
    \/ ProcessStep
    \/ Quiesce \/ Resume
    \/ \E e \in Episodes : Record(e) \/ Submit(e)
    \/ \E c \in Conversations : TakeNotices(c)

Spec == Init /\ [][Next]_vars

\* The event loop runs what is ready, and the timer of wait_for fires: a
\* runner that hangs is cut short.  Nothing is assumed of the model provider,
\* of an operator or of a crash.
Fairness ==
    /\ WF_vars(PassGate)
    /\ WF_vars(Acquire)
    /\ \A e \in Episodes :
          /\ WF_vars(MarkRunning(e) \/ MarkRunningFails(e))
          /\ WF_vars(RunnerReturns(e) \/ RunnerRaises(e) \/ RunnerTimesOut(e))
          /\ WF_vars(Finish(e) \/ FinishFails(e))
    /\ WF_vars(CancelTasks)
    /\ WF_vars(Exit)

FairSpec == Spec /\ Fairness
-----------------------------------------------------------------------------
\* Safety

Holders == {e \in Episodes : task[e] \in HoldsSlot}

\* Every exit of _run gives its slot back exactly once: by the end of the
\* async with on success, on timeout, on failure, when a status write raises,
\* and when the loop cancels it.
SlotsAccounted == free + Cardinality(Holders) = MaxConcurrent

\* An episode counts as searchable only if the graph really holds it, whatever
\* failed or died between the graph call and the watermark.
WatermarkHonest == ingested \subseteq inGraph

\* A row is marked succeeded only when the run that ended committed every
\* memory it extracted and then acted on the changes it had detected, or found
\* them committed by an earlier run, which may have been cut before it acted.
SuccessMeansCommitted ==
    [][\A e \in Episodes :
          status[e] # "succeeded" /\ status'[e] = "succeeded"
          => yield[e] # "memories" \/ e \in Committed \ unreconciled]_vars

\* A start that reaches "up" gives a task to every row a dead process left
\* unfinished, whatever state it left it in (recover_pending with a limit no
\* smaller than the backlog).
RecoveryComplete ==
    [][phase = "down" /\ phase' = "up" =>
          \A e \in Claimed : status[e] \notin {"succeeded", "failed"}
                             => task'[e] = "gate"]_vars

\* Of any two episodes that committed facts about someone, one was committed
\* before the other's conflict detection read the store: no pair of facts is
\* stored without having been put to comparison, which the model may still
\* fail to answer (_classify goes on without it).
NoUncomparedPair ==
    \A a, b \in Committed \intersect Anchored :
        a # b => a \in seen[b] \/ b \in seen[a]

\* The write path keeps the promise of EpisodeLedger: owed from the claim to
\* the final state, memories written at most once and only while owed, and a
\* final state that later runs, restarts and late writes never undo.
Account(s) ==
    IF s = "unclaimed" THEN "unclaimed"
    ELSE IF s \in Recoverable THEN "owed" ELSE "settled"

Ledger == INSTANCE EpisodeLedger
          WITH account <- [e \in Episodes |-> Account(status[e])],
               written <- commits

LedgerKept == Ledger!LedgerSpec

-----------------------------------------------------------------------------
\* What the proofs rest on: an invariant that every step preserves

\* The queue holds tasks suspended there, each of them once.
Queued(queue, where) ==
    \A i \in DOMAIN queue :
        /\ task[queue[i]] = where
        /\ \A j \in DOMAIN queue : queue[j] = queue[i] => j = i

\* No task survives its process, and none runs for a settled episode.
TasksAreOwed ==
    /\ phase = "down" => gateQ = <<>> /\ slotQ = <<>> /\ task = NoTasks
    /\ \A e \in Episodes : task[e] # "none" => status[e] \in Recoverable

\* A run past the load node found no memories of its episode; one that got to
\* its end leaves none uncommitted and no change of its own undone.
CommittedAtMostOnce ==
    \A e \in Episodes :
        /\ commits[e] \in {0, 1}
        /\ node[e] \in {"ingest", "extract", "detect", "commit"} => commits[e] = 0
        /\ node[e] = "load" => yield[e] = "nothing"
        /\ node[e] \in {"reconcile", "returned"} \/ task[e] = "succeed"
           => yield[e] # "memories" \/ commits[e] = 1
        /\ node[e] = "returned" \/ task[e] = "succeed"
           => yield[e] # "memories" \/ e \notin unreconciled

\* The tasks, rows, queues and runs of the coordinator agree with each other
\* at every await, through every timeout, cancellation and crash.
CoordinatorInvariant ==
    /\ TypeOK
    /\ SlotsAccounted
    /\ Queued(gateQ, "gate")
    /\ Queued(slotQ, "slot")
    /\ TasksAreOwed
    /\ CommittedAtMostOnce

-----------------------------------------------------------------------------
\* Liveness

\* Every task leaves the coordinator, unless it is held at a closed gate: a
\* hung model call cannot keep a slot, nor starve the tasks behind it.
EveryTaskFinishes ==
    \A e \in Episodes :
        task[e] # "none" ~> task[e] = "none" \/ (task[e] = "gate" /\ ~open)

\* A stop that has begun ends, with tasks still behind the closed gate too.
StopEnds == phase = "draining" ~> phase = "down"
=============================================================================
