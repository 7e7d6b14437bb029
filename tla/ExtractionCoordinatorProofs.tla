--------------------- MODULE ExtractionCoordinatorProofs ---------------------
(***************************************************************************)
(* Theorems about ExtractionCoordinator, for every set of episodes and     *)
(* conversations, every number of slots and every recovery limit (the two  *)
(* that need one slot, or a limit that is not reached, say so), and then   *)
(* about ConversationTurn, which adds the turns to it.                     *)
(***************************************************************************)
EXTENDS ConversationTurn, FiniteSetTheorems, SequenceTheorems, TLAPS

USE DEF Nodes, WorkingNodes, Yields, States, TaskStates, HoldsSlot, Phases,
        Recoverable, Move, FinalState

-----------------------------------------------------------------------------
\* Type correctness

\* The sets the coordinator counts are finite.
LEMMA HoldersFinite ==
    /\ IsFiniteSet(Holders)
    /\ IsFiniteSet(Claimed)
    /\ Cardinality(Holders) \in Nat
    /\ Cardinality(Claimed) \in Nat
  <1>1. Holders \in SUBSET Episodes /\ Claimed \in SUBSET Episodes
    BY DEF Holders, Claimed
  <1>2. IsFiniteSet(Episodes)
    BY WorkflowAssumption
  <1>3. IsFiniteSet(Holders) /\ IsFiniteSet(Claimed)
    BY <1>1, <1>2, FS_Subset
  <1> QED
    BY <1>3, FS_CardinalityType

\* The initial state has its types.
LEMMA InitType == Init => TypeOK
  BY CoordinatorAssumption, EmptySeq
     DEF Init, TypeOK, WorkflowInit, WorkflowTypeOK, RunsAtRest, NoTasks, NoNotices

\* A node of the graph leaves the stores and the run well typed.
LEMMA RunStepType ==
    ASSUME WorkflowTypeOK, NEW e \in Episodes, RunStep(e)
    PROVE  WorkflowTypeOK'
  <1> USE DEF WorkflowTypeOK, memoryVars, episodeVars
  <1>1. CASE Load(e)
    BY <1>1 DEF Load, AfterLoad
  <1>2. CASE Ingest(e)
    BY <1>2 DEF Ingest
  <1>3. CASE Extract(e)
    BY <1>3 DEF Extract
  <1>4. CASE Detect(e)
    BY <1>4 DEF Detect, Readable, Committed
  <1>5. CASE Commit(e)
    <2>1. /\ commits' \in [Episodes -> Nat]
          /\ unreconciled' \subseteq Episodes
      BY <1>5 DEF Commit
    <2>2. /\ found' \in [Episodes -> SUBSET Findings]
          /\ node' \in [Episodes -> Nodes]
      BY <1>5 DEF Commit
    <2> QED
      BY <1>5, <2>1, <2>2 DEF Commit
  <1>6. CASE Reconcile(e)
    BY <1>6 DEF Reconcile
  <1>7. CASE NodeRaises(e)
    BY <1>7 DEF NodeRaises
  <1> QED
    BY <1>1, <1>2, <1>3, <1>4, <1>5, <1>6, <1>7 DEF RunStep

\* Recovery re-queues a sequence of owed episodes, none of them twice.
LEMMA BatchIsQueue ==
    ASSUME TypeOK, NEW q \in RecoveryBatches
    PROVE  /\ q \in Seq(Episodes)
           /\ \A i \in DOMAIN q : q[i] \in Owed
           /\ \A i, j \in DOMAIN q : q[i] = q[j] => i = j
  <1> DEFINE n == IF Cardinality(Owed) < RecoverLimit
                  THEN Cardinality(Owed) ELSE RecoverLimit
  <1>1. Owed \in SUBSET Episodes
    BY DEF Owed
  <1>2. Cardinality(Owed) \in Nat
    BY <1>1, WorkflowAssumption, FS_Subset, FS_CardinalityType
  <1>3. n \in Nat
    BY <1>2, CoordinatorAssumption
  <1>4. /\ q \in [1..n -> Owed]
        /\ \A i, j \in 1..n : i < j => submittedAt[q[i]] < submittedAt[q[j]]
    BY DEF RecoveryBatches
  <1> HIDE DEF n
  <1>5. q \in Seq(Owed)
    BY <1>3, <1>4, SeqDef
  <1>6. q \in Seq(Episodes)
    BY <1>1, <1>5, SeqMonotonic
  <1>7. \A i \in 1..n : submittedAt[q[i]] \in Nat
    BY <1>1, <1>4 DEF TypeOK
  <1>8. ASSUME NEW i \in 1..n, NEW j \in 1..n, q[i] = q[j]
        PROVE  i = j
    BY <1>3, <1>4, <1>7, <1>8
  <1> QED
    BY <1>4, <1>6, <1>8

\* What is left of a status row, a queue, a task after the coroutines of a set
\* of episodes are dropped has its types.
LEMMA DropRunsType ==
    ASSUME WorkflowTypeOK, NEW E \in SUBSET Episodes, DropRuns(E),
           UNCHANGED <<memoryVars, episodeVars>>
    PROVE  WorkflowTypeOK'
  BY DEF DropRuns, Forget, WorkflowTypeOK, memoryVars, episodeVars

\* Every step leaves every variable its type.
LEMMA NextType ==
    ASSUME CoordinatorInvariant, [Next]_vars
    PROVE  TypeOK'
  <1> TypeOK /\ SlotsAccounted
    BY DEF CoordinatorInvariant
  <1> USE DEF TypeOK, rowVars, processVars, queueVars
  <1>1. CASE UNCHANGED vars
    BY <1>1 DEF vars, workflowVars, runVars, memoryVars, episodeVars,
                coordinatorVars, WorkflowTypeOK
  <1>2. CASE PassGate
    <2>1. /\ Head(gateQ) \in Episodes
          /\ Tail(gateQ) \in Seq(Episodes)
      BY <1>2, HeadTailProperties DEF PassGate
    <2>2. gateQ' \in Seq(Episodes) /\ slotQ' \in Seq(Episodes)
      BY <1>2, <2>1, AppendProperties DEF PassGate
    <2>3. WorkflowTypeOK'
      BY <1>2 DEF PassGate, workflowVars, runVars, memoryVars, episodeVars,
                  WorkflowTypeOK
    <2> QED
      BY <1>2, <2>1, <2>2, <2>3 DEF PassGate
  <1>3. CASE Acquire
    <2>1. /\ Head(slotQ) \in Episodes
          /\ Tail(slotQ) \in Seq(Episodes)
      BY <1>3, HeadTailProperties DEF Acquire
    <2>2. WorkflowTypeOK'
      BY <1>3 DEF Acquire, workflowVars, runVars, memoryVars, episodeVars,
                  WorkflowTypeOK
    <2> QED
      BY <1>3, <2>1, <2>2 DEF Acquire
  <1>4. ASSUME NEW e \in Episodes, TaskStep(e)
        PROVE  TypeOK'
    <2>1. CASE MarkRunning(e)
      BY <2>1 DEF MarkRunning, BeginRun, WorkflowTypeOK, memoryVars, episodeVars
    <2>2. CASE MarkRunningFails(e)
      <3>1. status' \in [Episodes -> States]
        BY <2>2 DEF MarkRunningFails
      <3>2. WorkflowTypeOK'
        BY <2>2 DEF MarkRunningFails, WorkflowTypeOK, workflowVars, runVars,
                    memoryVars, episodeVars
      <3>3. task' \in [Episodes -> TaskStates] /\ free' \in Nat
        BY <2>2 DEF MarkRunningFails
      <3>4. UNCHANGED <<submittedAt, processVars, open, gateQ, slotQ, notices>>
        BY <2>2 DEF MarkRunningFails
      <3> QED
        BY <3>1, <3>2, <3>3, <3>4
    <2>3. CASE RunnerStep(e)
      <3>1. WorkflowTypeOK'
        BY <2>3, RunStepType DEF RunnerStep
      <3> QED
        BY <2>3, <3>1 DEF RunnerStep, coordinatorVars
    <2>4. CASE RunnerReturns(e)
      <3>1. WorkflowTypeOK'
        BY <2>4 DEF RunnerReturns, EndRun, WorkflowTypeOK, memoryVars, episodeVars
      <3> QED
        BY <2>4, <3>1 DEF RunnerReturns
    <2>5. CASE RunnerRaises(e)
      BY <2>5 DEF RunnerRaises, EndRun, WorkflowTypeOK, memoryVars, episodeVars
    <2>6. CASE RunnerTimesOut(e)
      BY <2>6 DEF RunnerTimesOut, EndRun, WorkflowTypeOK, memoryVars, episodeVars
    <2>7. CASE Finish(e)
      <3>1. WorkflowTypeOK'
        BY <2>7, DropRunsType DEF Finish
      <3>2. free' \in Nat
        BY <2>7 DEF Finish, ReleaseIfHeld
      <3>3. status' \in [Episodes -> States] /\ task' \in [Episodes -> TaskStates]
        BY <2>7 DEF Finish
      <3>4. notices' \in [Conversations -> SUBSET Episodes]
        BY <2>7 DEF Finish
      <3> QED
        BY <2>7, <3>1, <3>2, <3>3, <3>4 DEF Finish
    <2>8. CASE FinishFails(e)
      <3>1. WorkflowTypeOK'
        BY <2>8, DropRunsType DEF FinishFails
      <3>2. free' \in Nat
        BY <2>8 DEF FinishFails, ReleaseIfHeld
      <3>3. status' \in [Episodes -> States]
        <4>1. FinalState[task[e]] \in States
          BY <2>8 DEF FinishFails
        <4> QED
          BY <2>8, <4>1 DEF FinishFails
      <3>4. task' \in [Episodes -> TaskStates]
        BY <2>8 DEF FinishFails
      <3> QED
        BY <2>8, <3>1, <3>2, <3>3, <3>4 DEF FinishFails
    <2> QED
      BY <1>4, <2>1, <2>2, <2>3, <2>4, <2>5, <2>6, <2>7, <2>8 DEF TaskStep
  <1>5. CASE Start
    <2>1. WorkflowTypeOK'
      BY <1>5 DEF Start, WorkflowTypeOK, runVars, memoryVars
    <2>2. gateQ' \in Seq(Episodes) /\ task' \in [Episodes -> TaskStates]
      BY <1>5, BatchIsQueue DEF Start
    <2>3. phase' \in Phases /\ restarts' \in Nat
      BY <1>5 DEF Start
    <2> QED
      BY <1>5, <2>1, <2>2, <2>3 DEF Start
  <1>6. CASE BeginStop
    BY <1>6 DEF BeginStop, WorkflowTypeOK, workflowVars, runVars, memoryVars,
                episodeVars
  <1>7. CASE CancelTasks
    <2> DEFINE running == {e \in Episodes : task[e] = "run"}
    <2>1. WorkflowTypeOK'
      BY <1>7, DropRunsType DEF CancelTasks
    <2>2. /\ Cardinality(running) \in Nat
          /\ Cardinality(running) <= Cardinality(Holders)
      <3>1. running \in SUBSET Holders
        BY DEF Holders
      <3> QED
        BY <3>1, HoldersFinite, FS_Subset, FS_CardinalityType
    <2>3. free' \in Nat
      <3>1. free' = MaxConcurrent - Cardinality(running)
        BY <1>7 DEF CancelTasks
      <3> QED
        BY <2>2, <3>1, HoldersFinite, CoordinatorAssumption DEF SlotsAccounted
    <2>4. status' \in [Episodes -> States]
      BY <1>7 DEF CancelTasks
    <2>5. task' \in [Episodes -> TaskStates]
      BY <1>7 DEF CancelTasks
    <2> QED
      BY <1>7, <2>1, <2>3, <2>4, <2>5, EmptySeq DEF CancelTasks
  <1>8. CASE Exit \/ Crash
    <2>1. ProcessGone
      BY <1>8 DEF Exit, Crash
    <2>2. WorkflowTypeOK'
      BY <2>1, DropRunsType DEF ProcessGone
    <2> QED
      BY <2>1, <2>2, EmptySeq, CoordinatorAssumption
         DEF ProcessGone, NoTasks, NoNotices
  <1>9. CASE Quiesce
    BY <1>9 DEF Quiesce, WorkflowTypeOK, workflowVars, runVars, memoryVars,
                episodeVars
  <1>10. CASE Resume
    <2>1. slotQ' \in Seq(Episodes) /\ gateQ' \in Seq(Episodes)
      BY <1>10, ConcatProperties, EmptySeq DEF Resume
    <2> QED
      BY <1>10, <2>1 DEF Resume, WorkflowTypeOK, workflowVars, runVars,
                         memoryVars, episodeVars
  <1>11. ASSUME NEW e \in Episodes, Record(e)
         PROVE  TypeOK'
    BY <1>11 DEF Record, RecordMessage, WorkflowTypeOK, runVars, memoryVars,
                 coordinatorVars
  <1>12. ASSUME NEW e \in Episodes, Submit(e)
         PROVE  TypeOK'
    <2>1. gateQ' \in Seq(Episodes)
      <3>1. Append(gateQ, e) \in Seq(Episodes)
        BY <1>12, AppendProperties
      <3>2. gateQ' = gateQ \/ gateQ' = Append(gateQ, e)
        BY <1>12 DEF Submit
      <3> QED
        BY <3>1, <3>2
    <2>2. task' \in [Episodes -> TaskStates]
      BY <1>12 DEF Submit
    <2>3. submittedAt' \in [Episodes -> Nat] /\ status' \in [Episodes -> States]
      BY <1>12, HoldersFinite DEF Submit
    <2>4. WorkflowTypeOK'
      BY <1>12 DEF Submit, WorkflowTypeOK, workflowVars, runVars, memoryVars,
                   episodeVars
    <2> QED
      BY <1>12, <2>1, <2>2, <2>3, <2>4 DEF Submit
  <1>13. ASSUME NEW c \in Conversations, TakeNotices(c)
         PROVE  TypeOK'
    BY <1>13 DEF TakeNotices, WorkflowTypeOK, workflowVars, runVars, memoryVars,
                 episodeVars
  <1> QED
    BY <1>1, <1>2, <1>3, <1>4, <1>5, <1>6, <1>7, <1>8, <1>9, <1>10, <1>11,
       <1>12, <1>13
    DEF Next, CoordinatorStep, ProcessStep

-----------------------------------------------------------------------------
\* The slots

\* One task takes a slot.
LEMMA SlotTaken ==
    ASSUME SlotsAccounted, TypeOK, NEW e \in Episodes \ Holders,
           Holders' = Holders \union {e}, free' = free - 1
    PROVE  SlotsAccounted'
  <1>1. Cardinality(Holders') = Cardinality(Holders) + 1
    BY HoldersFinite, FS_AddElement
  <1> QED
    BY <1>1, HoldersFinite, CoordinatorAssumption DEF SlotsAccounted, TypeOK

\* One task gives its slot back.
LEMMA SlotReleased ==
    ASSUME SlotsAccounted, TypeOK, NEW e \in Holders,
           Holders' = Holders \ {e}, free' = free + 1
    PROVE  SlotsAccounted'
  <1>1. Cardinality(Holders') = Cardinality(Holders) - 1
    BY HoldersFinite, FS_RemoveElement
  <1> QED
    BY <1>1, HoldersFinite, CoordinatorAssumption DEF SlotsAccounted, TypeOK

\* The end of a task releases what it holds.
LEMMA SlotReleasedIfHeld ==
    ASSUME SlotsAccounted, TypeOK, NEW e \in Episodes,
           Move(e, "none"), ReleaseIfHeld(e)
    PROVE  SlotsAccounted'
  <1>1. CASE task[e] \in HoldsSlot
    <2>1. e \in Holders /\ Holders' = Holders \ {e} /\ free' = free + 1
      BY <1>1 DEF Holders, ReleaseIfHeld, TypeOK
    <2> QED
      BY <2>1, SlotReleased
  <1>2. CASE task[e] \notin HoldsSlot
    <2>1. Holders' = Holders /\ free' = free
      BY <1>2 DEF Holders, ReleaseIfHeld, TypeOK
    <2> QED
      BY <2>1 DEF SlotsAccounted
  <1> QED
    BY <1>1, <1>2

\* The head of a queue waits where the queue says.
LEMMA HeadWaits ==
    /\ TypeOK /\ Queued(gateQ, "gate") /\ gateQ # <<>>
       => Head(gateQ) \in Episodes /\ task[Head(gateQ)] = "gate"
    /\ TypeOK /\ Queued(slotQ, "slot") /\ slotQ # <<>>
       => Head(slotQ) \in Episodes /\ task[Head(slotQ)] = "slot"
  BY HeadTailProperties, EmptySeq, LenProperties DEF TypeOK, Queued

\* No step loses or invents a slot.
LEMMA NextSlots ==
    ASSUME CoordinatorInvariant, [Next]_vars
    PROVE  SlotsAccounted'
  <1> USE DEF queueVars
  <1>1. /\ TypeOK /\ SlotsAccounted /\ TasksAreOwed
        /\ Queued(gateQ, "gate") /\ Queued(slotQ, "slot")
    BY DEF CoordinatorInvariant
  <1>2. ASSUME Holders' = Holders, free' = free
        PROVE  SlotsAccounted'
    BY <1>1, <1>2 DEF SlotsAccounted
  <1>3. CASE UNCHANGED vars
    <2>1. Holders' = Holders /\ free' = free
      BY <1>3 DEF vars, coordinatorVars, Holders
    <2> QED
      BY <1>2, <2>1
  <1>4. CASE PassGate
    <2>1. Holders' = Holders /\ free' = free
      BY <1>1, <1>4, HeadWaits DEF PassGate, Holders, TypeOK
    <2> QED
      BY <1>2, <2>1
  <1>5. CASE Acquire
    <2>1. Head(slotQ) \in Episodes \ Holders
      BY <1>1, <1>5, HeadWaits DEF Acquire, Holders
    <2>2. Holders' = Holders \union {Head(slotQ)} /\ free' = free - 1
      BY <1>1, <1>5, <2>1 DEF Acquire, Holders, TypeOK
    <2> QED
      BY <1>1, <2>1, <2>2, SlotTaken
  <1>6. ASSUME NEW e \in Episodes, TaskStep(e)
        PROVE  SlotsAccounted'
    <2>1. CASE MarkRunning(e) \/ RunnerRaises(e) \/ RunnerTimesOut(e)
      <3>1. Holders' = Holders /\ free' = free
        BY <1>1, <2>1 DEF MarkRunning, RunnerRaises, RunnerTimesOut, Holders, TypeOK
      <3> QED
        BY <1>2, <3>1
    <2>2. CASE MarkRunningFails(e) \/ RunnerReturns(e)
      <3>1. e \in Holders /\ Holders' = Holders \ {e} /\ free' = free + 1
        BY <1>1, <2>2 DEF MarkRunningFails, RunnerReturns, Holders, TypeOK
      <3> QED
        BY <1>1, <3>1, SlotReleased
    <2>3. CASE RunnerStep(e)
      <3>1. Holders' = Holders /\ free' = free
        BY <2>3 DEF RunnerStep, coordinatorVars, Holders
      <3> QED
        BY <1>2, <3>1
    <2>4. CASE Finish(e) \/ FinishFails(e)
      BY <1>1, <2>4, SlotReleasedIfHeld DEF Finish, FinishFails
    <2> QED
      BY <1>6, <2>1, <2>2, <2>3, <2>4 DEF TaskStep
  <1>7. CASE Start
    <2>1. Holders' = Holders /\ free' = free
      BY <1>1, <1>7 DEF Start, Holders, TasksAreOwed, NoTasks
    <2> QED
      BY <1>2, <2>1
  <1>8. CASE CancelTasks
    <2> DEFINE running == {e \in Episodes : task[e] = "run"}
    <2>1. Holders' = running /\ free' = MaxConcurrent - Cardinality(running)
      BY <1>8 DEF CancelTasks, Holders
    <2>2. Cardinality(running) \in Nat
      <3>1. running \in SUBSET Episodes
        OBVIOUS
      <3> QED
        BY <3>1, WorkflowAssumption, FS_Subset, FS_CardinalityType
    <2> QED
      BY <2>1, <2>2, CoordinatorAssumption DEF SlotsAccounted
  <1>9. CASE Exit \/ Crash
    <2>1. Holders' = {} /\ free' = MaxConcurrent
      BY <1>9 DEF Exit, Crash, ProcessGone, Holders, NoTasks
    <2> QED
      BY <2>1, FS_EmptySet, CoordinatorAssumption DEF SlotsAccounted
  <1>10. CASE Resume
    <2>1. Holders' = Holders /\ free' = free
      BY <1>1, <1>10 DEF Resume, Holders, TypeOK
    <2> QED
      BY <1>2, <2>1
  <1>11. ASSUME NEW e \in Episodes, Submit(e)
         PROVE  SlotsAccounted'
    <2>1. Holders' = Holders /\ free' = free
      BY <1>1, <1>11 DEF Submit, Holders, TypeOK, TasksAreOwed
    <2> QED
      BY <1>2, <2>1
  <1>12. ASSUME \/ BeginStop \/ Quiesce
                \/ \E e \in Episodes : Record(e)
                \/ \E c \in Conversations : TakeNotices(c)
         PROVE  SlotsAccounted'
    <2>1. Holders' = Holders /\ free' = free
      BY <1>12 DEF BeginStop, Quiesce, Record, TakeNotices, coordinatorVars, Holders
    <2> QED
      BY <1>2, <2>1
  <1> QED
    BY <1>3, <1>4, <1>5, <1>6, <1>7, <1>8, <1>9, <1>10, <1>11, <1>12
    DEF Next, CoordinatorStep, ProcessStep

-----------------------------------------------------------------------------
\* The queues

\* A queue is left as it is by a step that moves none of its tasks.
LEMMA QueuesUntouched ==
    ASSUME Queued(gateQ, "gate"), Queued(slotQ, "slot"), TypeOK,
           UNCHANGED <<gateQ, slotQ>>,
           \A d \in Episodes : task[d] \in {"gate", "slot"} => task'[d] = task[d]
    PROVE  Queued(gateQ, "gate")' /\ Queued(slotQ, "slot")'
  <1>1. /\ \A i \in DOMAIN gateQ : gateQ[i] \in Episodes
        /\ \A i \in DOMAIN slotQ : slotQ[i] \in Episodes
    BY LenProperties, ElementOfSeq DEF TypeOK
  <1> QED
    BY <1>1 DEF Queued

\* What is left of a queue without repetitions when its head is taken: the
\* other elements, still without repetitions.
LEMMA TailOfQueue ==
    ASSUME NEW q \in Seq(Episodes), q # <<>>,
           \A i, j \in DOMAIN q : q[j] = q[i] => j = i
    PROVE  /\ \A i \in DOMAIN Tail(q) :
                 \E k \in DOMAIN q : Tail(q)[i] = q[k] /\ q[k] # Head(q)
           /\ \A i, j \in DOMAIN Tail(q) : Tail(q)[j] = Tail(q)[i] => j = i
  <1>1. /\ Len(q) \in Nat \ {0}
        /\ DOMAIN q = 1..Len(q)
        /\ DOMAIN Tail(q) = 1..(Len(q) - 1)
        /\ \A i \in DOMAIN Tail(q) : Tail(q)[i] = q[i + 1]
    BY HeadTailProperties, EmptySeq, LenProperties
  <1>2. Head(q) = q[1] /\ 1 \in DOMAIN q
    BY <1>1
  <1>3. \A i \in DOMAIN Tail(q) : i \in Nat \ {0} /\ i + 1 \in DOMAIN q
    BY <1>1
  <1>4. ASSUME NEW i \in DOMAIN Tail(q)
        PROVE  \E k \in DOMAIN q : Tail(q)[i] = q[k] /\ q[k] # Head(q)
    <2>1. i + 1 \in DOMAIN q /\ i + 1 # 1
      BY <1>3
    <2>2. Tail(q)[i] = q[i + 1] /\ q[i + 1] # q[1]
      BY <1>1, <1>2, <2>1
    <2> QED
      BY <1>2, <2>1, <2>2
  <1>5. ASSUME NEW i \in DOMAIN Tail(q), NEW j \in DOMAIN Tail(q),
               Tail(q)[j] = Tail(q)[i]
        PROVE  j = i
    <2>1. i + 1 \in DOMAIN q /\ j + 1 \in DOMAIN q /\ q[j + 1] = q[i + 1]
      BY <1>1, <1>3, <1>5
    <2>2. j + 1 = i + 1
      BY <2>1
    <2> QED
      BY <1>3, <2>2
  <1> QED
    BY <1>4, <1>5

\* The tasks in the queues are the tasks that wait there, in every state.
LEMMA NextQueues ==
    ASSUME CoordinatorInvariant, [Next]_vars
    PROVE  Queued(gateQ, "gate")' /\ Queued(slotQ, "slot")'
  <1> USE DEF queueVars
  <1>1. /\ TypeOK /\ TasksAreOwed
        /\ Queued(gateQ, "gate") /\ Queued(slotQ, "slot")
    BY DEF CoordinatorInvariant
  <1>2. CASE UNCHANGED vars
    BY <1>1, <1>2, QueuesUntouched DEF vars, coordinatorVars
  <1>3. CASE PassGate
    <2> DEFINE h == Head(gateQ)
    <2>1. /\ gateQ # <<>> /\ h \in Episodes /\ task[h] = "gate"
          /\ task' = [task EXCEPT ![h] = "slot"]
          /\ gateQ' = Tail(gateQ) /\ slotQ' = Append(slotQ, h)
      BY <1>1, <1>3, HeadWaits DEF PassGate
    <2>2. /\ \A i \in DOMAIN gateQ' :
                 \E k \in DOMAIN gateQ : gateQ'[i] = gateQ[k] /\ gateQ[k] # h
          /\ \A i, j \in DOMAIN gateQ' : gateQ'[j] = gateQ'[i] => j = i
      <3>1. /\ gateQ \in Seq(Episodes) /\ gateQ # <<>>
            /\ \A i, j \in DOMAIN gateQ : gateQ[j] = gateQ[i] => j = i
        BY <1>1, <2>1 DEF Queued, TypeOK
      <3> QED
        BY <2>1, <3>1, TailOfQueue
    <2>3. \A i \in DOMAIN gateQ : gateQ[i] \in Episodes
      BY <1>1, ElementOfSeq, LenProperties DEF TypeOK
    <2>4. /\ Len(slotQ) \in Nat
          /\ DOMAIN slotQ = 1..Len(slotQ)
          /\ DOMAIN slotQ' = 1..(Len(slotQ) + 1)
          /\ slotQ'[Len(slotQ) + 1] = h
          /\ \A i \in DOMAIN slotQ : slotQ'[i] = slotQ[i] /\ slotQ[i] \in Episodes
      BY <1>1, <2>1, AppendProperties, LenProperties, ElementOfSeq DEF TypeOK
    <2> HIDE DEF h
    <2>5. Queued(gateQ, "gate")'
      BY <1>1, <2>1, <2>2, <2>3 DEF Queued, TypeOK
    <2>6. Queued(slotQ, "slot")'
      BY <1>1, <2>1, <2>4 DEF Queued, TypeOK
    <2> QED
      BY <2>5, <2>6
  <1>4. CASE Acquire
    <2> DEFINE h == Head(slotQ)
    <2>1. /\ slotQ # <<>> /\ h \in Episodes /\ task[h] = "slot"
          /\ task' = [task EXCEPT ![h] = "mark"]
          /\ slotQ' = Tail(slotQ) /\ gateQ' = gateQ
      BY <1>1, <1>4, HeadWaits DEF Acquire
    <2>2. /\ \A i \in DOMAIN slotQ' :
                 \E k \in DOMAIN slotQ : slotQ'[i] = slotQ[k] /\ slotQ[k] # h
          /\ \A i, j \in DOMAIN slotQ' : slotQ'[j] = slotQ'[i] => j = i
      <3>1. /\ slotQ \in Seq(Episodes) /\ slotQ # <<>>
            /\ \A i, j \in DOMAIN slotQ : slotQ[j] = slotQ[i] => j = i
        BY <1>1, <2>1 DEF Queued, TypeOK
      <3> QED
        BY <2>1, <3>1, TailOfQueue
    <2>3. /\ \A i \in DOMAIN slotQ : slotQ[i] \in Episodes
          /\ \A i \in DOMAIN gateQ : gateQ[i] \in Episodes
      BY <1>1, ElementOfSeq, LenProperties DEF TypeOK
    <2> HIDE DEF h
    <2>4. Queued(slotQ, "slot")'
      BY <1>1, <2>1, <2>2, <2>3 DEF Queued, TypeOK
    <2>5. Queued(gateQ, "gate")'
      BY <1>1, <2>1, <2>3 DEF Queued, TypeOK
    <2> QED
      BY <2>4, <2>5
  <1>5. ASSUME NEW e \in Episodes, TaskStep(e)
        PROVE  Queued(gateQ, "gate")' /\ Queued(slotQ, "slot")'
    <2>1. UNCHANGED <<gateQ, slotQ>>
      BY <1>5 DEF TaskStep, MarkRunning, MarkRunningFails, RunnerStep,
                  RunnerReturns, RunnerRaises, RunnerTimesOut, Finish,
                  FinishFails, coordinatorVars
    <2>2. task[e] \notin {"gate", "slot"}
      BY <1>5 DEF TaskStep, MarkRunning, MarkRunningFails, RunnerStep,
                  RunnerReturns, RunnerRaises, RunnerTimesOut, Finish, FinishFails
    <2>3. task' = task \/ \E to \in TaskStates : Move(e, to)
      BY <1>5 DEF TaskStep, MarkRunning, MarkRunningFails, RunnerStep,
                  RunnerReturns, RunnerRaises, RunnerTimesOut, Finish,
                  FinishFails, coordinatorVars
    <2> QED
      BY <1>1, <2>1, <2>2, <2>3, QueuesUntouched DEF TypeOK
  <1>6. CASE Start
    <2>1. gateQ = <<>> /\ slotQ = <<>> /\ task = NoTasks /\ slotQ' = slotQ
      BY <1>1, <1>6 DEF Start, TasksAreOwed
    <2>2. CASE gateQ' = gateQ /\ task' = task
      BY <1>1, <2>1, <2>2, QueuesUntouched
    <2>3. CASE \E q \in RecoveryBatches :
                  /\ gateQ' = q
                  /\ task' = [e \in Episodes |->
                                IF \E i \in DOMAIN q : q[i] = e
                                THEN "gate" ELSE "none"]
      <3>1. PICK q \in RecoveryBatches :
                  /\ gateQ' = q
                  /\ task' = [e \in Episodes |->
                                IF \E i \in DOMAIN q : q[i] = e
                                THEN "gate" ELSE "none"]
        BY <2>3
      <3>2. \A i \in DOMAIN q : q[i] \in Episodes
        BY <1>1, BatchIsQueue DEF Owed
      <3>3. \A i, j \in DOMAIN q : q[i] = q[j] => i = j
        BY <1>1, BatchIsQueue
      <3>4. Queued(gateQ, "gate")'
        BY <3>1, <3>2, <3>3 DEF Queued
      <3>5. Queued(slotQ, "slot")'
        BY <2>1 DEF Queued
      <3> QED
        BY <3>4, <3>5
    <2> QED
      BY <1>6, <2>2, <2>3 DEF Start
  <1>7. CASE CancelTasks \/ Exit \/ Crash
    <2>1. gateQ' = <<>> /\ slotQ' = <<>>
      BY <1>7 DEF CancelTasks, Exit, Crash, ProcessGone
    <2> QED
      BY <2>1 DEF Queued
  <1>8. CASE Resume
    <2>1. /\ slotQ' = slotQ \o gateQ /\ gateQ' = <<>>
          /\ task' = [e \in Episodes |->
                        IF task[e] = "gate" THEN "slot" ELSE task[e]]
      BY <1>8 DEF Resume
    <2>2. /\ Len(slotQ) \in Nat /\ Len(gateQ) \in Nat
          /\ DOMAIN slotQ = 1..Len(slotQ) /\ DOMAIN gateQ = 1..Len(gateQ)
          /\ DOMAIN slotQ' = 1..(Len(slotQ) + Len(gateQ))
          /\ \A i \in DOMAIN slotQ' :
                slotQ'[i] = IF i <= Len(slotQ) THEN slotQ[i]
                            ELSE gateQ[i - Len(slotQ)]
      <3>1. slotQ \in Seq(Episodes) /\ gateQ \in Seq(Episodes)
        BY <1>1 DEF TypeOK
      <3>2. /\ Len(slotQ) \in Nat /\ Len(gateQ) \in Nat
            /\ DOMAIN slotQ = 1..Len(slotQ) /\ DOMAIN gateQ = 1..Len(gateQ)
        BY <3>1, LenProperties
      <3>3. slotQ' \in Seq(Episodes) /\ Len(slotQ') = Len(slotQ) + Len(gateQ)
        BY <2>1, <3>1, ConcatProperties
      <3>4. DOMAIN slotQ' = 1..(Len(slotQ) + Len(gateQ))
        BY <3>3, LenProperties
      <3>5. \A i \in 1..(Len(slotQ) + Len(gateQ)) :
                slotQ'[i] = IF i <= Len(slotQ) THEN slotQ[i]
                            ELSE gateQ[i - Len(slotQ)]
        BY <2>1, <3>1, ConcatProperties
      <3> QED
        BY <3>2, <3>4, <3>5
    <2>3. /\ \A i \in 1..Len(slotQ) : slotQ[i] \in Episodes
          /\ \A i \in 1..Len(gateQ) : gateQ[i] \in Episodes
      BY <1>1, ElementOfSeq DEF TypeOK
    <2>4. ASSUME NEW i \in DOMAIN slotQ'
          PROVE  \/ i \in 1..Len(slotQ) /\ slotQ'[i] = slotQ[i]
                 \/ /\ i - Len(slotQ) \in 1..Len(gateQ)
                    /\ slotQ'[i] = gateQ[i - Len(slotQ)]
      BY <2>2
    <2>5. ASSUME NEW i \in DOMAIN slotQ'
          PROVE  task'[slotQ'[i]] = "slot"
      BY <1>1, <2>1, <2>2, <2>3, <2>4 DEF Queued, TypeOK
    <2>6. ASSUME NEW i \in DOMAIN slotQ', NEW j \in DOMAIN slotQ',
                 slotQ'[j] = slotQ'[i]
          PROVE  j = i
      BY <1>1, <2>2, <2>4, <2>6 DEF Queued
    <2>7. Queued(slotQ, "slot")'
      BY <2>5, <2>6 DEF Queued
    <2>8. Queued(gateQ, "gate")'
      BY <2>1 DEF Queued
    <2> QED
      BY <2>7, <2>8
  <1>9. ASSUME NEW e \in Episodes, Submit(e)
        PROVE  Queued(gateQ, "gate")' /\ Queued(slotQ, "slot")'
    <2>1. task[e] = "none" /\ slotQ' = slotQ
      BY <1>1, <1>9 DEF Submit, TasksAreOwed
    <2>2. CASE UNCHANGED <<task, gateQ>>
      BY <1>1, <2>1, <2>2, QueuesUntouched
    <2>3. CASE Move(e, "gate") /\ gateQ' = Append(gateQ, e)
      <3>1. /\ Len(gateQ) \in Nat
            /\ DOMAIN gateQ = 1..Len(gateQ)
            /\ DOMAIN gateQ' = 1..(Len(gateQ) + 1)
            /\ gateQ'[Len(gateQ) + 1] = e
            /\ \A i \in DOMAIN gateQ :
                  gateQ'[i] = gateQ[i] /\ gateQ[i] \in Episodes
        BY <1>1, <1>9, <2>3, AppendProperties, LenProperties, ElementOfSeq
           DEF TypeOK
      <3>2. \A i \in DOMAIN slotQ : slotQ[i] \in Episodes
        BY <1>1, ElementOfSeq, LenProperties DEF TypeOK
      <3>3. Queued(gateQ, "gate")'
        BY <1>1, <2>1, <2>3, <3>1 DEF Queued, TypeOK
      <3>4. Queued(slotQ, "slot")'
        BY <1>1, <2>1, <2>3, <3>2 DEF Queued, TypeOK
      <3> QED
        BY <3>3, <3>4
    <2> QED
      BY <1>9, <2>2, <2>3 DEF Submit
  <1>10. ASSUME \/ BeginStop \/ Quiesce
                \/ \E e \in Episodes : Record(e)
                \/ \E c \in Conversations : TakeNotices(c)
         PROVE  Queued(gateQ, "gate")' /\ Queued(slotQ, "slot")'
    BY <1>1, <1>10, QueuesUntouched
       DEF BeginStop, Quiesce, Record, TakeNotices, coordinatorVars
  <1> QED
    BY <1>2, <1>3, <1>4, <1>5, <1>6, <1>7, <1>8, <1>9, <1>10
    DEF Next, CoordinatorStep, ProcessStep

-----------------------------------------------------------------------------
\* Tasks and rows

\* No step leaves a task without a row that owes it, or outlives its process.
LEMMA NextOwed ==
    ASSUME CoordinatorInvariant, [Next]_vars
    PROVE  TasksAreOwed'
  <1> USE DEF queueVars, rowVars, processVars
  <1>1. /\ TypeOK /\ TasksAreOwed
        /\ Queued(gateQ, "gate") /\ Queued(slotQ, "slot")
    BY DEF CoordinatorInvariant
  <1>2. ASSUME UNCHANGED <<phase, status, gateQ, slotQ, task>>
        PROVE  TasksAreOwed'
    BY <1>1, <1>2 DEF TasksAreOwed
  <1>3. ASSUME phase # "down", phase' # "down", UNCHANGED status,
               \A e \in Episodes : task'[e] # "none" => task[e] # "none"
        PROVE  TasksAreOwed'
    BY <1>1, <1>3 DEF TasksAreOwed
  <1>4. ASSUME NEW e \in Episodes, phase' = phase, task[e] # "none",
               \A d \in Episodes \ {e} : status'[d] = status[d] /\ task'[d] = task[d],
               task'[e] # "none" => status'[e] \in Recoverable
        PROVE  TasksAreOwed'
    <2>1. phase # "down"
      BY <1>1, <1>4 DEF TasksAreOwed, NoTasks
    <2> QED
      BY <1>1, <1>4, <2>1 DEF TasksAreOwed
  <1>5. CASE UNCHANGED vars
    BY <1>2, <1>5 DEF vars, coordinatorVars
  <1>6. CASE PassGate
    BY <1>1, <1>4, <1>6, HeadWaits DEF PassGate, TasksAreOwed, TypeOK
  <1>7. CASE Acquire
    BY <1>1, <1>4, <1>7, HeadWaits DEF Acquire, TasksAreOwed, TypeOK
  <1>8. ASSUME NEW e \in Episodes, TaskStep(e)
        PROVE  TasksAreOwed'
    <2>1. CASE MarkRunning(e)
      BY <1>1, <1>4, <2>1 DEF MarkRunning, TypeOK
    <2>2. CASE MarkRunningFails(e)
      BY <1>1, <1>4, <2>2 DEF MarkRunningFails, TypeOK
    <2>3. CASE RunnerStep(e)
      BY <1>2, <2>3 DEF RunnerStep, coordinatorVars
    <2>4. CASE RunnerReturns(e) \/ RunnerRaises(e) \/ RunnerTimesOut(e)
      BY <1>1, <1>4, <2>4
         DEF RunnerReturns, RunnerRaises, RunnerTimesOut, TasksAreOwed, TypeOK
    <2>5. CASE Finish(e)
      BY <1>1, <1>4, <2>5 DEF Finish, TypeOK
    <2>6. CASE FinishFails(e)
      <3>1. /\ phase' = phase /\ task[e] # "none"
            /\ task' = [task EXCEPT ![e] = "none"]
        BY <2>6 DEF FinishFails
      <3>2. \A d \in Episodes \ {e} : status'[d] = status[d]
        BY <1>1, <2>6 DEF FinishFails, TypeOK
      <3> QED
        BY <1>1, <1>4, <3>1, <3>2 DEF TypeOK
    <2> QED
      BY <1>8, <2>1, <2>2, <2>3, <2>4, <2>5, <2>6 DEF TaskStep
  <1>9. CASE Start
    <2>1. CASE UNCHANGED <<phase, gateQ, task>>
      BY <1>2, <1>9, <2>1 DEF Start
    <2>2. CASE /\ phase' = "up"
               /\ \E q \in RecoveryBatches :
                    task' = [e \in Episodes |->
                               IF \E i \in DOMAIN q : q[i] = e
                               THEN "gate" ELSE "none"]
      <3>1. \A e \in Episodes : task'[e] # "none" => e \in Owed
        BY <1>1, <2>2, BatchIsQueue
      <3>2. status' = status
        BY <1>9 DEF Start
      <3> QED
        BY <2>2, <3>1, <3>2 DEF TasksAreOwed, Owed
    <2> QED
      BY <1>9, <2>1, <2>2 DEF Start
  <1>10. CASE CancelTasks
    <2>1. phase' = "closing"
      BY <1>10 DEF CancelTasks
    <2>2. \A e \in Episodes :
             task'[e] # "none" => task[e] = "run" /\ status'[e] = status[e]
      BY <1>10 DEF CancelTasks
    <2> QED
      BY <1>1, <2>1, <2>2 DEF TasksAreOwed
  <1>11. CASE Exit \/ Crash
    BY <1>11 DEF Exit, Crash, ProcessGone, TasksAreOwed, NoTasks
  <1>12. CASE Resume
    <2>1. \A e \in Episodes : task'[e] # "none" => task[e] # "none"
      BY <1>1, <1>12 DEF Resume, TypeOK
    <2> QED
      BY <1>3, <1>12, <2>1 DEF Resume
  <1>13. ASSUME NEW e \in Episodes, Submit(e)
         PROVE  TasksAreOwed'
    BY <1>1, <1>13 DEF Submit, TasksAreOwed, TypeOK
  <1>14. CASE BeginStop
    BY <1>3, <1>14 DEF BeginStop
  <1>15. ASSUME \/ Quiesce
                \/ \E e \in Episodes : Record(e)
                \/ \E c \in Conversations : TakeNotices(c)
         PROVE  TasksAreOwed'
    BY <1>2, <1>15 DEF Quiesce, Record, TakeNotices, coordinatorVars
  <1> QED
    BY <1>5, <1>6, <1>7, <1>8, <1>9, <1>10, <1>11, <1>12, <1>13, <1>14, <1>15
    DEF Next, CoordinatorStep, ProcessStep

-----------------------------------------------------------------------------
\* Commits

\* A node of the graph commits memories only when none are committed.
LEMMA RunStepCommits ==
    ASSUME WorkflowTypeOK, CommittedAtMostOnce, NEW e \in Episodes,
           RunStep(e), task[e] = "run", UNCHANGED task
    PROVE  CommittedAtMostOnce'
  <1> USE DEF CommittedAtMostOnce, WorkflowTypeOK, memoryVars
  <1>1. CASE Load(e)
    BY <1>1 DEF Load, AfterLoad, Committed
  <1>2. CASE Ingest(e)
    BY <1>2 DEF Ingest
  <1>3. CASE Extract(e)
    BY <1>3 DEF Extract
  <1>4. CASE Detect(e)
    BY <1>4 DEF Detect
  <1>5. CASE Commit(e)
    <2>1. commits[e] = 0 /\ node[e] = "commit"
      BY <1>5 DEF Commit
    <2>2. /\ \A d \in Episodes \ {e} :
                /\ commits'[d] = commits[d] /\ node'[d] = node[d]
                /\ d \in unreconciled' => d \in unreconciled
          /\ yield' = yield
          /\ node'[e] \in {"reconcile", "raised"}
      BY <1>5 DEF Commit
    <2>3. commits'[e] = IF yield[e] = "memories" THEN 1 ELSE 0
      BY <1>5, <2>1 DEF Commit
    <2> QED
      BY <2>1, <2>2, <2>3
  <1>6. CASE Reconcile(e)
    BY <1>6 DEF Reconcile
  <1>7. CASE NodeRaises(e)
    BY <1>7 DEF NodeRaises
  <1> QED
    BY <1>1, <1>2, <1>3, <1>4, <1>5, <1>6, <1>7 DEF RunStep

\* No step commits twice, or ends a run with memories left uncommitted.
LEMMA NextCommits ==
    ASSUME CoordinatorInvariant, [Next]_vars
    PROVE  CommittedAtMostOnce'
  <1> USE DEF memoryVars
  <1>1. /\ TypeOK /\ WorkflowTypeOK /\ CommittedAtMostOnce /\ TasksAreOwed
        /\ Queued(gateQ, "gate") /\ Queued(slotQ, "slot")
    BY DEF CoordinatorInvariant, TypeOK
  <1>2. ASSUME UNCHANGED <<memoryVars, node, yield>>,
               \A e \in Episodes : task'[e] = "succeed" => task[e] = "succeed"
        PROVE  CommittedAtMostOnce'
    BY <1>1, <1>2 DEF CommittedAtMostOnce
  <1>3. ASSUME UNCHANGED memoryVars, NEW E \in SUBSET Episodes, DropRuns(E),
               \A e \in Episodes : task'[e] = "succeed"
                                   => e \notin E /\ task[e] = "succeed"
        PROVE  CommittedAtMostOnce'
    BY <1>1, <1>3 DEF CommittedAtMostOnce, DropRuns, Forget
  <1>4. CASE UNCHANGED vars
    BY <1>2, <1>4 DEF vars, coordinatorVars, workflowVars, runVars
  <1>5. CASE PassGate \/ Acquire
    BY <1>1, <1>2, <1>5, HeadWaits
       DEF PassGate, Acquire, workflowVars, runVars, TypeOK
  <1>6. ASSUME NEW e \in Episodes, TaskStep(e)
        PROVE  CommittedAtMostOnce'
    <2>1. CASE MarkRunning(e)
      BY <1>1, <2>1
         DEF MarkRunning, BeginRun, CommittedAtMostOnce, TypeOK, WorkflowTypeOK
    <2>2. CASE MarkRunningFails(e)
      BY <1>1, <1>2, <2>2 DEF MarkRunningFails, workflowVars, runVars, TypeOK
    <2>3. CASE RunnerStep(e)
      BY <1>1, <2>3, RunStepCommits DEF RunnerStep, coordinatorVars
    <2>4. CASE RunnerReturns(e)
      BY <1>1, <2>4
         DEF RunnerReturns, EndRun, CommittedAtMostOnce, TypeOK, WorkflowTypeOK
    <2>5. CASE RunnerRaises(e) \/ RunnerTimesOut(e)
      BY <1>1, <2>5
         DEF RunnerRaises, RunnerTimesOut, EndRun, CommittedAtMostOnce, TypeOK,
             WorkflowTypeOK
    <2>6. CASE Finish(e) \/ FinishFails(e)
      <3>1. DropRuns({e}) /\ UNCHANGED memoryVars /\ Move(e, "none")
        BY <2>6 DEF Finish, FinishFails
      <3> QED
        BY <1>1, <1>3, <3>1 DEF TypeOK
    <2> QED
      BY <1>6, <2>1, <2>2, <2>3, <2>4, <2>5, <2>6 DEF TaskStep
  <1>7. CASE Start
    <2>1. \A e \in Episodes : task'[e] = "succeed" => task[e] = "succeed"
      BY <1>7 DEF Start
    <2> QED
      BY <1>2, <1>7, <2>1 DEF Start, runVars
  <1>8. CASE CancelTasks
    <2>1. /\ DropRuns(Episodes) /\ UNCHANGED memoryVars
          /\ \A e \in Episodes : task'[e] # "succeed"
      BY <1>8 DEF CancelTasks
    <2> QED
      BY <1>3, <2>1
  <1>9. CASE Exit \/ Crash
    <2>1. /\ DropRuns(Episodes) /\ UNCHANGED memoryVars
          /\ \A e \in Episodes : task'[e] # "succeed"
      BY <1>9 DEF Exit, Crash, ProcessGone, NoTasks
    <2> QED
      BY <1>3, <2>1
  <1>10. CASE Resume
    BY <1>2, <1>10 DEF Resume, workflowVars, runVars
  <1>11. ASSUME NEW e \in Episodes, Submit(e)
         PROVE  CommittedAtMostOnce'
    BY <1>1, <1>2, <1>11 DEF Submit, workflowVars, runVars, TypeOK
  <1>12. ASSUME NEW e \in Episodes, Record(e)
         PROVE  CommittedAtMostOnce'
    BY <1>2, <1>12 DEF Record, RecordMessage, runVars, coordinatorVars
  <1>13. ASSUME \/ BeginStop \/ Quiesce
                \/ \E c \in Conversations : TakeNotices(c)
         PROVE  CommittedAtMostOnce'
    BY <1>2, <1>13 DEF BeginStop, Quiesce, TakeNotices, workflowVars, runVars
  <1> QED
    BY <1>4, <1>5, <1>6, <1>7, <1>8, <1>9, <1>10, <1>11, <1>12, <1>13
    DEF Next, CoordinatorStep, ProcessStep

-----------------------------------------------------------------------------
\* Theorems

LEMMA InitInvariant == Init => CoordinatorInvariant
  <1> SUFFICES ASSUME Init PROVE CoordinatorInvariant
    OBVIOUS
  <1>1. TypeOK
    BY InitType
  <1>2. SlotsAccounted
    <2>1. Holders = {} /\ free = MaxConcurrent
      BY DEF Init, Holders, NoTasks
    <2> QED
      BY <2>1, FS_EmptySet, CoordinatorAssumption DEF SlotsAccounted
  <1>3. Queued(gateQ, "gate") /\ Queued(slotQ, "slot")
    BY DEF Init, Queued
  <1>4. TasksAreOwed
    BY DEF Init, TasksAreOwed, NoTasks
  <1>5. CommittedAtMostOnce
    BY DEF Init, WorkflowInit, RunsAtRest, CommittedAtMostOnce, NoTasks
  <1> QED
    BY <1>1, <1>2, <1>3, <1>4, <1>5 DEF CoordinatorInvariant

\* The invariant the other theorems rest on: whatever is submitted, finishes,
\* fails, times out, is cancelled or dies, the queues, tasks, rows, slots and
\* runs of the coordinator agree with each other.
THEOREM InvariantHolds == Spec => []CoordinatorInvariant
  <1>1. CoordinatorInvariant /\ [Next]_vars => CoordinatorInvariant'
    BY NextType, NextSlots, NextQueues, NextOwed, NextCommits
       DEF CoordinatorInvariant
  <1> QED
    BY InitInvariant, <1>1, PTL DEF Spec

\* Every variable keeps its type.
THEOREM TypeCorrect == Spec => []TypeOK
  <1>1. CoordinatorInvariant => TypeOK
    BY DEF CoordinatorInvariant
  <1> QED
    BY InvariantHolds, <1>1, PTL

\* The semaphore's value and the tasks inside it always add up to the number
\* of slots, so at most that many extractions run and none is lost for good.
THEOREM SlotsNeverLeak == Spec => []SlotsAccounted
  <1>1. CoordinatorInvariant => SlotsAccounted
    BY DEF CoordinatorInvariant
  <1> QED
    BY InvariantHolds, <1>1, PTL

-----------------------------------------------------------------------------
\* An episode with an ingestion watermark is in the graph.
THEOREM WatermarkTellsTheTruth == Spec => []WatermarkHonest
  <1> USE DEF WatermarkHonest
  <1>1. Init => WatermarkHonest
    BY DEF Init, WorkflowInit
  <1>2. ASSUME WatermarkHonest, [Next]_vars
        PROVE  WatermarkHonest'
    <2>1. CASE UNCHANGED episodeVars
      BY <1>2, <2>1 DEF episodeVars
    <2>2. ASSUME NEW e \in Episodes, RunnerStep(e)
          PROVE  WatermarkHonest'
      BY <1>2, <2>2
         DEF RunnerStep, RunStep, Load, Ingest, Extract, Detect, Commit,
             Reconcile, NodeRaises, episodeVars
    <2>3. CASE Start
      BY <1>2, <2>3 DEF Start
    <2>4. ASSUME NEW e \in Episodes, Record(e)
          PROVE  WatermarkHonest'
      BY <1>2, <2>4 DEF Record, RecordMessage
    <2>5. ASSUME NEW e \in Episodes, TaskStep(e), ~RunnerStep(e)
          PROVE  UNCHANGED episodeVars
      BY <2>5 DEF TaskStep, MarkRunning, BeginRun, MarkRunningFails, RunnerReturns,
                  RunnerRaises, RunnerTimesOut, EndRun, Finish, FinishFails,
                  workflowVars
    <2>6. ASSUME \/ UNCHANGED vars
                 \/ PassGate \/ Acquire \/ BeginStop \/ CancelTasks \/ Exit \/ Crash
                 \/ Quiesce \/ Resume
                 \/ \E e \in Episodes : Submit(e)
                 \/ \E c \in Conversations : TakeNotices(c)
          PROVE  UNCHANGED episodeVars
      BY <2>6 DEF vars, PassGate, Acquire, BeginStop, CancelTasks, Exit, Crash,
                  ProcessGone, Quiesce, Resume, Submit, TakeNotices, workflowVars
    <2> QED
      BY <1>2, <2>1, <2>2, <2>3, <2>4, <2>5, <2>6
      DEF Next, CoordinatorStep, ProcessStep
  <1> QED
    BY <1>1, <1>2, PTL DEF Spec

-----------------------------------------------------------------------------
\* What a step may do to a status row and to the commits of its episode: the
\* whole of it, for an observer who sees nothing else.
LEMMA StepsOfARow ==
    ASSUME CoordinatorInvariant, [Next]_vars
    PROVE  \/ /\ UNCHANGED commits
              /\ \/ \E e \in Episodes :
                       /\ status[e] = "unclaimed"
                       /\ status' = [status EXCEPT ![e] = "pending"]
                 \/ \A e \in Episodes :
                       status'[e] # status[e] =>
                          /\ status[e] \in Recoverable
                          /\ \/ status'[e] \in Recoverable
                             \/ task[e] = "fail" /\ status'[e] = "failed"
                             \/ task[e] = "succeed" /\ status'[e] = "succeeded"
           \/ /\ UNCHANGED status
              /\ \E e \in Episodes :
                    /\ status[e] \in Recoverable
                    /\ commits[e] = 0
                    /\ commits' = [commits EXCEPT ![e] = 1]
  <1> DEFINE Written ==
               \A e \in Episodes :
                  status'[e] # status[e] =>
                     /\ status[e] \in Recoverable
                     /\ \/ status'[e] \in Recoverable
                        \/ task[e] = "fail" /\ status'[e] = "failed"
                        \/ task[e] = "succeed" /\ status'[e] = "succeeded"
  <1> USE DEF memoryVars, rowVars
  <1>1. /\ TypeOK /\ TasksAreOwed /\ CommittedAtMostOnce
        /\ status \in [Episodes -> States] /\ commits \in [Episodes -> Nat]
        /\ task \in [Episodes -> TaskStates]
    BY DEF CoordinatorInvariant, TypeOK, WorkflowTypeOK
  <1>2. \A e \in Episodes : task[e] # "none" => status[e] \in Recoverable
    BY <1>1 DEF TasksAreOwed
  <1>3. CASE UNCHANGED <<status, commits>>
    BY <1>3
  <1>4. ASSUME NEW e \in Episodes, Submit(e)
        PROVE  UNCHANGED commits /\ status[e] = "unclaimed"
               /\ status' = [status EXCEPT ![e] = "pending"]
    BY <1>4 DEF Submit, workflowVars
  <1>5. ASSUME NEW e \in Episodes, MarkRunning(e) \/ MarkRunningFails(e)
        PROVE  UNCHANGED commits /\ Written
    BY <1>1, <1>2, <1>5 DEF MarkRunning, BeginRun, MarkRunningFails, workflowVars
  <1>6. ASSUME NEW e \in Episodes, Finish(e) \/ FinishFails(e)
        PROVE  UNCHANGED commits /\ Written
    <2>1. /\ task[e] \in DOMAIN FinalState /\ UNCHANGED commits
          /\ status' = status \/ status' = [status EXCEPT ![e] = FinalState[task[e]]]
      BY <1>6 DEF Finish, FinishFails
    <2>2. /\ task[e] \in {"succeed", "fail", "abandon"}
          /\ status[e] \in Recoverable
          /\ FinalState[task[e]] = IF task[e] = "succeed" THEN "succeeded"
                                   ELSE IF task[e] = "fail" THEN "failed"
                                   ELSE "abandoned"
      BY <1>2, <2>1
    <2> QED
      BY <1>1, <2>1, <2>2
  <1>7. ASSUME CancelTasks
        PROVE  UNCHANGED commits /\ Written
    <2>1. ASSUME NEW e \in Episodes, status'[e] # status[e]
          PROVE  \/ task[e] = "mark" /\ status'[e] = "running"
                 \/ /\ task[e] \in DOMAIN FinalState
                    /\ status'[e] = FinalState[task[e]]
      BY <1>7, <2>1 DEF CancelTasks
    <2>2. ASSUME NEW e \in Episodes, status'[e] # status[e]
          PROVE  /\ status[e] \in Recoverable
                 /\ \/ status'[e] \in Recoverable
                    \/ task[e] = "fail" /\ status'[e] = "failed"
                    \/ task[e] = "succeed" /\ status'[e] = "succeeded"
      BY <1>2, <2>1, <2>2
    <2> QED
      BY <1>7, <2>2 DEF CancelTasks
  <1>8. ASSUME NEW e \in Episodes, RunnerStep(e), commits' # commits
        PROVE  /\ UNCHANGED status
               /\ status[e] \in Recoverable /\ commits[e] = 0
               /\ commits' = [commits EXCEPT ![e] = 1]
    <2>1. Commit(e) /\ task[e] = "run" /\ UNCHANGED status
      BY <1>8 DEF RunnerStep, RunStep, Load, Ingest, Extract, Detect, Reconcile,
                  NodeRaises, coordinatorVars
    <2>2. commits[e] = 0 /\ commits' = [commits EXCEPT ![e] = commits[e] + 1]
      BY <1>1, <1>8, <2>1 DEF Commit, CommittedAtMostOnce
    <2> QED
      BY <1>1, <1>2, <2>1, <2>2
  <1>9. ASSUME NEW e \in Episodes, RunnerStep(e)
        PROVE  UNCHANGED status
    BY <1>9 DEF RunnerStep, coordinatorVars
  <1>10. ASSUME NEW e \in Episodes,
                RunnerReturns(e) \/ RunnerRaises(e) \/ RunnerTimesOut(e)
         PROVE  UNCHANGED <<status, commits>>
    BY <1>10 DEF RunnerReturns, RunnerRaises, RunnerTimesOut, EndRun
  <1>11. ASSUME \/ UNCHANGED vars
                \/ PassGate \/ Acquire \/ Start \/ BeginStop \/ Exit \/ Crash
                \/ Quiesce \/ Resume
                \/ \E e \in Episodes : Record(e)
                \/ \E c \in Conversations : TakeNotices(c)
         PROVE  UNCHANGED <<status, commits>>
    BY <1>11 DEF vars, PassGate, Acquire, Start, BeginStop, Exit, Crash,
                 ProcessGone, Quiesce, Resume, Record, RecordMessage,
                 TakeNotices, workflowVars, coordinatorVars
  <1> HIDE DEF Written
  <1>12. \/ UNCHANGED <<status, commits>>
         \/ UNCHANGED commits /\ Written
         \/ \E e \in Episodes : Submit(e)
         \/ \E e \in Episodes : RunnerStep(e) /\ commits' # commits
    BY <1>5, <1>6, <1>7, <1>9, <1>10, <1>11
    DEF Next, CoordinatorStep, ProcessStep, TaskStep
  <1> QED
    BY <1>3, <1>4, <1>8, <1>12 DEF Written

\* A row becomes succeeded only for a run that left no memory uncommitted.
THEOREM SuccessIsHonest == Spec => SuccessMeansCommitted
  <1>1. ASSUME CoordinatorInvariant, [Next]_vars, NEW e \in Episodes,
               status[e] # "succeeded", status'[e] = "succeeded"
        PROVE  yield[e] # "memories" \/ e \in Committed \ unreconciled
    <2>1. task[e] = "succeed"
      BY <1>1, StepsOfARow DEF CoordinatorInvariant, TypeOK
    <2> QED
      BY <2>1, <1>1 DEF CoordinatorInvariant, CommittedAtMostOnce, Committed
  <1>2. CoordinatorInvariant /\ [Next]_vars
        => [\A e \in Episodes :
              status[e] # "succeeded" /\ status'[e] = "succeeded"
              => yield[e] # "memories" \/ e \in Committed \ unreconciled]_vars
    BY <1>1
  <1> QED
    BY InvariantHolds, <1>2, PTL DEF Spec, SuccessMeansCommitted

-----------------------------------------------------------------------------
\* The coordinator, with its queues, slots, timeouts, cancellations, crashes
\* and restarts, implements the ledger: an extraction is owed from the claim to
\* the final state, its memories are written at most once, only while it is
\* owed, and what is settled is never owed again.
THEOREM CoordinatorImplementsLedger == Spec => LedgerKept
  <1> DEFINE account == [e \in Episodes |-> Account(status[e])]
  <1>1. Init => Ledger!LedgerInit
    BY DEF Init, WorkflowInit, Ledger!LedgerInit, Account
  <1>2. ASSUME CoordinatorInvariant, [Next]_vars
        PROVE  [Ledger!LedgerNext]_(Ledger!ledgerVars)
    <2>1. /\ status \in [Episodes -> States] /\ status' \in [Episodes -> States]
      BY <1>2, NextType DEF CoordinatorInvariant, TypeOK
    <2>2. ASSUME NEW e \in Episodes, status[e] = "unclaimed",
                 status' = [status EXCEPT ![e] = "pending"], UNCHANGED commits
          PROVE  Ledger!Claim(e)
      BY <2>1, <2>2 DEF Ledger!Claim, Account
    <2>3. ASSUME NEW e \in Episodes, status[e] \in Recoverable, commits[e] = 0,
                 commits' = [commits EXCEPT ![e] = 1], UNCHANGED status
          PROVE  Ledger!Write(e)
      BY <2>1, <2>3 DEF Ledger!Write, Account
    <2>4. ASSUME UNCHANGED commits,
                 \A e \in Episodes : status'[e] # status[e] =>
                    /\ status[e] \in Recoverable
                    /\ status'[e] \in Recoverable \union {"failed", "succeeded"}
          PROVE  \E E \in SUBSET Episodes : Ledger!Settle(E)
      <3> DEFINE settled == {e \in Episodes : /\ status[e] \in Recoverable
                                             /\ status'[e] \notin Recoverable}
      <3>1. \A e \in settled : account[e] = "owed"
        BY DEF Account
      <3>2. account' = [e \in Episodes |-> IF e \in settled THEN "settled"
                                           ELSE account[e]]
        BY <2>1, <2>4 DEF Account
      <3>3. Ledger!Settle(settled)
        BY <2>4, <3>1, <3>2 DEF Ledger!Settle
      <3> QED
        BY <3>3
    <2> QED
      BY <1>2, <2>2, <2>3, <2>4, StepsOfARow DEF Ledger!LedgerNext
  <1> QED
    BY InvariantHolds, <1>1, <1>2, PTL DEF Spec, LedgerKept, Ledger!LedgerSpec

-----------------------------------------------------------------------------
\* One slot: no two runs overlap, so each detection reads what every earlier
\* commit wrote

\* A graph run exists only inside a task that holds a slot.
RunsHoldSlots ==
    \A e \in Episodes : node[e] # "idle" => task[e] = "run"

\* A run that is about to commit has read every memory committed so far.
AboutToCommit(e) ==
    node[e] = "commit" /\ yield[e] = "memories" /\ e \in Anchored

ComparedWithAll ==
    \A e \in Episodes : AboutToCommit(e) => Committed \subseteq seen[e]

SerialInvariant ==
    /\ RunsHoldSlots
    /\ ComparedWithAll
    /\ NoUncomparedPair

\* One slot is held by one task at most.
LEMMA OneHolder ==
    ASSUME MaxConcurrent = 1, TypeOK, SlotsAccounted,
           NEW d \in Episodes, task[d] \in HoldsSlot,
           NEW e \in Episodes, task[e] \in HoldsSlot
    PROVE  d = e
  <1>1. Cardinality(Holders) = 0 \/ Cardinality(Holders) = 1
    BY HoldersFinite DEF SlotsAccounted, TypeOK
  <1>2. d \in Holders /\ e \in Holders
    BY DEF Holders
  <1>3. PICK x : Holders = {x}
    BY <1>1, <1>2, HoldersFinite, FS_EmptySet, FS_Singleton
  <1> QED
    BY <1>2, <1>3

\* A detection whose limit is not below the number of episodes reads all that
\* is committed.
LEMMA AllIsReadable ==
    ASSUME CandidateLimit >= Cardinality(Episodes), NEW S \in Readable
    PROVE  S = Committed
  <1>1. Committed \in SUBSET Episodes /\ S \in SUBSET Committed
    BY DEF Committed, Readable
  <1>2. /\ IsFiniteSet(Committed) /\ Cardinality(Committed) \in Nat
        /\ Cardinality(Committed) <= Cardinality(Episodes)
    BY <1>1, WorkflowAssumption, FS_Subset, FS_CardinalityType
  <1>3. Cardinality(Episodes) \in Nat
    BY WorkflowAssumption, FS_CardinalityType
  <1>4. Cardinality(S) = Cardinality(Committed)
    BY <1>2, <1>3, WorkflowAssumption DEF Readable
  <1> QED
    BY <1>1, <1>2, <1>4, FS_Subset

\* A run that reads, decides or commits keeps the store compared: it read all
\* there was, and nobody committed since.
LEMMA RunStepSerial ==
    ASSUME MaxConcurrent = 1, CandidateLimit >= Cardinality(Episodes),
           CoordinatorInvariant, SerialInvariant,
           NEW e \in Episodes, RunnerStep(e)
    PROVE  SerialInvariant'
  <1> USE DEF memoryVars
  <1>1. /\ TypeOK /\ SlotsAccounted /\ CommittedAtMostOnce
        /\ node \in [Episodes -> Nodes] /\ yield \in [Episodes -> Yields]
        /\ seen \in [Episodes -> SUBSET Episodes]
        /\ commits \in [Episodes -> Nat]
    BY DEF CoordinatorInvariant, TypeOK, WorkflowTypeOK
  <1>2. RunsHoldSlots /\ ComparedWithAll /\ NoUncomparedPair
    BY DEF SerialInvariant
  <1>3. RunStep(e) /\ task[e] = "run" /\ task' = task
    BY DEF RunnerStep, coordinatorVars
  <1>4. \A d \in Episodes \ {e} : node[d] = "idle"
    BY <1>1, <1>2, <1>3, OneHolder DEF RunsHoldSlots
  <1>5. \A d \in Episodes \ {e} : node'[d] = "idle"
    BY <1>1, <1>3, <1>4 DEF RunStep, Load, Ingest, Extract, Detect, Commit,
                            Reconcile, NodeRaises
  <1>6. RunsHoldSlots'
    BY <1>3, <1>5 DEF RunsHoldSlots
  <1>7. CASE Detect(e)
    <2>1. UNCHANGED <<commits, yield>> /\ node' = [node EXCEPT ![e] = "commit"]
      BY <1>7 DEF Detect
    <2>2. \A d \in Episodes \ {e} : seen'[d] = seen[d]
      BY <1>1, <1>7 DEF Detect
    <2>3. yield[e] = "memories" /\ e \in Anchored => seen'[e] = Committed
      BY <1>1, <1>7, AllIsReadable DEF Detect
    <2>4. e \notin Committed /\ Committed' = Committed
      BY <1>1, <1>7, <2>1 DEF Detect, CommittedAtMostOnce, Committed
    <2>5. ComparedWithAll'
      BY <1>5, <2>1, <2>3, <2>4 DEF ComparedWithAll, AboutToCommit
    <2>6. NoUncomparedPair'
      <3>1. \A d \in Committed : d \in Episodes \ {e}
        BY <2>4 DEF Committed
      <3> QED
        BY <1>2, <2>2, <2>4, <3>1 DEF NoUncomparedPair
    <2> QED
      BY <1>6, <2>5, <2>6 DEF SerialInvariant
  <1>8. CASE Commit(e)
    <2>1. /\ node[e] = "commit" /\ node'[e] # "commit"
          /\ UNCHANGED <<yield, seen>>
      BY <1>1, <1>8 DEF Commit
    <2>2. ComparedWithAll'
      BY <1>5, <2>1 DEF ComparedWithAll, AboutToCommit
    <2>3. IF yield[e] = "memories" THEN Committed' = Committed \union {e}
                                   ELSE Committed' = Committed
      BY <1>1, <1>8 DEF Commit, Committed
    <2>4. yield[e] = "memories" /\ e \in Anchored => Committed \subseteq seen[e]
      BY <1>2, <2>1 DEF ComparedWithAll, AboutToCommit
    <2>5. NoUncomparedPair'
      BY <1>2, <2>1, <2>3, <2>4 DEF NoUncomparedPair
    <2> QED
      BY <1>6, <2>2, <2>5 DEF SerialInvariant
  <1>9. CASE ~Detect(e) /\ ~Commit(e)
    <2>1. UNCHANGED <<seen, commits>>
      BY <1>3, <1>9 DEF RunStep, Load, Ingest, Extract, Reconcile, NodeRaises
    <2>2. node'[e] # "commit"
      BY <1>1, <1>3, <1>9 DEF RunStep, Load, AfterLoad, Ingest, Extract, Reconcile,
                              NodeRaises
    <2>3. ComparedWithAll'
      BY <1>5, <2>2 DEF ComparedWithAll, AboutToCommit
    <2>4. NoUncomparedPair'
      BY <1>2, <2>1 DEF NoUncomparedPair, Committed
    <2> QED
      BY <1>6, <2>3, <2>4 DEF SerialInvariant
  <1> QED
    BY <1>7, <1>8, <1>9

\* Every step keeps it.
LEMMA NextSerial ==
    ASSUME MaxConcurrent = 1, CandidateLimit >= Cardinality(Episodes),
           CoordinatorInvariant, SerialInvariant, [Next]_vars
    PROVE  SerialInvariant'
  <1> USE DEF memoryVars
  <1>1. /\ TypeOK /\ TasksAreOwed
        /\ Queued(gateQ, "gate") /\ Queued(slotQ, "slot")
        /\ node \in [Episodes -> Nodes] /\ task \in [Episodes -> TaskStates]
        /\ seen \in [Episodes -> SUBSET Episodes]
        /\ commits \in [Episodes -> Nat]
    BY DEF CoordinatorInvariant, TypeOK, WorkflowTypeOK
  <1>2. RunsHoldSlots /\ ComparedWithAll /\ NoUncomparedPair
    BY DEF SerialInvariant
  <1>3. ASSUME UNCHANGED <<node, yield, seen, commits>>,
               \A e \in Episodes : task[e] = "run" => task'[e] = "run"
        PROVE  SerialInvariant'
    BY <1>2, <1>3 DEF SerialInvariant, RunsHoldSlots, ComparedWithAll,
                      AboutToCommit, NoUncomparedPair, Committed
  <1>4. ASSUME NEW e \in Episodes, UNCHANGED <<seen, commits>>,
               node'[e] \in {"idle", "load"}, node'[e] # "idle" => task'[e] = "run",
               \A d \in Episodes \ {e} : /\ node'[d] = node[d] /\ task'[d] = task[d]
                                         /\ yield'[d] = yield[d]
        PROVE  SerialInvariant'
    <2>1. RunsHoldSlots'
      BY <1>2, <1>4 DEF RunsHoldSlots
    <2>2. ComparedWithAll'
      BY <1>2, <1>4 DEF ComparedWithAll, AboutToCommit, Committed
    <2>3. NoUncomparedPair'
      BY <1>2, <1>4 DEF NoUncomparedPair, Committed
    <2> QED
      BY <2>1, <2>2, <2>3 DEF SerialInvariant
  <1>5. ASSUME NEW E \in SUBSET Episodes, DropRuns(E), UNCHANGED commits,
               \A d \in Episodes \ E : task'[d] = task[d]
        PROVE  SerialInvariant'
    <2>1. Committed' = Committed
      BY <1>5 DEF Committed
    <2>2. \A d \in Episodes :
             /\ node'[d] = IF d \in E THEN "idle" ELSE node[d]
             /\ d \in Committed \/ d \notin E => seen'[d] = seen[d]
             /\ d \notin E => yield'[d] = yield[d]
      BY <1>5 DEF DropRuns, Forget
    <2>3. RunsHoldSlots'
      BY <1>2, <1>5, <2>2 DEF RunsHoldSlots
    <2>4. ComparedWithAll'
      BY <1>2, <2>1, <2>2 DEF ComparedWithAll, AboutToCommit
    <2>5. NoUncomparedPair'
      <3>1. \A d \in Committed : d \in Episodes
        BY DEF Committed
      <3> QED
        BY <1>2, <2>1, <2>2, <3>1 DEF NoUncomparedPair
    <2> QED
      BY <2>3, <2>4, <2>5 DEF SerialInvariant
  <1>6. CASE UNCHANGED vars
    BY <1>3, <1>6 DEF vars, coordinatorVars, workflowVars, runVars
  <1>7. CASE PassGate \/ Acquire
    BY <1>1, <1>3, <1>7, HeadWaits
       DEF PassGate, Acquire, workflowVars, runVars
  <1>8. ASSUME NEW e \in Episodes, TaskStep(e)
        PROVE  SerialInvariant'
    <2>1. CASE MarkRunning(e)
      <3>1. \A d \in Episodes \ {e} : /\ node'[d] = node[d] /\ task'[d] = task[d]
                                      /\ yield'[d] = yield[d]
        BY <1>1, <2>1 DEF MarkRunning, BeginRun
      <3>2. node'[e] = "load" /\ task'[e] = "run" /\ UNCHANGED <<seen, commits>>
        BY <1>1, <2>1 DEF MarkRunning, BeginRun
      <3> QED
        BY <1>4, <3>1, <3>2
    <2>2. CASE MarkRunningFails(e)
      BY <1>1, <1>3, <2>2 DEF MarkRunningFails, workflowVars, runVars
    <2>3. CASE RunnerStep(e)
      BY <2>3, RunStepSerial
    <2>4. CASE RunnerReturns(e) \/ RunnerRaises(e) \/ RunnerTimesOut(e)
      BY <1>1, <1>4, <2>4
         DEF RunnerReturns, RunnerRaises, RunnerTimesOut, EndRun
    <2>5. CASE Finish(e) \/ FinishFails(e)
      <3>1. DropRuns({e}) /\ UNCHANGED commits /\ Move(e, "none")
        BY <2>5 DEF Finish, FinishFails
      <3> QED
        BY <1>1, <1>5, <3>1
    <2> QED
      BY <1>8, <2>1, <2>2, <2>3, <2>4, <2>5 DEF TaskStep
  <1>9. CASE Start
    <2>1. \A e \in Episodes : task[e] # "run"
      BY <1>1, <1>9 DEF Start, TasksAreOwed, NoTasks
    <2>2. UNCHANGED <<node, yield, seen, commits>>
      BY <1>9 DEF Start, runVars
    <2> QED
      BY <1>3, <2>1, <2>2
  <1>10. CASE CancelTasks
    BY <1>5, <1>10 DEF CancelTasks
  <1>11. CASE Exit \/ Crash
    BY <1>5, <1>11 DEF Exit, Crash, ProcessGone
  <1>12. CASE Resume
    BY <1>3, <1>12 DEF Resume, workflowVars, runVars
  <1>13. ASSUME NEW e \in Episodes, Submit(e)
         PROVE  SerialInvariant'
    <2>1. task[e] # "run"
      BY <1>1, <1>13 DEF Submit, TasksAreOwed
    <2> QED
      BY <1>1, <1>3, <1>13, <2>1 DEF Submit, workflowVars, runVars
  <1>14. ASSUME \/ BeginStop \/ Quiesce
                \/ \E e \in Episodes : Record(e)
                \/ \E c \in Conversations : TakeNotices(c)
         PROVE  SerialInvariant'
    BY <1>3, <1>14 DEF BeginStop, Quiesce, Record, RecordMessage, TakeNotices,
                       workflowVars, runVars, coordinatorVars
  <1> QED
    BY <1>6, <1>7, <1>8, <1>9, <1>10, <1>11, <1>12, <1>13, <1>14
    DEF Next, CoordinatorStep, ProcessStep

\* With one slot, and a candidate limit no smaller than the history, any two
\* episodes that committed facts about someone have been compared: one was
\* committed before the other's conflict detection read the store.
THEOREM SerialRunsCompareAll ==
    ASSUME MaxConcurrent = 1, CandidateLimit >= Cardinality(Episodes)
    PROVE  Spec => []NoUncomparedPair
  <1>1. Init => SerialInvariant
    BY DEF Init, WorkflowInit, RunsAtRest, SerialInvariant, RunsHoldSlots,
           ComparedWithAll, AboutToCommit, NoUncomparedPair, Committed
  <1>2. CoordinatorInvariant /\ SerialInvariant /\ [Next]_vars => SerialInvariant'
    BY NextSerial
  <1>3. SerialInvariant => NoUncomparedPair
    BY DEF SerialInvariant
  <1> QED
    BY InvariantHolds, <1>1, <1>2, <1>3, PTL DEF Spec

-----------------------------------------------------------------------------
\* Recovery

\* A batch whose limit is not below the backlog names every owed row.
LEMMA BatchIsEverything ==
    ASSUME RecoverLimit >= Cardinality(Episodes), TypeOK,
           NEW q \in RecoveryBatches, NEW e \in Owed
    PROVE  \E i \in DOMAIN q : q[i] = e
  <1>1. Owed \in SUBSET Episodes
    BY DEF Owed
  <1>2. /\ IsFiniteSet(Owed) /\ Cardinality(Owed) \in Nat
        /\ Cardinality(Owed) <= Cardinality(Episodes)
    BY <1>1, WorkflowAssumption, FS_Subset, FS_CardinalityType
  <1>3. Cardinality(Episodes) \in Nat
    BY WorkflowAssumption, FS_CardinalityType
  <1> DEFINE n == Cardinality(Owed)
  <1>4. q \in [1..n -> Owed]
    BY <1>2, <1>3, CoordinatorAssumption DEF RecoveryBatches
  <1>5. q \in Injection(1..n, Owed)
    BY <1>4, BatchIsQueue DEF Injection, IsInjective
  <1>6. IsFiniteSet(1..n) /\ Cardinality(1..n) = n
    BY <1>2, FS_Interval
  <1>7. q \in Surjection(1..n, Owed)
    BY <1>2, <1>5, <1>6, FS_Injection
  <1> QED
    BY <1>4, <1>7 DEF Surjection

\* A start that comes up gives a task to every row left unfinished, pending,
\* running or abandoned, provided the limit is not below the backlog.
THEOREM RecoveryLeavesNothing ==
    ASSUME RecoverLimit >= Cardinality(Episodes)
    PROVE  Spec => RecoveryComplete
  <1>1. ASSUME CoordinatorInvariant, [Next]_vars,
               phase = "down", phase' = "up",
               NEW e \in Claimed, status[e] \notin {"succeeded", "failed"}
        PROVE  task'[e] = "gate"
    <2>1. TypeOK /\ status \in [Episodes -> States]
      BY <1>1 DEF CoordinatorInvariant, TypeOK
    <2>2. Start
      BY <1>1 DEF Next, vars, coordinatorVars, processVars, PassGate, Acquire,
                  CoordinatorStep, ProcessStep, TaskStep, MarkRunning,
                  MarkRunningFails, RunnerStep, RunnerReturns, RunnerRaises,
                  RunnerTimesOut, Finish, FinishFails, BeginStop, CancelTasks,
                  Exit, Crash, ProcessGone, Quiesce, Resume, Record, Submit,
                  TakeNotices
    <2>3. PICK q \in RecoveryBatches :
             task' = [d \in Episodes |->
                        IF \E i \in DOMAIN q : q[i] = d THEN "gate" ELSE "none"]
      BY <1>1, <2>2 DEF Start
    <2>4. e \in Episodes /\ e \in Owed
      BY <1>1, <2>1 DEF Claimed, Owed
    <2>5. \E i \in DOMAIN q : q[i] = e
      BY <2>1, <2>4, BatchIsEverything
    <2> QED
      BY <2>3, <2>4, <2>5
  <1>2. CoordinatorInvariant /\ [Next]_vars
        => [phase = "down" /\ phase' = "up" =>
              \A e \in Claimed : status[e] \notin {"succeeded", "failed"}
                                 => task'[e] = "gate"]_vars
    BY <1>1
  <1> QED
    BY InvariantHolds, <1>2, PTL DEF Spec, RecoveryComplete

-----------------------------------------------------------------------------
\* The turns: their inductive invariant

USE DEF Live

\* A response is suspended only in a process that serves.
ServedWhileUp == \A e \in Turns : turn[e] \in Live => phase = "up"

\* What had ended when a message was sent has a task only as long as the
\* message's barrier has not let it by.
EndedBefore ==
    \A e \in Turns : \A d \in ended[e] :
        /\ turn[d] = "done"
        /\ turn[e] \in {"sent", "barrier", "reply"} /\ ConvOf[d] = ConvOf[e]
        /\ turn[e] = "barrier" => task[d] = "none" \/ d \in awaited[e]
        /\ turn[e] = "reply" => task[d] = "none" \/ disclosed[e] # {}

\* Only a success is reported, and only in its conversation.
FindingsAreOfSuccesses ==
    /\ \A c \in Conversations : \A n \in notices[c] :
          status[n] = "succeeded" /\ ConvOf[n] = c
    /\ \A e \in Turns : \A n \in held[e] :
          status[n] = "succeeded" /\ ConvOf[n] = ConvOf[e]
    /\ \A n \in Episodes : \A t \in Turns :
          <<n, t>> \in delivered => status[n] = "succeeded" /\ ConvOf[n] = ConvOf[t]

\* NoticeOnce, without counting.
ToldOnce ==
    /\ \A e \in Turns : \A n \in held[e] : n \notin notices[ConvOf[e]]
    /\ \A d, e \in Turns : d # e => \A n \in held[d] : n \notin held[e]
    /\ \A n \in Episodes : \A t \in Turns : <<n, t>> \in delivered =>
          \A u \in Turns : /\ <<n, u>> \in delivered => u = t
                           /\ n \notin held[u] /\ n \notin notices[ConvOf[u]]

\* A turn past its submit has its message and its row, or has told.
PastSubmit ==
    \A e \in Turns : turn[e] \in {"close", "done"} =>
        (e \in saved /\ status[e] # "unclaimed") \/ "unsaved" \in disclosed[e]

TurnsFit ==
    /\ CoordinatorInvariant /\ TurnTypeOK
    /\ ServedWhileUp /\ EndedBefore
    /\ FindingsAreOfSuccesses /\ ToldOnce /\ PastSubmit

-----------------------------------------------------------------------------
\* What a step does to what turns look at

\* A message has a conversation.
LEMMA TurnsAreEpisodes ==
    /\ Turns \subseteq Episodes
    /\ \A e \in Turns : ConvOf[e] \in Conversations
  BY CoordinatorAssumption DEF Turns

\* Popping is take_notices, or nothing when there is nothing to take.
LEMMA PassIsTake ==
    ASSUME TurnsFit, NEW e \in Turns, turn[e] \in {"sent", "barrier"}, PassBarrier(e)
    PROVE  TakeNotices(ConvOf[e]) \/ UNCHANGED vars
  <1>1. phase = "up" /\ notices \in [Conversations -> SUBSET Episodes]
    BY DEF TurnsFit, ServedWhileUp, TurnTypeOK, TypeOK
  <1>2. UNCHANGED <<workflowVars, rowVars, processVars, open, queueVars, task>>
    BY DEF PassBarrier
  <1>3. CASE notices[ConvOf[e]] = {}
    <2>1. notices' = notices
      BY <1>1, <1>3, TurnsAreEpisodes DEF PassBarrier, PopNotices
    <2> QED
      BY <1>2, <2>1 DEF vars, coordinatorVars
  <1>4. CASE notices[ConvOf[e]] # {}
    BY <1>1, <1>2, <1>4 DEF TakeNotices, PassBarrier, PopNotices
  <1> QED
    BY <1>3, <1>4

\* With its turns left out, a conversation is a use of the coordinator.
LEMMA TurnStepIsNext ==
    ASSUME TurnsFit, [TurnNext]_allVars
    PROVE  [Next]_vars
  <1>1. CASE UNCHANGED allVars
    BY <1>1 DEF allVars
  <1>2. CASE Around
    BY <1>2 DEF Around, Next, ProcessStep
  <1>3. ASSUME NEW e \in Turns, SendMessage(e) \/ Reply(e) \/ SubmitTurnFails(e)
                                 \/ Done(e) \/ Abort(e)
        PROVE  UNCHANGED vars
    BY <1>3 DEF SendMessage, Reply, SubmitTurnFails, Done, Abort
  <1>4. ASSUME NEW e \in Turns,
               EnterBarrier(e) \/ BarrierClears(e) \/ BarrierTimesOut(e)
        PROVE  [Next]_vars
    <2>1. UNCHANGED vars \/ (turn[e] \in {"sent", "barrier"} /\ PassBarrier(e))
      BY <1>4 DEF EnterBarrier, BarrierClears, BarrierTimesOut
    <2> QED
      BY <2>1, PassIsTake, TurnsAreEpisodes DEF Next
  <1>5. ASSUME NEW e \in Turns, RecordTurn(e) \/ RecordTurnFails(e) \/ SubmitTurn(e)
        PROVE  [Next]_vars
    BY <1>5, TurnsAreEpisodes DEF RecordTurn, RecordTurnFails, SubmitTurn, Next
  <1> QED
    BY <1>1, <1>2, <1>3, <1>4, <1>5 DEF TurnNext, TurnStep

\* A row once inserted stays, and a success is final.
LEMMA RowsStay ==
    ASSUME TurnsFit, [TurnNext]_allVars, NEW e \in Episodes
    PROVE  /\ status[e] # "unclaimed" => status'[e] # "unclaimed"
           /\ status[e] = "succeeded" => status'[e] = "succeeded"
  <1>1. status \in [Episodes -> States] /\ status' \in [Episodes -> States]
    BY TurnStepIsNext, NextType DEF TurnsFit, CoordinatorInvariant, TypeOK
  <1> QED
    BY <1>1, TurnStepIsNext, StepsOfARow DEF TurnsFit

\* A message once stored stays.
LEMMA MessagesStay ==
    ASSUME [Next]_vars
    PROVE  saved \subseteq saved'
  <1>1. ASSUME NEW e \in Episodes, Record(e)
        PROVE  saved \subseteq saved'
    BY <1>1 DEF Record, RecordMessage
  <1>2. ASSUME NEW e \in Episodes, TaskStep(e)
        PROVE  saved' = saved
    BY <1>2 DEF TaskStep, MarkRunning, BeginRun, MarkRunningFails, RunnerStep, RunStep,
       Load, Ingest, Extract, Detect, Commit, Reconcile, NodeRaises, RunnerReturns,
       RunnerRaises, RunnerTimesOut, EndRun, Finish, FinishFails, episodeVars,
       workflowVars
  <1>3. ASSUME \/ UNCHANGED vars
               \/ PassGate \/ Acquire \/ Start \/ BeginStop \/ CancelTasks \/ Exit \/ Crash
               \/ Quiesce \/ Resume
               \/ \E e \in Episodes : Submit(e)
               \/ \E c \in Conversations : TakeNotices(c)
        PROVE  saved' = saved
    BY <1>3 DEF vars, PassGate, Acquire, Start, BeginStop, CancelTasks, Exit, Crash,
       ProcessGone, Quiesce, Resume, Submit, TakeNotices, episodeVars, workflowVars
  <1> QED
    BY <1>1, <1>2, <1>3 DEF Next, CoordinatorStep, ProcessStep

\* The coordinator around the turns: it tells only of new successes, gives
\* tasks only when it starts, and stops serving only by a stop or a crash.
LEMMA AroundDoes ==
    ASSUME TurnsFit, Around
    PROVE  /\ \A c \in Conversations : \A n \in notices'[c] :
                 n \in notices[c] \/ (/\ status[n] \in Recoverable
                                      /\ status'[n] = "succeeded" /\ ConvOf[n] = c)
           /\ phase = "up" => \A d \in Episodes : task[d] = "none" => task'[d] = "none"
           /\ phase = "up" /\ phase' # "up" => \A e \in Turns : turn'[e] \notin Live
  <1>1. /\ CoordinatorInvariant /\ TypeOK /\ TasksAreOwed
        /\ Queued(gateQ, "gate") /\ Queued(slotQ, "slot")
        /\ task \in [Episodes -> TaskStates] /\ status \in [Episodes -> States]
        /\ notices \in [Conversations -> SUBSET Episodes]
        /\ turn \in [Turns -> TurnStates]
    BY DEF TurnsFit, CoordinatorInvariant, TypeOK, TurnTypeOK
  <1>2. ASSUME NEW e \in Episodes, Finish(e)
        PROVE  \A c \in Conversations : \A n \in notices'[c] :
                 n \in notices[c] \/ (/\ status[n] \in Recoverable
                                      /\ status'[n] = "succeeded" /\ ConvOf[n] = c)
    <2>1. ASSUME NEW c \in Conversations, NEW n \in notices'[c], n \notin notices[c]
          PROVE  n = e /\ task[e] = "succeed" /\ c = ConvOf[e]
      BY <1>2, <2>1 DEF Finish
    <2>2. task[e] = "succeed" => status[e] \in Recoverable /\ status'[e] = "succeeded"
      BY <1>1, <1>2 DEF Finish, TasksAreOwed
    <2> QED
      BY <2>1, <2>2
  <1>3. \A e \in Episodes : ~Finish(e) /\ TaskStep(e) => UNCHANGED notices
    BY DEF TaskStep, MarkRunning, MarkRunningFails, RunnerStep, RunnerReturns,
           RunnerRaises, RunnerTimesOut, FinishFails, coordinatorVars
  <1>4. ASSUME NEW c \in Conversations, NEW n \in notices'[c]
        PROVE  n \in notices[c] \/ (/\ status[n] \in Recoverable
                                    /\ status'[n] = "succeeded" /\ ConvOf[n] = c)
    <2>1. PassGate \/ Acquire \/ Start \/ CancelTasks \/ BeginStop => UNCHANGED notices
      BY DEF PassGate, Acquire, Start, CancelTasks, BeginStop
    <2>2. Exit \/ Crash => notices'[c] = {}
      BY DEF Exit, Crash, ProcessGone, NoNotices
    <2> QED
      BY <1>2, <1>3, <1>4, <2>1, <2>2 DEF Around, CoordinatorStep
  <1>5. ASSUME phase = "up", NEW d \in Episodes, task[d] = "none"
        PROVE  task'[d] = "none"
    <2>1. ASSUME NEW e \in Episodes, TaskStep(e)
          PROVE  task'[d] = "none"
      <3>1. task[e] # "none"
        BY <2>1 DEF TaskStep, MarkRunning, MarkRunningFails, RunnerStep, RunnerReturns,
                    RunnerRaises, RunnerTimesOut, Finish, FinishFails
      <3>2. task' = task \/ \E to : Move(e, to)
        BY <2>1 DEF TaskStep, MarkRunning, MarkRunningFails, RunnerStep, RunnerReturns,
                    RunnerRaises, RunnerTimesOut, Finish, FinishFails, coordinatorVars
      <3> QED
        BY <1>1, <1>5, <3>1, <3>2
    <2>2. PassGate \/ Acquire => task'[d] = "none"
      BY <1>1, <1>5, HeadWaits DEF PassGate, Acquire
    <2>3. CancelTasks \/ Crash \/ BeginStop => task'[d] = "none"
      BY <1>5 DEF CancelTasks, Crash, ProcessGone, NoTasks, BeginStop
    <2>4. ~Start /\ ~Exit
      BY <1>5 DEF Start, Exit
    <2> QED
      BY <2>1, <2>2, <2>3, <2>4 DEF Around, CoordinatorStep
  <1>6. ASSUME phase = "up", phase' # "up", NEW e \in Turns
        PROVE  turn'[e] \notin Live
    <2>1. ~CoordinatorStep
      BY <1>6 DEF CoordinatorStep, PassGate, Acquire, TaskStep, MarkRunning,
                  MarkRunningFails, RunnerStep, RunnerReturns, RunnerRaises,
                  RunnerTimesOut, Finish, FinishFails, coordinatorVars, processVars
    <2>2. ~Start /\ ~CancelTasks /\ ~Exit
      BY <1>6 DEF Start, CancelTasks, Exit
    <2> QED
      BY <1>6, <2>1, <2>2 DEF Around, turnVars
  <1> QED
    BY <1>4, <1>5, <1>6
-----------------------------------------------------------------------------
\* The invariant is kept

\* Every step leaves every variable its type.
LEMMA NextTurnType ==
    ASSUME TurnsFit, [TurnNext]_allVars
    PROVE  TurnTypeOK'
  <1>1. TurnTypeOK /\ TypeOK'
    BY TurnStepIsNext, NextType DEF TurnsFit
  <1> USE <1>1, TurnsAreEpisodes DEF TurnTypeOK, TurnStates, Go, Disclose, PastReply
  <1>2. notices \in [Conversations -> SUBSET Episodes]
    BY DEF TypeOK
  <1>3. CASE UNCHANGED allVars
    BY <1>3 DEF allVars, turnVars, historyVars
  <1>4. CASE Around
    BY <1>4 DEF Around, turnVars, historyVars
  <1>5. ASSUME NEW e \in Turns, SendMessage(e) \/ Reply(e) \/ Abort(e)
        PROVE  TurnTypeOK'
    BY <1>5 DEF SendMessage, Reply, Abort, SameConversation
  <1>6. ASSUME NEW e \in Turns,
               EnterBarrier(e) \/ BarrierClears(e) \/ BarrierTimesOut(e)
        PROVE  TurnTypeOK'
    BY <1>2, <1>6 DEF EnterBarrier, BarrierClears, BarrierTimesOut, PassBarrier,
                      Outstanding, historyVars
  <1>7. ASSUME NEW e \in Turns, RecordTurn(e) \/ RecordTurnFails(e)
                                \/ SubmitTurn(e) \/ SubmitTurnFails(e)
        PROVE  TurnTypeOK'
    BY <1>7 DEF RecordTurn, RecordTurnFails, SubmitTurn, SubmitTurnFails,
                DiscloseUnsaved, historyVars
  <1>8. ASSUME NEW e \in Turns, Done(e)
        PROVE  TurnTypeOK'
    BY <1>8 DEF Done
  <1> QED
    BY <1>3, <1>4, <1>5, <1>6, <1>7, <1>8 DEF TurnNext, TurnStep

\* A turn's own step, seen from the process: it serves before and after, and
\* gives a task to its own message at most.
LEMMA TurnStepServes ==
    ASSUME TurnsFit, NEW e \in Turns, SendMessage(e) \/ TurnStep(e) \/ Abort(e)
    PROVE  /\ phase = "up" /\ phase' = "up"
           /\ \A d \in Episodes : task[d] = "none" => task'[d] = "none"
                                                   \/ (d = e /\ turn[e] = "submit")
           /\ \A d \in Turns : d # e => /\ turn'[d] = turn[d] /\ awaited'[d] = awaited[d]
                                        /\ disclosed'[d] = disclosed[d]
                                        /\ ended'[d] = ended[d]
           /\ disclosed[e] \subseteq disclosed'[e]
  <1> USE DEF Go, Disclose, PastReply, historyVars
  <1>1. TurnTypeOK /\ ServedWhileUp /\ task \in [Episodes -> TaskStates]
    BY DEF TurnsFit, TurnTypeOK, TypeOK
  <1>2. phase = "up"
    BY <1>1 DEF ServedWhileUp, SendMessage, TurnStep, EnterBarrier, BarrierClears,
        BarrierTimesOut, Reply, RecordTurn, RecordTurnFails, SubmitTurn,
        SubmitTurnFails, Done, Abort
  <1>3. CASE SendMessage(e) \/ Reply(e) \/ SubmitTurnFails(e) \/ Done(e) \/ Abort(e)
    BY <1>1, <1>2, <1>3 DEF SendMessage, Reply, SubmitTurnFails, Done, Abort,
       DiscloseUnsaved, TurnTypeOK, vars, coordinatorVars, processVars
  <1>4. CASE EnterBarrier(e) \/ BarrierClears(e) \/ BarrierTimesOut(e)
    BY <1>1, <1>2, <1>4 DEF EnterBarrier, BarrierClears, BarrierTimesOut, PassBarrier,
       TurnTypeOK, vars, coordinatorVars, processVars
  <1>5. CASE RecordTurn(e) \/ RecordTurnFails(e)
    BY <1>1, <1>2, <1>5 DEF RecordTurn, RecordTurnFails, Record, DiscloseUnsaved,
       TurnTypeOK, vars, coordinatorVars, processVars
  <1>6. CASE SubmitTurn(e)
    BY <1>1, <1>2, <1>6 DEF SubmitTurn, Submit, DiscloseUnsaved, TurnTypeOK, processVars
  <1> QED
    BY <1>3, <1>4, <1>5, <1>6 DEF TurnStep

\* Responses end before the process stops serving, or with it.
LEMMA NextServed ==
    ASSUME TurnsFit, [TurnNext]_allVars
    PROVE  ServedWhileUp'
  <1>1. ServedWhileUp
    BY DEF TurnsFit
  <1>2. CASE UNCHANGED allVars
    BY <1>1, <1>2 DEF ServedWhileUp, allVars, turnVars, vars, coordinatorVars, processVars
  <1>3. CASE Around
    <2>1. \A e \in Turns : turn'[e] \in Live => turn[e] \in Live
      BY <1>3 DEF Around, turnVars
    <2> QED
      BY <1>1, <1>3, <2>1, AroundDoes DEF ServedWhileUp
  <1>4. ASSUME NEW e \in Turns, SendMessage(e) \/ TurnStep(e) \/ Abort(e)
        PROVE  ServedWhileUp'
    BY <1>4, TurnStepServes DEF ServedWhileUp
  <1> QED
    BY <1>2, <1>3, <1>4 DEF TurnNext

\* What had ended stays ended, and its extraction is over once the barrier has
\* let the message by in time.
LEMMA NextEnded ==
    ASSUME TurnsFit, [TurnNext]_allVars
    PROVE  EndedBefore'
  <1>1. /\ TurnTypeOK /\ ServedWhileUp /\ EndedBefore
        /\ \A e \in Turns : ended[e] \subseteq Turns
    BY DEF TurnsFit, TurnTypeOK
  <1>2. CASE UNCHANGED allVars
    BY <1>1, <1>2 DEF EndedBefore, allVars, turnVars, historyVars, vars, coordinatorVars
  <1>3. CASE Around
    <2>1. CASE UNCHANGED turnVars
      <3> SUFFICES ASSUME NEW e \in Turns, NEW d \in ended[e]
                   PROVE  task[d] = "none" => task'[d] = "none"
        BY <1>1, <2>1 DEF EndedBefore, turnVars, historyVars
      <3>1. phase = "up"
        BY <1>1 DEF EndedBefore, ServedWhileUp
      <3> QED
        BY <1>1, <1>3, <3>1, AroundDoes, TurnsAreEpisodes
    <2>2. CASE \A e \in Turns : ended'[e] = {}
      BY <2>2 DEF EndedBefore
    <2> QED
      BY <1>3, <2>1, <2>2 DEF Around
  <1>4. ASSUME NEW e \in Turns, SendMessage(e) \/ TurnStep(e) \/ Abort(e)
        PROVE  EndedBefore'
    <2> SUFFICES ASSUME NEW u \in Turns, NEW d \in ended'[u]
                 PROVE  /\ turn'[d] = "done"
                        /\ turn'[u] \in {"sent", "barrier", "reply"} /\ ConvOf[d] = ConvOf[u]
                        /\ turn'[u] = "barrier" => task'[d] = "none" \/ d \in awaited'[u]
                        /\ turn'[u] = "reply" => task'[d] = "none" \/ disclosed'[u] # {}
      BY DEF EndedBefore
    <2>1. ended'[u] \subseteq Turns
      BY NextTurnType, <1>4 DEF TurnTypeOK, TurnNext
    <2>2. turn[d] = "done" => /\ turn'[d] = "done"
                              /\ task[d] = "none" => task'[d] = "none"
      <3>1. turn[e] # "done"
        BY <1>4 DEF SendMessage, TurnStep, Abort, EnterBarrier, BarrierClears,
           BarrierTimesOut, Reply, RecordTurn, RecordTurnFails, SubmitTurn,
           SubmitTurnFails, Done
      <3> QED
        BY <1>4, <2>1, <3>1, TurnStepServes, TurnsAreEpisodes
    <2>3. CASE u # e
      BY <1>1, <1>4, <2>2, <2>3, TurnStepServes DEF EndedBefore
    <2>4. CASE u = e /\ SendMessage(e)
      BY <1>1, <2>2, <2>4 DEF SendMessage, SameConversation, Go, TurnTypeOK, EndedBefore
    <2>5. CASE u = e /\ EnterBarrier(e)
      <3>1. turn[e] = "sent" /\ ended' = ended
        BY <2>5 DEF EnterBarrier, PassBarrier, historyVars
      <3>2. turn[d] = "done" /\ ConvOf[d] = ConvOf[e] /\ d \in Episodes
        BY <1>1, <2>1, <2>5, <3>1, TurnsAreEpisodes DEF EndedBefore
      <3>3. CASE Outstanding(ConvOf[e]) = {}
        <4>1. task[d] = "none" /\ turn'[e] = "reply"
          BY <1>1, <2>5, <3>2, <3>3 DEF Outstanding, EnterBarrier, PassBarrier, Go, TurnTypeOK
        <4> QED
          BY <2>2, <2>5, <3>2, <4>1
      <3>4. CASE Outstanding(ConvOf[e]) # {}
        <4>1. /\ turn'[e] = "barrier" /\ awaited'[e] = Outstanding(ConvOf[e])
              /\ task[d] = "none" \/ d \in awaited'[e]
          BY <1>1, <2>5, <3>2, <3>4 DEF Outstanding, EnterBarrier, Go, TurnTypeOK
        <4> QED
          BY <2>2, <2>5, <3>2, <4>1
      <3> QED
        BY <3>3, <3>4
    <2>6. CASE u = e /\ BarrierClears(e)
      <3>1. /\ turn[e] = "barrier" /\ Pending(e) = {} /\ ended' = ended
            /\ turn'[e] = "reply"
        BY <1>1, <2>6 DEF BarrierClears, PassBarrier, historyVars, Go, TurnTypeOK
      <3>2. turn[d] = "done" /\ ConvOf[d] = ConvOf[e] /\ task[d] = "none"
        BY <1>1, <2>6, <3>1 DEF EndedBefore, Pending
      <3> QED
        BY <2>2, <2>6, <3>1, <3>2
    <2>7. CASE u = e /\ BarrierTimesOut(e)
      <3>1. /\ turn[e] = "barrier" /\ ended' = ended
            /\ turn'[e] = "reply" /\ disclosed'[e] # {}
        BY <1>1, <2>7 DEF BarrierTimesOut, PassBarrier, historyVars, Go, Disclose, TurnTypeOK
      <3>2. turn[d] = "done" /\ ConvOf[d] = ConvOf[e]
        BY <1>1, <2>7, <3>1 DEF EndedBefore
      <3> QED
        BY <2>2, <2>7, <3>1, <3>2
    <2>8. CASE u = e /\ (Reply(e) \/ Abort(e))
      BY <1>1, <2>8 DEF Reply, Abort, PastReply, TurnTypeOK
    <2>9. CASE u = e /\ (RecordTurn(e) \/ RecordTurnFails(e) \/ SubmitTurn(e)
                         \/ SubmitTurnFails(e) \/ Done(e))
      <3>1. ended' = ended /\ turn[e] \in {"record", "submit", "close"}
        BY <2>9 DEF RecordTurn, RecordTurnFails, SubmitTurn, SubmitTurnFails, Done, historyVars
      <3> QED
        BY <1>1, <2>9, <3>1 DEF EndedBefore
    <2> QED
      BY <1>4, <2>3, <2>4, <2>5, <2>6, <2>7, <2>8, <2>9 DEF TurnStep
  <1> QED
    BY <1>2, <1>3, <1>4 DEF TurnNext
-----------------------------------------------------------------------------
\* Where findings go

\* A step queues the findings of new successes, and lets one turn take what is
\* queued for its conversation or send what it has taken.
LEMMA FindingsMove ==
    ASSUME TurnsFit, [TurnNext]_allVars
    PROVE  \/ /\ \A c \in Conversations : \A n \in notices'[c] :
                    n \in notices[c] \/ (/\ status[n] \in Recoverable
                                         /\ status'[n] = "succeeded" /\ ConvOf[n] = c)
              /\ \A e \in Turns : held'[e] \subseteq held[e]
              /\ delivered' = delivered
           \/ \E e \in Turns :
                 /\ notices'[ConvOf[e]] = {}
                 /\ \A c \in Conversations : notices'[c] \subseteq notices[c]
                 /\ held'[e] = notices[ConvOf[e]]
                 /\ \A d \in Turns : d # e => held'[d] = held[d]
                 /\ delivered' = delivered
           \/ \E e \in Turns :
                 /\ notices' = notices
                 /\ held'[e] = {}
                 /\ \A d \in Turns : d # e => held'[d] = held[d]
                 /\ delivered' = delivered \union (held[e] \X {e})
  <1> DEFINE Queues ==
               /\ \A c \in Conversations : \A n \in notices'[c] :
                     n \in notices[c] \/ (/\ status[n] \in Recoverable
                                          /\ status'[n] = "succeeded" /\ ConvOf[n] = c)
               /\ \A e \in Turns : held'[e] \subseteq held[e]
               /\ delivered' = delivered
             Takes(e) ==
                 /\ notices'[ConvOf[e]] = {}
                 /\ \A c \in Conversations : notices'[c] \subseteq notices[c]
                 /\ held'[e] = notices[ConvOf[e]]
                 /\ \A d \in Turns : d # e => held'[d] = held[d]
                 /\ delivered' = delivered
             Sends(e) ==
                 /\ notices' = notices
                 /\ held'[e] = {}
                 /\ \A d \in Turns : d # e => held'[d] = held[d]
                 /\ delivered' = delivered \union (held[e] \X {e})
  <1> USE DEF historyVars
  <1>1. /\ TurnTypeOK /\ held \in [Turns -> SUBSET Episodes]
        /\ notices \in [Conversations -> SUBSET Episodes]
    BY DEF TurnsFit, TurnTypeOK, TypeOK
  <1>2. CASE UNCHANGED <<notices, held, delivered>>
    BY <1>2
  <1>3. CASE Around
    <2>1. delivered' = delivered /\ \A e \in Turns : held'[e] \subseteq held[e]
      BY <1>1, <1>3 DEF Around, turnVars
    <2> QED
      BY <1>3, <2>1, AroundDoes
  <1>4. ASSUME NEW e \in Turns, SendMessage(e) \/ Reply(e) \/ RecordTurn(e)
                  \/ RecordTurnFails(e) \/ SubmitTurn(e) \/ SubmitTurnFails(e)
        PROVE  UNCHANGED <<notices, held, delivered>>
    BY <1>4 DEF SendMessage, Reply, RecordTurn, RecordTurnFails, SubmitTurn,
       SubmitTurnFails, Record, Submit, vars, coordinatorVars
  <1>5. ASSUME NEW e \in Turns, Abort(e)
        PROVE  Queues
    <2>1. notices' = notices /\ delivered' = delivered /\ held' = [held EXCEPT ![e] = {}]
      BY <1>5 DEF Abort, vars, coordinatorVars
    <2> QED
      BY <1>1, <2>1
  <1>6. ASSUME NEW e \in Turns,
               EnterBarrier(e) \/ BarrierClears(e) \/ BarrierTimesOut(e)
        PROVE  UNCHANGED <<notices, held, delivered>> \/ Takes(e)
    <2>1. UNCHANGED <<notices, held, delivered>> \/ PassBarrier(e)
      BY <1>6 DEF EnterBarrier, BarrierClears, BarrierTimesOut, vars, coordinatorVars
    <2>2. PassBarrier(e) => Takes(e)
      BY <1>1, TurnsAreEpisodes DEF PassBarrier, PopNotices
    <2> QED
      BY <2>1, <2>2
  <1>7. ASSUME NEW e \in Turns, Done(e)
        PROVE  Sends(e)
    BY <1>1, <1>7 DEF Done, vars, coordinatorVars
  <1>8. CASE UNCHANGED allVars
    BY <1>2, <1>8 DEF allVars, turnVars, vars, coordinatorVars
  <1> HIDE DEF Queues, Takes, Sends
  <1>9. Queues \/ \E e \in Turns : Takes(e) \/ Sends(e)
    <2>1. UNCHANGED <<notices, held, delivered>> => Queues
      BY DEF Queues
    <2>2. Around => Queues
      BY <1>3, <1>1, AroundDoes DEF Around, turnVars, Queues
    <2>3. UNCHANGED allVars => Queues
      BY <2>1 DEF allVars, turnVars, vars, coordinatorVars
    <2> QED
      BY <1>4, <1>5, <1>6, <1>7, <2>1, <2>2, <2>3 DEF TurnNext, TurnStep
  <1> QED
    BY <1>9 DEF Queues, Takes, Sends

\* Findings keep to their conversation and to successes.
LEMMA NextFindings ==
    ASSUME TurnsFit, [TurnNext]_allVars
    PROVE  FindingsAreOfSuccesses'
  <1>1. /\ FindingsAreOfSuccesses
        /\ notices \in [Conversations -> SUBSET Episodes]
        /\ notices' \in [Conversations -> SUBSET Episodes]
        /\ held \in [Turns -> SUBSET Episodes] /\ held' \in [Turns -> SUBSET Episodes]
    BY NextTurnType DEF TurnsFit, TurnTypeOK, TypeOK
  <1>2. \A n \in Episodes : status[n] = "succeeded" => status'[n] = "succeeded"
    BY RowsStay
  <1> QED
    BY <1>1, <1>2, FindingsMove, TurnsAreEpisodes DEF FindingsAreOfSuccesses

\* A finding moves from the queue to a turn and from the turn to the user.
LEMMA NextTold ==
    ASSUME TurnsFit, [TurnNext]_allVars
    PROVE  ToldOnce'
  <1>1. /\ FindingsAreOfSuccesses /\ ToldOnce
        /\ notices \in [Conversations -> SUBSET Episodes]
        /\ notices' \in [Conversations -> SUBSET Episodes]
        /\ held \in [Turns -> SUBSET Episodes] /\ held' \in [Turns -> SUBSET Episodes]
    BY NextTurnType DEF TurnsFit, TurnTypeOK, TypeOK
  <1>2. CASE /\ \A c \in Conversations : \A n \in notices'[c] :
                   n \in notices[c] \/ (/\ status[n] \in Recoverable
                                        /\ status'[n] = "succeeded" /\ ConvOf[n] = c)
             /\ \A e \in Turns : held'[e] \subseteq held[e]
             /\ delivered' = delivered
    <2>1. \A n : status[n] \in Recoverable => status[n] # "succeeded"
      OBVIOUS
    <2> QED
      BY <1>1, <1>2, <2>1, TurnsAreEpisodes DEF FindingsAreOfSuccesses, ToldOnce
  <1>3. ASSUME NEW e \in Turns,
               notices'[ConvOf[e]] = {},
               \A c \in Conversations : notices'[c] \subseteq notices[c],
               held'[e] = notices[ConvOf[e]],
               \A d \in Turns : d # e => held'[d] = held[d],
               delivered' = delivered
        PROVE  ToldOnce'
    BY <1>1, <1>3, TurnsAreEpisodes DEF FindingsAreOfSuccesses, ToldOnce
  <1>4. ASSUME NEW e \in Turns,
               notices' = notices,
               held'[e] = {},
               \A d \in Turns : d # e => held'[d] = held[d],
               delivered' = delivered \union (held[e] \X {e})
        PROVE  ToldOnce'
    <2>1. \A n \in Episodes : \A t \in Turns :
             <<n, t>> \in delivered' <=> <<n, t>> \in delivered \/ (t = e /\ n \in held[e])
      BY <1>4
    <2> QED
      BY <1>1, <1>4, <2>1, TurnsAreEpisodes DEF FindingsAreOfSuccesses, ToldOnce
  <1> QED
    BY <1>2, <1>3, <1>4, FindingsMove

\* A turn gets past its submit with a row or with a disclosure, and keeps both.
LEMMA NextPastSubmit ==
    ASSUME TurnsFit, [TurnNext]_allVars
    PROVE  PastSubmit'
  <1> USE DEF PastSubmit, Go
  <1>1. /\ PastSubmit /\ TurnTypeOK
        /\ status \in [Episodes -> States] /\ task \in [Episodes -> TaskStates]
    BY DEF TurnsFit, TurnTypeOK, TypeOK
  <1>2. \A e \in Turns : /\ status[e] # "unclaimed" => status'[e] # "unclaimed"
                         /\ e \in saved => e \in saved'
    BY RowsStay, TurnStepIsNext, MessagesStay, TurnsAreEpisodes
  <1>3. CASE UNCHANGED allVars \/ Around
    <2>1. \A e \in Turns : /\ turn'[e] \in {"close", "done"} => turn'[e] = turn[e]
                           /\ disclosed' = disclosed
      BY <1>1, <1>3 DEF allVars, Around, turnVars, TurnTypeOK
    <2> QED
      BY <1>1, <1>2, <2>1
  <1>4. ASSUME NEW e \in Turns, SendMessage(e) \/ TurnStep(e) \/ Abort(e)
        PROVE  PastSubmit'
    <2>1. \A d \in Turns : d # e => turn'[d] = turn[d] /\ disclosed'[d] = disclosed[d]
      BY <1>4, TurnStepServes
    <2>2. disclosed[e] \subseteq disclosed'[e]
      BY <1>4, TurnStepServes
    <2>3. turn'[e] \in {"close", "done"} =>
             \/ e \in saved' /\ status'[e] # "unclaimed"
             \/ "unsaved" \in disclosed'[e]
      <3>1. CASE SubmitTurn(e)
        <4>1. status' = [status EXCEPT ![e] = "pending"] /\ e \in saved
          BY <3>1 DEF SubmitTurn, Submit
        <4> QED
          BY <1>1, <1>2, <4>1, TurnsAreEpisodes
      <3>2. CASE SubmitTurnFails(e) \/ RecordTurnFails(e)
        BY <1>1, <3>2 DEF SubmitTurnFails, RecordTurnFails, DiscloseUnsaved, Disclose,
                          TurnTypeOK
      <3>3. CASE Done(e)
        BY <1>1, <1>2, <2>2, <3>3 DEF Done
      <3>4. CASE SendMessage(e) \/ Abort(e) \/ EnterBarrier(e) \/ BarrierClears(e)
                 \/ BarrierTimesOut(e) \/ Reply(e) \/ RecordTurn(e)
        BY <1>1, <3>4 DEF SendMessage, Abort, EnterBarrier, BarrierClears,
           BarrierTimesOut, PassBarrier, Reply, RecordTurn, TurnTypeOK
      <3> QED
        BY <1>4, <3>1, <3>2, <3>3, <3>4 DEF TurnStep
    <2> QED
      BY <1>1, <1>2, <2>1, <2>3
  <1> QED
    BY <1>3, <1>4 DEF TurnNext

-----------------------------------------------------------------------------
\* Turns and tasks fit together in every reachable state.
THEOREM InvariantOfTurns == TurnSpec => []TurnsFit
  <1>1. TurnInit => TurnsFit
    <2> SUFFICES ASSUME TurnInit PROVE TurnsFit
      OBVIOUS
    <2>1. CoordinatorInvariant /\ TypeOK
      BY InitInvariant, InitType DEF TurnInit
    <2> QED
      BY <2>1, TurnsAreEpisodes
      DEF TurnInit, TurnsFit, TurnTypeOK, TurnStates, ServedWhileUp, EndedBefore,
          FindingsAreOfSuccesses, ToldOnce, PastSubmit, Init, NoNotices
  <1>2. TurnsFit /\ [TurnNext]_allVars => TurnsFit'
    <2>1. TurnsFit /\ [TurnNext]_allVars => CoordinatorInvariant'
      BY TurnStepIsNext, NextType, NextSlots, NextQueues, NextOwed, NextCommits
         DEF CoordinatorInvariant, TurnsFit
    <2> QED
      BY <2>1, NextTurnType, NextServed, NextEnded, NextFindings, NextTold,
         NextPastSubmit DEF TurnsFit
  <1> QED
    BY <1>1, <1>2, PTL DEF TurnSpec

\* With its turns left out, a conversation has the behaviours of the
\* coordinator, so that what is proved of it holds here too.
THEOREM TurnsUseCoordinator == TurnSpec => Spec
  <1>1. TurnInit => Init
    BY DEF TurnInit
  <1> QED
    BY <1>1, TurnStepIsNext, InvariantOfTurns, PTL DEF TurnSpec, Spec

\* A reply with nothing disclosed is generated when no extraction of a turn that
\* had ended before its message is under way, through overlapping turns,
\* timeouts, stops, crashes and recoveries.
THEOREM BarrierIsKept == TurnSpec => []TurnInvariant
  <1>1. TurnsFit => TurnInvariant
    BY DEF TurnsFit, TurnInvariant, BarrierHolds, EndedBefore
  <1> QED
    BY <1>1, InvariantOfTurns, PTL

\* A turn that ended with nothing said left a stored message and a row, which
\* only its own task concludes, with what its extraction came to.
THEOREM SilenceLeavesItOwed == TurnSpec => OwedUntilConcluded
  <1>1. ASSUME TurnsFit, TurnsFit', [TurnNext]_allVars, NEW e \in Turns,
               turn'[e] = "done", "unsaved" \notin disclosed'[e]
        PROVE  OwedOrConcluded(e)
    <2>1. e \in saved' /\ status'[e] # "unclaimed"
      BY <1>1 DEF TurnsFit, PastSubmit
    <2>2. /\ TurnTypeOK /\ status[e] \in States /\ status'[e] \in States
          /\ e \in Episodes /\ task[e] \in TaskStates /\ CoordinatorInvariant
      BY <1>1, TurnsAreEpisodes DEF TurnsFit, TurnTypeOK, TypeOK
    <2>3. status[e] # "unclaimed"
      <3>1. \/ turn[e] = "done" /\ disclosed[e] \subseteq disclosed'[e]
            \/ UNCHANGED vars
        <4>1. CASE UNCHANGED allVars \/ Around
          BY <1>1, <2>2, <4>1 DEF allVars, Around, turnVars, TurnTypeOK
        <4>2. ASSUME NEW d \in Turns, d # e, SendMessage(d) \/ TurnStep(d) \/ Abort(d)
              PROVE  turn[e] = "done" /\ disclosed[e] \subseteq disclosed'[e]
          BY <1>1, <4>2, TurnStepServes
        <4>3. CASE SendMessage(e) \/ TurnStep(e) \/ Abort(e)
          BY <1>1, <2>2, <4>3
          DEF TurnStep, SendMessage, EnterBarrier, BarrierClears, BarrierTimesOut,
              PassBarrier, Reply, RecordTurn, RecordTurnFails, SubmitTurn,
              SubmitTurnFails, Done, Abort, Go, TurnTypeOK
        <4> QED
          BY <1>1, <4>1, <4>2, <4>3 DEF TurnNext
      <3> QED
        BY <1>1, <2>1, <3>1 DEF TurnsFit, PastSubmit, vars, coordinatorVars, rowVars
    <2>4. \/ UNCHANGED status
          \/ \E d \in Episodes : /\ status[d] = "unclaimed"
                                 /\ status' = [status EXCEPT ![d] = "pending"]
          \/ \A d \in Episodes : status'[d] # status[d] =>
                 /\ status[d] \in Recoverable
                 /\ \/ status'[d] \in Recoverable
                    \/ task[d] = "fail" /\ status'[d] = "failed"
                    \/ task[d] = "succeed" /\ status'[d] = "succeeded"
      BY <1>1, <2>2, TurnStepIsNext, StepsOfARow
    <2>5. status'[e] # status[e] =>
             /\ status[e] \in Recoverable
             /\ \/ status'[e] \in Recoverable
                \/ task[e] = "fail" /\ status'[e] = "failed"
                \/ task[e] = "succeed" /\ status'[e] = "succeeded"
      <3>1. status \in [Episodes -> States]
        BY <1>1 DEF TurnsFit, TurnTypeOK, TypeOK
      <3> QED
        BY <2>2, <2>3, <2>4, <3>1
    <2>6. FinalState["succeed"] = "succeeded" /\ FinalState["fail"] = "failed"
      BY DEF FinalState
    <2> QED
      BY <2>1, <2>5, <2>6 DEF OwedOrConcluded
  <1>2. TurnsFit /\ TurnsFit' /\ [TurnNext]_allVars
        => [\A e \in Turns : turn'[e] = "done" /\ "unsaved" \notin disclosed'[e]
                             => OwedOrConcluded(e)]_allVars
    BY <1>1
  <1> QED
    BY <1>2, InvariantOfTurns, PTL DEF TurnSpec, OwedUntilConcluded

\* No finding is told twice, or is in two places from which it could be.
THEOREM FindingsAreToldOnce == TurnSpec => []NoticeOnce
  <1>1. ASSUME ToldOnce, NEW n \in Episodes
        PROVE  Cardinality({t \in Turns : <<n, t>> \in delivered}) <= 1
    <2> DEFINE S == {t \in Turns : <<n, t>> \in delivered}
    <2>1. CASE S = {}
      <3>1. Cardinality(S) = 0
        BY <2>1, FS_EmptySet
      <3> QED
        BY <3>1
    <2>2. CASE S # {}
      <3>1. PICK t \in S : TRUE
        BY <2>2
      <3>2. \A u \in S : u = t
        BY <1>1, <3>1 DEF ToldOnce
      <3>3. S = {t}
        BY <3>1, <3>2
      <3>4. Cardinality(S) = Cardinality({t})
        BY <3>3
      <3>5. Cardinality({t}) = 1
        BY FS_Singleton
      <3> QED
        BY <3>4, <3>5
    <2> QED
      BY <2>1, <2>2
  <1>2. ASSUME TurnsFit PROVE NoticeOnce
    <2>1. ToldOnce /\ held \in [Turns -> SUBSET Episodes]
      BY <1>2 DEF TurnsFit, TurnTypeOK
    <2>2. \A e \in Turns : held[e] \intersect notices[ConvOf[e]] = {}
      BY <2>1 DEF ToldOnce
    <2>3. \A d, e \in Turns : d # e => held[d] \intersect held[e] = {}
      BY <2>1 DEF ToldOnce
    <2>4. \A n \in Episodes : (\E t \in Turns : <<n, t>> \in delivered) =>
             \A t \in Turns : n \notin held[t] \union notices[ConvOf[t]]
      BY <2>1 DEF ToldOnce
    <2> QED
      BY <1>1, <2>1, <2>2, <2>3, <2>4 DEF NoticeOnce
  <1> QED
    BY <1>2, InvariantOfTurns, PTL
=============================================================================
