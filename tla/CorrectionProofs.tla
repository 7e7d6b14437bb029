--------------------------- MODULE CorrectionProofs ---------------------------
(***************************************************************************)
(* Theorems about CorrectionWorkflow, for any number of handlers,          *)
(* corrections and facts.                                                  *)
(***************************************************************************)
EXTENDS CorrectionWorkflow, BeliefTimelineProofs

\* A correction is a use of the timeline: with its handlers, checkpoints,
\* restarts and cuts left out, what happens is what BeliefTimeline allows.
LEMMA TimelineBeside == CorrectionSpec => Spec
  <1>1. CorrectionInit => Init
    BY DEF CorrectionInit
  <1>2. [CorrectionNext]_correctionVars => [Next]_vars
    <2>1. ASSUME UNCHANGED correctionVars PROVE UNCHANGED vars
      BY <2>1 DEF correctionVars
    <2>2. ASSUME Elsewhere PROVE Next
      BY <2>2 DEF Elsewhere, Next
    <2>3. ASSUME NEW h \in Writers, NEW t \in Threads, Identify(h, t) \/ Resume(h, t)
          PROVE  UNCHANGED vars
      BY <2>3 DEF Identify, Resume
    <2>4. ASSUME NEW h \in Writers,
                 PlanSurely(h) \/ Ask(h) \/ Confirm(h) \/ SaveInBackground(h) \/ Return(h)
          PROVE  UNCHANGED vars
      BY <2>4 DEF PlanSurely, Ask, Confirm, SaveInBackground, Return
    <2>5. ASSUME NEW h \in Writers, BeginApply(h) PROVE Next
      BY <2>5 DEF BeginApply, ReadTarget, Next
    <2>6. ASSUME NEW h \in Writers, Apply(h) PROVE Next
      BY <2>6 DEF Apply, Next
    <2>7. ASSUME NEW h \in Writers, ApplyFails(h) \/ Cut(h)
          PROVE  Next \/ UNCHANGED vars
      BY <2>7 DEF ApplyFails, Cut, Next
    <2> QED
      BY <2>1, <2>2, <2>3, <2>4, <2>5, <2>6, <2>7 DEF CorrectionNext
  <1> QED
    BY <1>1, <1>2, PTL DEF CorrectionSpec, Spec

-----------------------------------------------------------------------------
\* The inductive invariant

\* What a checkpoint and the stored outcome of its task say.
RowFits(t, i) ==
    LET row == checkpoints[t][i] IN
    \/ /\ row.node = "confirm" /\ i = 1
       /\ row.value = None /\ row.wrote \in Changing \union {None}
    \/ /\ row.node = "apply"
       /\ row.value \in Changing /\ row.wrote \in {None, "done"}
    \/ /\ row.node = "end"
       /\ row.value = None /\ row.wrote = None

\* A save in the background is of the handler's own thread, and writes what
\* the task of its checkpoint yields.
SaveFits(h, s) ==
    /\ loop[h] # Off /\ s.thread = loop[h].thread
    /\ s.at \in DOMAIN checkpoints[s.thread]
    /\ s.what = "writes" =>
          \/ checkpoints[s.thread][s.at].node = "confirm" /\ s.value \in Changing
          \/ checkpoints[s.thread][s.at].node = "apply" /\ s.value = "done"

\* A handler that did not resume, before it ends.
IsFirst(h) == \/ loop[h].at \in {"plan", "doubt"}
              \/ loop[h].at = "apply" /\ loop[h].on = 0

LoopFits(h) ==
    LET t == loop[h].thread
        on == loop[h].on
    IN  /\ plan[t] # Unplanned
        /\ IsFirst(h) =>
              /\ checkpoints[t] = <<>> /\ changes[t] = 0
              /\ \A g \in Writers : loop[g] # Off /\ loop[g].thread = t => g = h
        /\ loop[h].at \in {"plan", "doubt"} => on = 0
        /\ on = 0 => saving[h] = {}
        /\ on # 0 \/ loop[h].at \in {"confirm", "apply"} => loop[h].op \in Changing
        /\ loop[h].at = "confirm" =>
              on \in DOMAIN checkpoints[t] /\ checkpoints[t][on].node = "confirm"
        /\ loop[h].at = "apply" /\ on # 0 =>
              on \in DOMAIN checkpoints[t] /\ checkpoints[t][on].node = "apply"

HasLatest(t) == Saved(t) # {} => \E i \in Saved(t) : \A j \in Saved(t) : j <= i

RowsFit == \A t \in Threads : \A i \in DOMAIN checkpoints[t] : RowFits(t, i)
SavesFit == \A h \in Writers : \A s \in saving[h] : SaveFits(h, s)
LoopsFit == \A h \in Writers : loop[h] # Off => LoopFits(h)
LatestExists == \A t \in Threads : HasLatest(t)
UnplannedAreNew ==
    \A t \in Threads :
        plan[t] = Unplanned => checkpoints[t] = <<>> /\ changes[t] = 0

\* Handlers, checkpoints and saves fit together, races and cuts included.
StatesFit ==
    /\ CorrectionTypeOK
    /\ RowsFit /\ SavesFit /\ LoopsFit /\ LatestExists /\ UnplannedAreNew

\* Two handlers at once are marked.
RacesMarked ==
    \A g, h \in Writers :
        /\ loop[g] # Off /\ loop[h] # Off /\ loop[g].thread = loop[h].thread
        /\ "raced" \notin marks[loop[g].thread]
        => g = h

\* The last checkpoint says that the change was made, and is saved or about to
\* be.
EndIsComing(h) ==
    LET t == loop[h].thread
        last == Len(checkpoints[t])
    IN  /\ loop[h].at = "exit"
        /\ last # 0 /\ checkpoints[t][last].node = "end"
        /\ \/ checkpoints[t][last].saved
           \/ \E s \in saving[h] : s.what = "checkpoint" /\ s.at = last

\* Where a thread was neither raced nor torn, the change is made by the handler
\* that is about to say so, and what is saved says so once it is gone.
Once(t) ==
    marks[t] \intersect {"torn", "raced"} = {} =>
        /\ changes[t] <= 1
        /\ changes[t] = 1 /\ RunningOn(t) = {} => ChangeIsSaved(t)
        /\ \A h \in RunningOn(t) : /\ ~loop[h].did => changes[t] = 0
                                   /\ loop[h].did => EndIsComing(h)

\* The answers a checkpoint holds.
Said(t, i) == {checkpoints[t][i].wrote, checkpoints[t][i].value} \intersect Changing

\* A handler acts on the answer that the saved checkpoints hold, and what it is
\* saving adds no other.
ActsOnAnswer(h) ==
    LET t == loop[h].thread
        op == loop[h].op
    IN  /\ \A i \in Saved(t) : Said(t, i) \subseteq {op}
        /\ \A s \in saving[h] :
              /\ s.value \in {op, "done", None}
              /\ s.what = "checkpoint" => Said(t, s.at) \subseteq {op}

OneAnswer(t) ==
    "raced" \notin marks[t] =>
        /\ \A i, j \in Saved(t) : \A a \in Said(t, i), b \in Said(t, j) : a = b
        /\ \A h \in RunningOn(t) : loop[h].on # 0 => ActsOnAnswer(h)

\* What a handler has read is its thread's fact, to do what was answered.
JobsFit ==
    \A h \in Writers : job[h] # Idle =>
        /\ loop[h] # Off /\ loop[h].at = "apply"
        /\ job[h].op = loop[h].op /\ job[h].id = plan[loop[h].thread].target

\* A corrected fact is not believed.
CorrectedEnded ==
    \A a \in DOMAIN facts : facts[a].fixes # Null =>
        facts[a].fixes \in DOMAIN facts /\ ~IsBelieved(facts[a].fixes)

\* A correction still to be applied to a corrected fact was warned.
LateIsForked ==
    \A t \in Threads : \A a \in DOMAIN facts :
        /\ facts[a].fixes # Null /\ plan[t].target = facts[a].fixes
        /\ changes[t] = 0
        => Forked(t)

\* OneReplacement, for facts that are believed no more as well.
TwiceIsForked ==
    \A a, b \in DOMAIN facts :
        a # b /\ facts[a].fixes # Null /\ facts[a].fixes = facts[b].fixes
        => \E t \in Threads : plan[t].target = facts[a].fixes /\ Forked(t)

CorrectionsFit ==
    /\ StatesFit /\ RacesMarked
    /\ \A t \in Threads : Once(t) /\ OneAnswer(t)
    /\ JobsFit /\ CorrectedEnded /\ LateIsForked /\ TwiceIsForked

-----------------------------------------------------------------------------
\* What the operators do

\* The words of the model are different ones.
LEMMA WordsDiffer ==
    /\ None \notin Changing /\ "done" \notin Changing /\ "done" # None
    /\ Null \notin Ids
    /\ Unplanned \notin Plans /\ \A p \in Plans : p.target # Null
  BY NullIsNone DEF None, Changing, Unplanned, Plans

\* A new checkpoint comes last and changes none of the others.
LEMMA AppendDoes ==
    ASSUME CheckpointTypeOK, NEW t \in Threads, NEW row \in Checkpoint,
           checkpoints' = [checkpoints EXCEPT ![t] = Append(@, row)]
    PROVE  LET new == Len(checkpoints[t]) + 1 IN
           /\ checkpoints' \in [Threads -> Seq(Checkpoint)]
           /\ Len(checkpoints[t]) \in Nat /\ new # 0
           /\ DOMAIN checkpoints[t] = 1..Len(checkpoints[t])
           /\ DOMAIN checkpoints'[t] = DOMAIN checkpoints[t] \union {new}
           /\ new \notin DOMAIN checkpoints[t]
           /\ Len(checkpoints'[t]) = new
           /\ checkpoints'[t][new] = row
           /\ \A i \in DOMAIN checkpoints[t] : checkpoints'[t][i] = checkpoints[t][i]
           /\ \A u \in Threads \ {t} : checkpoints'[u] = checkpoints[u]
  <1>1. checkpoints[t] \in Seq(Checkpoint) /\ checkpoints \in [Threads -> Seq(Checkpoint)]
    BY DEF CheckpointTypeOK
  <1>2. checkpoints'[t] = Append(checkpoints[t], row)
    BY <1>1
  <1>3. /\ Append(checkpoints[t], row) \in Seq(Checkpoint)
        /\ Len(checkpoints[t]) \in Nat
        /\ DOMAIN checkpoints[t] = 1..Len(checkpoints[t])
        /\ Len(Append(checkpoints[t], row)) = Len(checkpoints[t]) + 1
        /\ \A i \in 1..Len(checkpoints[t]) :
              Append(checkpoints[t], row)[i] = checkpoints[t][i]
        /\ Append(checkpoints[t], row)[Len(checkpoints[t]) + 1] = row
    BY <1>1, AppendProperties, LenProperties
  <1>4. DOMAIN Append(checkpoints[t], row) = 1..(Len(checkpoints[t]) + 1)
    BY <1>3, LenProperties
  <1> QED
    BY <1>1, <1>2, <1>3, <1>4

\* The newest saved checkpoint, when there is one.
LEMMA LatestDoes ==
    ASSUME CheckpointTypeOK, LatestExists, NEW t \in Threads
    PROVE  /\ Saved(t) \subseteq DOMAIN checkpoints[t]
           /\ Saved(t) = {} => Latest(t) = 0
           /\ Latest(t) # 0 => Latest(t) \in Saved(t)
           /\ \A j \in Saved(t) : Latest(t) \in Saved(t) /\ j <= Latest(t)
           /\ DOMAIN checkpoints[t] = 1..Len(checkpoints[t])
           /\ Len(checkpoints[t]) \in Nat
           /\ Latest(t) \in Nat
           /\ \A i \in Saved(t) : (\A j \in Saved(t) : j <= i) => Latest(t) = i
  <1>1. /\ DOMAIN checkpoints[t] = 1..Len(checkpoints[t])
        /\ Len(checkpoints[t]) \in Nat
    BY LenProperties DEF CheckpointTypeOK
  <1>2. Saved(t) \subseteq DOMAIN checkpoints[t]
    BY DEF Saved
  <1>3. Saved(t) # {} => /\ Latest(t) \in Saved(t)
                         /\ \A j \in Saved(t) : j <= Latest(t)
    BY DEF LatestExists, HasLatest, Latest
  <1>4. \A i, j \in Saved(t) : i \in Nat /\ (i <= j /\ j <= i => i = j)
    BY <1>1, <1>2
  <1>5. Saved(t) = {} => Latest(t) = 0
    BY DEF Latest
  <1> QED
    BY <1>1, <1>2, <1>3, <1>4, <1>5

\* One save of a handler lands: the checkpoint counts as saved, or the outcome
\* of its task is stored when there was none.
Landed(h, s) ==
    LET t == s.thread IN
    /\ loop[h] # Off /\ t = loop[h].thread /\ t \in Threads
    /\ s \in Saves /\ s.at \in DOMAIN checkpoints[t] /\ Due(h, s)
    /\ saving' = [saving EXCEPT ![h] = @ \ {s}]
    /\ checkpoints' \in [Threads -> Seq(Checkpoint)]
    /\ \A u \in Threads \ {t} : checkpoints'[u] = checkpoints[u]
    /\ DOMAIN checkpoints'[t] = DOMAIN checkpoints[t]
    /\ Len(checkpoints'[t]) = Len(checkpoints[t])
    /\ \A i \in DOMAIN checkpoints[t] : i # s.at =>
          checkpoints'[t][i] = checkpoints[t][i]
    /\ LET old == checkpoints[t][s.at]
           new == checkpoints'[t][s.at]
       IN  /\ new.node = old.node /\ new.value = old.value
           /\ new.saved = (old.saved \/ s.what = "checkpoint")
           /\ new.wrote = IF s.what = "writes" /\ old.wrote = None
                          THEN s.value ELSE old.wrote

LEMMA SaveDoes ==
    ASSUME StatesFit, NEW h \in Writers, Save(h)
    PROVE  \E s \in saving[h] : Landed(h, s)
  <1>1. PICK s \in saving[h] :
           /\ Due(h, s)
           /\ saving' = [saving EXCEPT ![h] = @ \ {s}]
           /\ checkpoints' = [checkpoints EXCEPT ![s.thread][s.at] =
                 IF s.what = "checkpoint" THEN [@ EXCEPT !.saved = TRUE]
                 ELSE Written(@, s.value)]
    BY DEF Save
  <1> DEFINE t == s.thread
             old == checkpoints[t][s.at]
             new == IF s.what = "checkpoint" THEN [old EXCEPT !.saved = TRUE]
                    ELSE Written(old, s.value)
  <1>2. /\ s \in Saves /\ t \in Threads /\ t = loop[h].thread /\ loop[h] # Off
        /\ s.at \in DOMAIN checkpoints[t]
        /\ s.what \in {"checkpoint", "writes"}
        /\ s.value \in Changing \union {"done", None}
    BY <1>1 DEF StatesFit, SavesFit, SaveFits, CorrectionTypeOK, CheckpointTypeOK, Saves
  <1>3. /\ checkpoints \in [Threads -> Seq(Checkpoint)]
        /\ checkpoints[t] \in Seq(Checkpoint)
    BY <1>2 DEF StatesFit, CorrectionTypeOK, CheckpointTypeOK
  <1>4. old \in Checkpoint /\ s.at \in 1..Len(checkpoints[t])
    BY <1>2, <1>3, ElementOfSeq, LenProperties
  <1>5. /\ new \in Checkpoint
        /\ new.node = old.node /\ new.value = old.value
        /\ new.saved = (old.saved \/ s.what = "checkpoint")
        /\ new.wrote = IF s.what = "writes" /\ old.wrote = None
                       THEN s.value ELSE old.wrote
    <2>1. CASE s.what = "checkpoint"
      BY <2>1, <1>4 DEF Checkpoint
    <2>2. CASE s.what = "writes"
      BY <2>2, <1>2, <1>4 DEF Checkpoint, Written
    <2> QED
      BY <1>2, <2>1, <2>2
  <1>6. checkpoints' = [checkpoints EXCEPT ![t] = [@ EXCEPT ![s.at] = new]]
    BY <1>1
  <1> HIDE DEF new
  <1>7. checkpoints'[t] = [checkpoints[t] EXCEPT ![s.at] = new]
    BY <1>2, <1>3, <1>6
  <1>8. [checkpoints[t] EXCEPT ![s.at] = new] \in Seq(Checkpoint)
    BY <1>3, <1>4, <1>5, ExceptSeq
  <1>9. Len(checkpoints'[t]) = Len(checkpoints[t])
    BY <1>3, <1>4, <1>5, <1>7, ExceptSeq
  <1>10. /\ \A u \in Threads \ {t} : checkpoints'[u] = checkpoints[u]
         /\ DOMAIN checkpoints'[t] = DOMAIN checkpoints[t]
         /\ checkpoints'[t][s.at] = new
         /\ \A i \in DOMAIN checkpoints[t] : i # s.at =>
               checkpoints'[t][i] = checkpoints[t][i]
    BY <1>2, <1>3, <1>6, <1>7
  <1>11. checkpoints' \in [Threads -> Seq(Checkpoint)]
    BY <1>3, <1>6, <1>7, <1>8
  <1>12. /\ checkpoints'[t][s.at].node = old.node
         /\ checkpoints'[t][s.at].value = old.value
         /\ checkpoints'[t][s.at].saved = (old.saved \/ s.what = "checkpoint")
         /\ checkpoints'[t][s.at].wrote = IF s.what = "writes" /\ old.wrote = None
                                         THEN s.value ELSE old.wrote
    BY <1>5, <1>10
  <1> HIDE DEF old
  <1>13. Landed(h, s)
    BY <1>1, <1>2, <1>9, <1>10, <1>11, <1>12 DEF old, Landed
  <1> QED
    BY <1>1, <1>13

-----------------------------------------------------------------------------
\* What a step leaves alone

\* The step is of one handler that is running, and touches no other handler and
\* no other thread.
OnlyTouches(h) ==
    LET t == loop[h].thread IN
    /\ loop[h] # Off /\ plan' = plan
    /\ loop'[h] # Off => loop'[h].thread = t
    /\ \A g \in Writers \ {h} : loop'[g] = loop[g] /\ saving'[g] = saving[g]
    /\ \A u \in Threads \ {t} :
          checkpoints'[u] = checkpoints[u] /\ changes'[u] = changes[u]
    /\ \A i \in DOMAIN checkpoints[t] :
          i \in DOMAIN checkpoints'[t] /\ checkpoints'[t][i].node = checkpoints[t][i].node
    /\ \A u \in Threads : marks[u] \subseteq marks'[u]

\* Then the states of the others fit as before.
LEMMA OthersFit ==
    ASSUME StatesFit, NEW h \in Writers, OnlyTouches(h)
    PROVE  /\ \A g \in Writers \ {h} : loop'[g] # Off => LoopFits(g)'
           /\ \A g \in Writers \ {h} : \A s \in saving'[g] : SaveFits(g, s)'
           /\ \A u \in Threads \ {loop[h].thread} :
                 /\ HasLatest(u)'
                 /\ \A i \in DOMAIN checkpoints'[u] : RowFits(u, i)'
           /\ UnplannedAreNew'
  <1> DEFINE t == loop[h].thread
  <1>1. /\ LoopFits(h) /\ t \in Threads
        /\ \A g \in Writers : loop[g] # Off => loop[g].thread \in Threads
    BY DEF OnlyTouches, StatesFit, LoopsFit, CorrectionTypeOK, Loops
  <1>2. ASSUME NEW g \in Writers \ {h}, loop'[g] # Off PROVE LoopFits(g)'
    <2>1. /\ loop[g] # Off /\ LoopFits(g) /\ loop'[g] = loop[g]
          /\ saving'[g] = saving[g] /\ plan' = plan
      BY <1>2 DEF OnlyTouches, StatesFit, LoopsFit
    <2>2. CASE loop[g].thread = t
      <3>1. ~IsFirst(g)
        BY <2>1, <2>2 DEF LoopFits, OnlyTouches
      <3>2. ~IsFirst(g)'
        BY <2>1, <3>1 DEF IsFirst
      <3>3. \A i \in DOMAIN checkpoints[t] :
               i \in DOMAIN checkpoints'[t] /\ checkpoints'[t][i].node = checkpoints[t][i].node
        BY DEF OnlyTouches
      <3> QED
        BY <2>1, <2>2, <3>2, <3>3 DEF LoopFits
    <2>3. CASE loop[g].thread # t
      <3>1. /\ checkpoints'[loop[g].thread] = checkpoints[loop[g].thread]
            /\ changes'[loop[g].thread] = changes[loop[g].thread]
        BY <1>1, <2>1, <2>3 DEF OnlyTouches
      <3>2. \A f \in Writers : loop'[f] # Off => loop[f] # Off /\ loop'[f].thread = loop[f].thread
        BY DEF OnlyTouches
      <3>3. IsFirst(g)' <=> IsFirst(g)
        BY <2>1 DEF IsFirst
      <3> QED
        BY <2>1, <3>1, <3>2, <3>3 DEF LoopFits
    <2> QED
      BY <2>2, <2>3
  <1>3. ASSUME NEW g \in Writers \ {h}, NEW s \in saving'[g] PROVE SaveFits(g, s)'
    <2>1. s \in saving[g] /\ SaveFits(g, s) /\ loop'[g] = loop[g]
      BY <1>3 DEF OnlyTouches, StatesFit, SavesFit
    <2>2. s.thread \in Threads
      BY <1>1, <2>1 DEF SaveFits
    <2>3. \/ checkpoints'[s.thread] = checkpoints[s.thread]
          \/ \A i \in DOMAIN checkpoints[s.thread] :
                /\ i \in DOMAIN checkpoints'[s.thread]
                /\ checkpoints'[s.thread][i].node = checkpoints[s.thread][i].node
      BY <2>2 DEF OnlyTouches
    <2> QED
      BY <2>1, <2>3 DEF SaveFits
  <1>4. ASSUME NEW u \in Threads \ {t}
        PROVE  /\ HasLatest(u)'
               /\ \A i \in DOMAIN checkpoints'[u] : RowFits(u, i)'
    <2>1. checkpoints'[u] = checkpoints[u]
      BY DEF OnlyTouches
    <2> QED
      BY <2>1 DEF StatesFit, RowsFit, RowFits, LatestExists, HasLatest, Saved
  <1>5. UnplannedAreNew'
    <2>1. plan[t] # Unplanned
      BY <1>1 DEF LoopFits
    <2> QED
      BY <2>1 DEF OnlyTouches, StatesFit, UnplannedAreNew
  <1> QED
    BY <1>2, <1>3, <1>4, <1>5

\* So only the handler's own state and its thread's rows are to be looked at.
LEMMA OwnSuffices ==
    ASSUME StatesFit, NEW h \in Writers, OnlyTouches(h), CorrectionTypeOK',
           loop'[h] # Off => LoopFits(h)',
           \A s \in saving'[h] : SaveFits(h, s)',
           NEW t \in Threads, t = loop[h].thread, HasLatest(t)',
           \A i \in DOMAIN checkpoints'[t] : RowFits(t, i)'
    PROVE  StatesFit'
  <1>1. LoopsFit' /\ SavesFit' /\ UnplannedAreNew'
    BY OthersFit DEF LoopsFit, SavesFit
  <1>2. LatestExists' /\ RowsFit'
    BY OthersFit DEF LatestExists, RowsFit
  <1> QED
    BY <1>1, <1>2 DEF StatesFit
-----------------------------------------------------------------------------
\* The states fit after every step

\* Nothing of the workflow changes.
LEMMA QuietFits ==
    ASSUME StatesFit, UNCHANGED <<checkpoints, saving, plan, loop, changes, marks>>
    PROVE  StatesFit'
  BY DEF StatesFit, CorrectionTypeOK, CheckpointTypeOK, RowsFit, RowFits, SavesFit,
         SaveFits, LoopsFit, LoopFits, IsFirst, LatestExists, HasLatest, Saved,
         UnplannedAreNew

\* The rows are as they were.
LEMMA RowsStay ==
    ASSUME StatesFit, checkpoints' = checkpoints
    PROVE  /\ RowsFit' /\ LatestExists'
           /\ \A t \in Threads : HasLatest(t)' /\ \A i \in DOMAIN checkpoints'[t] : RowFits(t, i)'
  BY DEF StatesFit, RowsFit, RowFits, LatestExists, HasLatest, Saved

\* A handler that is off saves nothing, and one that runs has a thread.
LEMMA Handlers ==
    ASSUME StatesFit, NEW h \in Writers
    PROVE  /\ loop[h] = Off => saving[h] = {}
           /\ loop[h] # Off => /\ loop[h] \in Loops /\ LoopFits(h)
                               /\ loop[h].thread \in Threads /\ loop[h].on \in Nat
           /\ Off.at = "off" /\ \A l \in Loops : l.at # "off" /\ l # Off
           /\ loop[h].at \in {"plan", "doubt", "confirm", "apply", "exit"} => loop[h] # Off
  BY DEF StatesFit, SavesFit, SaveFits, LoopsFit, CorrectionTypeOK, Loops, Off

LEMMA IdentifyFits ==
    ASSUME TimelineInvariant, StatesFit, NEW h \in Writers, NEW t \in Threads,
           Identify(h, t)
    PROVE  StatesFit'
  <1>1. PICK id \in DOMAIN facts, named \in BOOLEAN, many \in BOOLEAN :
           /\ plan' = [plan EXCEPT ![t] = [target |-> id, named |-> named]]
           /\ loop' = [loop EXCEPT ![h] =
                 Loop(IF many THEN "doubt" ELSE "plan", t, 0, None, FALSE)]
    BY DEF Identify, Moves
  <1>2. /\ loop[h] = Off /\ plan[t] = Unplanned
        /\ UNCHANGED <<checkpoints, saving, changes, marks>>
    BY DEF Identify
  <1> DEFINE new == Loop(IF many THEN "doubt" ELSE "plan", t, 0, None, FALSE)
  <1>3. /\ new \in Loops /\ new.thread = t /\ new.on = 0
        /\ new.at \in {"plan", "doubt"}
    BY DEF Loop, Loops, None
  <1>4. [target |-> id, named |-> named] \in Plans
    BY NewIdFree DEF TimelineInvariant, Plans
  <1> HIDE DEF new
  <1>5. CorrectionTypeOK'
    BY <1>1, <1>2, <1>3, <1>4 DEF new, StatesFit, CorrectionTypeOK, CheckpointTypeOK
  <1>6. /\ loop'[h] = new /\ \A g \in Writers \ {h} : loop'[g] = loop[g]
        /\ plan'[t] # Unplanned /\ \A u \in Threads \ {t} : plan'[u] = plan[u]
    BY <1>1, <1>4, WordsDiffer DEF new, StatesFit, CorrectionTypeOK
  <1>7. \A g \in Writers : loop[g] # Off => loop[g].thread # t
    BY <1>2 DEF StatesFit, LoopsFit, LoopFits
  <1>8. /\ checkpoints[t] = <<>> /\ changes[t] = 0 /\ saving[h] = {}
    BY <1>2, Handlers DEF StatesFit, UnplannedAreNew
  <1>9. LoopFits(h)'
    BY <1>2, <1>3, <1>6, <1>7, <1>8 DEF LoopFits, IsFirst
  <1>10. ASSUME NEW g \in Writers \ {h}, loop'[g] # Off PROVE LoopFits(g)'
    <2>1. /\ loop'[g] = loop[g] /\ LoopFits(g) /\ loop[g].thread \in Threads \ {t}
      BY <1>6, <1>7, <1>10, Handlers
    <2> QED
      BY <1>2, <1>3, <1>6, <2>1 DEF LoopFits, IsFirst
  <1>11. SavesFit'
    BY <1>2, <1>6, Handlers DEF StatesFit, SavesFit, SaveFits
  <1> QED
    BY <1>2, <1>5, <1>6, <1>9, <1>10, <1>11, RowsStay
       DEF StatesFit, LoopsFit, UnplannedAreNew

LEMMA ResumeFits ==
    ASSUME StatesFit, NEW h \in Writers, NEW t \in Threads, Resume(h, t)
    PROVE  StatesFit'
  <1> DEFINE on == Latest(t)
             row == checkpoints[t][on]
  <1>1. /\ loop[h] = Off /\ on # 0 /\ ~IsApplied(row)
        /\ UNCHANGED <<checkpoints, saving, plan, changes>>
        /\ marks' = [marks EXCEPT ![t] =
                        IF RunningOn(t) = {} THEN @ ELSE @ \union {"raced"}]
    BY DEF Resume
  <1>2. PICK reply \in Replies :
           loop' = [loop EXCEPT ![h] =
              IF row.node = "confirm" THEN Loop("confirm", t, on, Confirmed(row, reply), FALSE)
              ELSE Loop("apply", t, on, row.value, FALSE)]
    BY DEF Resume, Moves
  <1> DEFINE new == IF row.node = "confirm"
                    THEN Loop("confirm", t, on, Confirmed(row, reply), FALSE)
                    ELSE Loop("apply", t, on, row.value, FALSE)
  <1>3. on \in DOMAIN checkpoints[t] /\ on \in Nat /\ RowFits(t, on)
    BY <1>1, LatestDoes DEF StatesFit, RowsFit, CorrectionTypeOK
  <1> HIDE DEF on
  <1>4. /\ new \in Loops /\ new.thread = t /\ new.on = on /\ new.op \in Changing
        /\ \/ new.at = "confirm" /\ row.node = "confirm"
           \/ new.at = "apply" /\ row.node = "apply"
    <2>1. \/ row.node = "confirm" /\ row.wrote \in Changing \union {None}
          \/ row.node = "apply" /\ row.value \in Changing
      BY <1>1, <1>3 DEF RowFits, IsApplied
    <2>2. Confirmed(row, reply) \in Changing \/ row.node = "apply"
      BY <2>1 DEF Confirmed, Meaning, Changing
    <2> QED
      BY <1>3, <2>1, <2>2 DEF Loop, Loops
  <1> HIDE DEF new
  <1>5. CorrectionTypeOK'
    BY <1>1, <1>2, <1>4 DEF new, StatesFit, CorrectionTypeOK, CheckpointTypeOK, Marks
  <1>6. loop'[h] = new /\ \A g \in Writers \ {h} : loop'[g] = loop[g]
    BY <1>2 DEF new, StatesFit, CorrectionTypeOK
  <1>7. checkpoints[t] # <<>>
    BY <1>3, EmptySeq
  <1>8. plan[t] # Unplanned
    BY <1>7 DEF StatesFit, UnplannedAreNew
  <1>9. LoopFits(h)'
    <2>1. on # 0
      BY <1>1 DEF on
    <2>2. ~IsFirst(h)' /\ loop'[h].on # 0 /\ loop'[h].at \notin {"plan", "doubt"}
      BY <1>4, <1>6, <2>1 DEF IsFirst
    <2> QED
      BY <1>1, <1>3, <1>4, <1>6, <1>8, <2>2 DEF LoopFits
  <1>10. ASSUME NEW g \in Writers \ {h}, loop'[g] # Off PROVE LoopFits(g)'
    <2>1. loop'[g] = loop[g] /\ LoopFits(g) /\ IsFirst(g)' = IsFirst(g)
      BY <1>6, <1>10, Handlers DEF IsFirst
    <2>2. IsFirst(g) => loop[g].thread # t
      BY <1>7, <2>1 DEF LoopFits
    <2> QED
      BY <1>1, <1>4, <1>6, <2>1, <2>2 DEF LoopFits
  <1>11. SavesFit'
    BY <1>1, <1>6, Handlers DEF StatesFit, SavesFit, SaveFits
  <1>12. UnplannedAreNew'
    BY <1>1 DEF StatesFit, UnplannedAreNew
  <1> QED
    BY <1>1, <1>5, <1>9, <1>10, <1>11, <1>12, RowsStay DEF StatesFit, LoopsFit

LEMMA PlanSurelyFits ==
    ASSUME StatesFit, NEW h \in Writers, PlanSurely(h)
    PROVE  StatesFit' /\ OnlyTouches(h)
  <1> DEFINE t == loop[h].thread
  <1>1. /\ loop[h].at = "plan"
        /\ UNCHANGED <<checkpoints, saving, plan, changes, marks>>
    BY DEF PlanSurely
  <1>2. PICK op \in Changing : loop' = [loop EXCEPT ![h] = Loop("apply", t, 0, op, FALSE)]
    BY DEF PlanSurely, Moves
  <1>3. loop[h] # Off /\ t \in Threads /\ LoopFits(h)
    BY <1>1, Handlers
  <1>4. Loop("apply", t, 0, op, FALSE) \in Loops
    BY <1>3 DEF Loop, Loops
  <1>5. CorrectionTypeOK'
    BY <1>1, <1>2, <1>4 DEF StatesFit, CorrectionTypeOK, CheckpointTypeOK
  <1>6. /\ loop'[h] = Loop("apply", t, 0, op, FALSE)
        /\ \A g \in Writers \ {h} : loop'[g] = loop[g]
        /\ loop'[h].thread = t /\ loop'[h].on = 0 /\ loop'[h].at = "apply"
        /\ loop'[h].op \in Changing /\ loop'[h] # Off
    BY <1>2, <1>4, Handlers DEF StatesFit, CorrectionTypeOK, Loop
  <1>7. OnlyTouches(h)
    BY <1>1, <1>3, <1>6 DEF OnlyTouches
  <1>8. LoopFits(h)'
    <2>1. IsFirst(h) /\ loop[h].on = 0
      BY <1>1, <1>3 DEF IsFirst, LoopFits
    <2> QED
      BY <1>1, <1>3, <1>6, <2>1 DEF LoopFits
  <1>9. \A s \in saving'[h] : SaveFits(h, s)'
    BY <1>1, <1>6 DEF StatesFit, SavesFit, SaveFits
  <1> QED
    BY <1>3, <1>5, <1>7, <1>8, <1>9, <1>1, OwnSuffices, RowsStay

\* A new row that fits, saved or not, leaves a newest one among the saved.
LEMMA NewRowFits ==
    ASSUME StatesFit, NEW t \in Threads, NEW row \in Checkpoint,
           checkpoints' = [checkpoints EXCEPT ![t] = Append(@, row)],
           row.wrote = None,
           \/ row.node = "confirm" /\ row.value = None /\ checkpoints[t] = <<>>
           \/ row.node = "apply" /\ row.value \in Changing
           \/ row.node = "end" /\ row.value = None
    PROVE  HasLatest(t)' /\ \A i \in DOMAIN checkpoints'[t] : RowFits(t, i)'
  <1> DEFINE new == Len(checkpoints[t]) + 1
  <1>1. CheckpointTypeOK
    BY DEF StatesFit, CorrectionTypeOK
  <1>2. /\ Len(checkpoints[t]) \in Nat
        /\ DOMAIN checkpoints[t] = 1..Len(checkpoints[t])
        /\ DOMAIN checkpoints'[t] = DOMAIN checkpoints[t] \union {new}
        /\ checkpoints'[t][new] = row
        /\ \A i \in DOMAIN checkpoints[t] : checkpoints'[t][i] = checkpoints[t][i]
    BY <1>1, AppendDoes
  <1>3. ASSUME NEW i \in DOMAIN checkpoints'[t] PROVE RowFits(t, i)'
    <2>1. CASE i \in DOMAIN checkpoints[t]
      BY <1>2, <2>1 DEF StatesFit, RowsFit, RowFits
    <2>2. CASE i = new
      <3>1. checkpoints[t] = <<>> => new = 1
        BY EmptySeq
      <3> QED
        BY <1>2, <2>2, <3>1 DEF RowFits
    <2> QED
      BY <1>2, <2>1, <2>2
  <1>4. HasLatest(t)'
    <2>1. Saved(t)' = IF row.saved THEN Saved(t) \union {new} ELSE Saved(t)
      BY <1>2 DEF Saved
    <2>2. CASE row.saved
      <3>1. \A j \in Saved(t)' : j <= new
        BY <1>2, <2>1 DEF Saved
      <3> QED
        BY <2>1, <2>2, <3>1 DEF HasLatest
    <2>3. CASE ~row.saved
      BY <2>1, <2>3 DEF StatesFit, LatestExists, HasLatest
    <2> QED
      BY <2>2, <2>3
  <1> QED
    BY <1>3, <1>4

LEMMA AskFits ==
    ASSUME StatesFit, NEW h \in Writers, Ask(h)
    PROVE  StatesFit' /\ OnlyTouches(h)
  <1>0. loop[h].at \in {"plan", "doubt"} /\ loop[h] # Off
    BY Handlers DEF Ask
  <1>. PICK t \in Threads : t = loop[h].thread
    BY <1>0, Handlers
  <1> DEFINE row == NewCheckpoint("confirm", None, TRUE)
  <1>1. /\ loop[h].at \in {"plan", "doubt"}
        /\ checkpoints' = [checkpoints EXCEPT ![t] = Append(@, row)]
        /\ loop' = [loop EXCEPT ![h] = Off]
        /\ UNCHANGED <<saving, plan, changes, marks>>
    BY DEF Ask, Pause, Moves
  <1>2. /\ loop[h] # Off /\ t \in Threads /\ LoopFits(h)
        /\ checkpoints[t] = <<>> /\ saving[h] = {}
    BY <1>0, <1>1, Handlers DEF LoopFits, IsFirst
  <1>3. row \in Checkpoint /\ row.node = "confirm" /\ row.value = None /\ row.wrote = None
    BY DEF NewCheckpoint, Checkpoint
  <1> HIDE DEF row
  <1>4. CorrectionTypeOK'
    BY <1>1, <1>2, <1>3, AppendDoes
       DEF StatesFit, CorrectionTypeOK, CheckpointTypeOK
  <1>5. loop'[h] = Off /\ \A g \in Writers \ {h} : loop'[g] = loop[g]
    BY <1>1 DEF StatesFit, CorrectionTypeOK
  <1>6. OnlyTouches(h)
    <2>1. CheckpointTypeOK
      BY DEF StatesFit, CorrectionTypeOK
    <2>2. /\ \A u \in Threads \ {t} : checkpoints'[u] = checkpoints[u]
          /\ \A i \in DOMAIN checkpoints[t] :
                i \in DOMAIN checkpoints'[t] /\ checkpoints'[t][i] = checkpoints[t][i]
      BY <1>1, <1>2, <1>3, <2>1, AppendDoes
    <2> QED
      BY <1>1, <1>2, <1>5, <2>2 DEF OnlyTouches
  <1>7. HasLatest(t)' /\ \A i \in DOMAIN checkpoints'[t] : RowFits(t, i)'
    BY <1>1, <1>2, <1>3, NewRowFits
  <1> QED
    BY <1>1, <1>2, <1>4, <1>5, <1>6, <1>7, OwnSuffices

\* The end of a superstep: its rows, its saves, and nothing of other threads.
Stepped(h, t, on, outcome, node, value) ==
    LET new == Len(checkpoints[t]) + 1 IN
    /\ CheckpointTypeOK'
    /\ new # 0 /\ new \in Nat /\ new \notin DOMAIN checkpoints[t]
    /\ on # 0 /\ on \in Nat /\ on # new
    /\ DOMAIN checkpoints'[t] = DOMAIN checkpoints[t] \union {new}
    /\ Len(checkpoints'[t]) = new
    /\ checkpoints'[t][new] = NewCheckpoint(node, value, FALSE)
    /\ \A i \in DOMAIN checkpoints[t] : checkpoints'[t][i] = checkpoints[t][i]
    /\ \A u \in Threads \ {t} : checkpoints'[u] = checkpoints[u]
    /\ \A g \in Writers \ {h} : saving'[g] = saving[g]
    /\ saving'[h] = saving[h] \union
          {[thread |-> t, at |-> on, what |-> "writes", value |-> outcome],
           [thread |-> t, at |-> new, what |-> "checkpoint", value |-> None]}
    /\ HasLatest(t)' /\ \A i \in DOMAIN checkpoints'[t] : RowFits(t, i)'

LEMMA SuperstepDoes ==
    ASSUME StatesFit, NEW h \in Writers, NEW t \in Threads,
           NEW on \in DOMAIN checkpoints[t], NEW outcome \in Changing \union {"done"},
           NEW node \in {"apply", "end"}, NEW value \in Changing \union {None},
           \/ node = "apply" /\ value \in Changing
           \/ node = "end" /\ value = None,
           Superstep(h, t, on, outcome, node, value)
    PROVE  Stepped(h, t, on, outcome, node, value)
  <1> DEFINE row == NewCheckpoint(node, value, FALSE)
             new == Len(checkpoints[t]) + 1
             writes == [thread |-> t, at |-> on, what |-> "writes", value |-> outcome]
             last == [thread |-> t, at |-> new, what |-> "checkpoint", value |-> None]
  <1>1. /\ checkpoints' = [checkpoints EXCEPT ![t] = Append(@, row)]
        /\ saving' = [saving EXCEPT ![h] = @ \union {writes, last}]
    BY DEF Superstep
  <1>2. /\ row \in Checkpoint /\ row.node = node /\ row.value = value
        /\ row.wrote = None
    BY DEF NewCheckpoint, Checkpoint
  <1>3. CheckpointTypeOK
    BY DEF StatesFit, CorrectionTypeOK
  <1> HIDE DEF row
  <1>4. /\ checkpoints' \in [Threads -> Seq(Checkpoint)]
        /\ Len(checkpoints[t]) \in Nat /\ new # 0
        /\ DOMAIN checkpoints[t] = 1..Len(checkpoints[t])
        /\ DOMAIN checkpoints'[t] = DOMAIN checkpoints[t] \union {new}
        /\ new \notin DOMAIN checkpoints[t]
        /\ Len(checkpoints'[t]) = new
        /\ checkpoints'[t][new] = row
        /\ \A i \in DOMAIN checkpoints[t] : checkpoints'[t][i] = checkpoints[t][i]
        /\ \A u \in Threads \ {t} : checkpoints'[u] = checkpoints[u]
    BY <1>1, <1>2, <1>3, AppendDoes
  <1>5. HasLatest(t)' /\ \A i \in DOMAIN checkpoints'[t] : RowFits(t, i)'
    BY <1>1, <1>2, NewRowFits
  <1>6. on \in Nat /\ on # 0 /\ on # new
    BY <1>4
  <1>7. writes \in Saves /\ last \in Saves
    BY <1>4, <1>6 DEF Saves
  <1> HIDE DEF writes, last
  <1>8. /\ saving' \in [Writers -> SUBSET Saves]
        /\ \A g \in Writers \ {h} : saving'[g] = saving[g]
        /\ saving'[h] = saving[h] \union {writes, last}
    BY <1>1, <1>3, <1>7 DEF CheckpointTypeOK
  <1> QED
    BY <1>4, <1>5, <1>6, <1>8 DEF CheckpointTypeOK, row, writes, last, Stepped

\* The answer is taken: the next checkpoint is to apply it.
LEMMA ConfirmDoes ==
    ASSUME StatesFit, NEW h \in Writers, Confirm(h),
           NEW t \in Threads, t = loop[h].thread
    PROVE  LET on == loop[h].on
               op == loop[h].op
               new == Len(checkpoints[t]) + 1
           IN
           /\ loop[h] # Off /\ loop[h].at = "confirm"
           /\ on \in DOMAIN checkpoints[t] /\ checkpoints[t][on].node = "confirm"
           /\ op \in Changing
           /\ Superstep(h, t, on, op, "apply", op)
           /\ loop'[h] = Loop("apply", t, new, op, FALSE)
           /\ \A g \in Writers \ {h} : loop'[g] = loop[g]
           /\ loop' = [loop EXCEPT ![h] = Loop("apply", t, new, op, FALSE)]
           /\ UNCHANGED <<vars, plan, changes, marks>>
  <1>1. /\ loop[h].at = "confirm"
        /\ Superstep(h, t, loop[h].on, loop[h].op, "apply", loop[h].op)
        /\ loop' = [loop EXCEPT ![h] =
              Loop("apply", t, Len(checkpoints[t]) + 1, loop[h].op, FALSE)]
        /\ UNCHANGED <<vars, plan, changes, marks>>
    BY DEF Confirm, Moves
  <1>2. loop[h] # Off /\ LoopFits(h)
    BY <1>1, Handlers
  <1>3. loop \in [Writers -> Loops \union {Off}]
    BY DEF StatesFit, CorrectionTypeOK
  <1> QED
    BY <1>1, <1>2, <1>3 DEF LoopFits

LEMMA ConfirmFits ==
    ASSUME StatesFit, NEW h \in Writers, Confirm(h)
    PROVE  StatesFit' /\ OnlyTouches(h)
  <1>. PICK t \in Threads : t = loop[h].thread
    <2>1. loop[h].at = "confirm"
      BY DEF Confirm
    <2> QED
      BY <2>1, Handlers
  <1> DEFINE on == loop[h].on
             op == loop[h].op
             new == Len(checkpoints[t]) + 1
             to == Loop("apply", t, new, op, FALSE)
  <1>1. /\ loop[h] # Off /\ loop[h].at = "confirm"
        /\ on \in DOMAIN checkpoints[t] /\ checkpoints[t][on].node = "confirm"
        /\ op \in Changing
        /\ Superstep(h, t, on, op, "apply", op)
        /\ loop'[h] = to /\ loop' = [loop EXCEPT ![h] = to]
        /\ \A g \in Writers \ {h} : loop'[g] = loop[g]
        /\ UNCHANGED <<vars, plan, changes, marks>>
    BY ConfirmDoes
  <1>2. /\ CheckpointTypeOK'
        /\ new # 0 /\ new \in Nat /\ on # new
        /\ DOMAIN checkpoints'[t] = DOMAIN checkpoints[t] \union {new}
        /\ checkpoints'[t][new] = NewCheckpoint("apply", op, FALSE)
        /\ \A i \in DOMAIN checkpoints[t] : checkpoints'[t][i] = checkpoints[t][i]
        /\ \A u \in Threads \ {t} : checkpoints'[u] = checkpoints[u]
        /\ \A g \in Writers \ {h} : saving'[g] = saving[g]
        /\ saving'[h] = saving[h] \union
              {[thread |-> t, at |-> on, what |-> "writes", value |-> op],
               [thread |-> t, at |-> new, what |-> "checkpoint", value |-> None]}
        /\ HasLatest(t)' /\ \A i \in DOMAIN checkpoints'[t] : RowFits(t, i)'
    <2>1. /\ Superstep(h, t, on, op, "apply", op) /\ on \in DOMAIN checkpoints[t]
          /\ op \in Changing \union {"done"} /\ op \in Changing \union {None}
          /\ op \in Changing
      BY <1>1
    <2> HIDE DEF on, op
    <2>2. Stepped(h, t, on, op, "apply", op)
      BY <2>1, SuperstepDoes
    <2> QED
      BY <2>2 DEF Stepped
  <1>3. /\ to \in Loops /\ to.thread = t /\ to.on = new /\ to.at = "apply"
        /\ to.op = op /\ to # Off
    BY <1>1, <1>2 DEF Loop, Loops, Off
  <1>4. LoopFits(h)
    BY <1>1, Handlers
  <1> HIDE DEF on, op, new, to
  <1>5. CorrectionTypeOK'
    BY <1>1, <1>2, <1>3 DEF StatesFit, CorrectionTypeOK
  <1>6. OnlyTouches(h)
    BY <1>1, <1>2, <1>3 DEF OnlyTouches
  <1>7. checkpoints'[t][new].node = "apply"
    BY <1>2 DEF NewCheckpoint
  <1>8. LoopFits(h)'
    <2>1. ~IsFirst(h)' /\ loop'[h].on # 0 /\ loop'[h].op \in Changing
      BY <1>1, <1>2, <1>3 DEF IsFirst
    <2> QED
      BY <1>1, <1>2, <1>3, <1>4, <1>7, <2>1 DEF LoopFits
  <1>9. ASSUME NEW s \in saving'[h] PROVE SaveFits(h, s)'
    <2>1. CASE s \in saving[h]
      <3>1. SaveFits(h, s)
        BY <2>1 DEF StatesFit, SavesFit
      <3> QED
        BY <1>1, <1>2, <1>3, <3>1 DEF SaveFits
    <2>2. CASE s = [thread |-> t, at |-> on, what |-> "writes", value |-> op]
      BY <1>1, <1>2, <1>3, <2>2 DEF SaveFits
    <2>3. CASE s = [thread |-> t, at |-> new, what |-> "checkpoint", value |-> None]
      BY <1>1, <1>2, <1>3, <2>3 DEF SaveFits
    <2> QED
      BY <1>2, <1>9, <2>1, <2>2, <2>3
  <1> QED
    BY <1>2, <1>5, <1>6, <1>8, <1>9, OwnSuffices

\* The change is made: a last checkpoint says so, which is saved at once when
\* there was none before and will be otherwise.
Applied(h, t) ==
    LET on == loop[h].on
        new == Len(checkpoints[t]) + 1
        last == [thread |-> t, at |-> new, what |-> "checkpoint", value |-> None]
    IN
    /\ loop[h] # Off /\ loop[h].at = "apply" /\ loop[h].op \in Changing
    /\ plan' = plan
    /\ loop' = [loop EXCEPT ![h] = [loop[h] EXCEPT !.at = "exit", !.did = TRUE]]
    /\ loop'[h] = [loop[h] EXCEPT !.at = "exit", !.did = TRUE]
    /\ \A g \in Writers \ {h} : loop'[g] = loop[g]
    /\ changes'[t] = changes[t] + 1
    /\ \A u \in Threads \ {t} : changes'[u] = changes[u]
    /\ marks'[t] = marks[t]
    /\ \A u \in Threads : marks'[u] \in {marks[u], marks[u] \union {"stale"}}
    /\ CorrectionTypeOK'
    /\ new # 0 /\ new \in Nat /\ new \notin DOMAIN checkpoints[t]
    /\ DOMAIN checkpoints'[t] = DOMAIN checkpoints[t] \union {new}
    /\ Len(checkpoints'[t]) = new
    /\ \A i \in DOMAIN checkpoints[t] : checkpoints'[t][i] = checkpoints[t][i]
    /\ \A u \in Threads \ {t} : checkpoints'[u] = checkpoints[u]
    /\ \A g \in Writers \ {h} : saving'[g] = saving[g]
    /\ HasLatest(t)' /\ \A i \in DOMAIN checkpoints'[t] : RowFits(t, i)'
    /\ \/ /\ on = 0 /\ checkpoints[t] = <<>>
          /\ saving[h] = {} /\ saving'[h] = {}
          /\ checkpoints'[t][new] = NewCheckpoint("end", None, TRUE)
       \/ /\ on \in DOMAIN checkpoints[t] /\ on # 0
          /\ checkpoints[t][on].node = "apply"
          /\ checkpoints'[t][new] = NewCheckpoint("end", None, FALSE)
          /\ saving'[h] = saving[h] \union
               {[thread |-> t, at |-> on, what |-> "writes", value |-> "done"],
                last}

LEMMA ApplyDoes ==
    ASSUME StatesFit, NEW h \in Writers, Apply(h),
           NEW t \in Threads, t = loop[h].thread
    PROVE  Applied(h, t)
  <1> DEFINE on == loop[h].on
             new == Len(checkpoints[t]) + 1
             to == [loop[h] EXCEPT !.at = "exit", !.did = TRUE]
             last == [thread |-> t, at |-> new, what |-> "checkpoint", value |-> None]
  <1>1. /\ loop[h].at = "apply" /\ plan' = plan
        /\ IF on = 0 THEN Pause(t, "end", None)
           ELSE Superstep(h, t, on, "done", "end", None)
        /\ changes' = [changes EXCEPT ![t] = @ + 1]
        /\ marks' = [u \in Threads |->
              IF u \in Overtakes(t) THEN marks[u] \union {"stale"} ELSE marks[u]]
        /\ loop' = [loop EXCEPT ![h] = to]
    BY DEF Apply, Moves
  <1>2. /\ loop[h] # Off /\ LoopFits(h) /\ loop[h] \in Loops /\ loop[h].op \in Changing
    BY <1>1, Handlers DEF LoopFits
  <1>3. /\ loop \in [Writers -> Loops \union {Off}] /\ changes \in [Threads -> Nat]
        /\ marks \in [Threads -> SUBSET Marks] /\ CheckpointTypeOK
        /\ plan \in [Threads -> Plans \union {Unplanned}]
    BY DEF StatesFit, CorrectionTypeOK
  <1>4. to \in Loops
    BY <1>2 DEF Loops
  <1>5. /\ marks'[t] = marks[t]
        /\ \A u \in Threads : marks'[u] \in {marks[u], marks[u] \union {"stale"}}
    BY <1>1 DEF Overtakes
  <1>6. /\ CheckpointTypeOK'
        /\ new # 0 /\ new \in Nat /\ new \notin DOMAIN checkpoints[t]
        /\ DOMAIN checkpoints'[t] = DOMAIN checkpoints[t] \union {new}
        /\ Len(checkpoints'[t]) = new
        /\ \A i \in DOMAIN checkpoints[t] : checkpoints'[t][i] = checkpoints[t][i]
        /\ \A u \in Threads \ {t} : checkpoints'[u] = checkpoints[u]
        /\ \A g \in Writers \ {h} : saving'[g] = saving[g]
        /\ HasLatest(t)' /\ \A i \in DOMAIN checkpoints'[t] : RowFits(t, i)'
        /\ \/ /\ on = 0 /\ checkpoints[t] = <<>>
              /\ saving[h] = {} /\ saving'[h] = {}
              /\ checkpoints'[t][new] = NewCheckpoint("end", None, TRUE)
           \/ /\ on \in DOMAIN checkpoints[t] /\ on # 0
              /\ checkpoints[t][on].node = "apply"
              /\ checkpoints'[t][new] = NewCheckpoint("end", None, FALSE)
              /\ saving'[h] = saving[h] \union
                   {[thread |-> t, at |-> on, what |-> "writes", value |-> "done"], last}
    <2>1. CASE on = 0
      <3> DEFINE row == NewCheckpoint("end", None, TRUE)
      <3>1. /\ checkpoints' = [checkpoints EXCEPT ![t] = Append(@, row)]
            /\ saving' = saving
        BY <1>1, <2>1 DEF Pause
      <3>2. checkpoints[t] = <<>> /\ saving[h] = {}
        BY <1>1, <1>2, <2>1 DEF LoopFits, IsFirst
      <3>3. row \in Checkpoint /\ row.node = "end" /\ row.value = None /\ row.wrote = None
        BY DEF NewCheckpoint, Checkpoint
      <3> HIDE DEF row
      <3>4. HasLatest(t)' /\ \A i \in DOMAIN checkpoints'[t] : RowFits(t, i)'
        BY <3>1, <3>3, NewRowFits
      <3>5. /\ checkpoints' \in [Threads -> Seq(Checkpoint)]
            /\ Len(checkpoints[t]) \in Nat /\ new # 0 /\ new \notin DOMAIN checkpoints[t]
            /\ DOMAIN checkpoints'[t] = DOMAIN checkpoints[t] \union {new}
            /\ Len(checkpoints'[t]) = new
            /\ checkpoints'[t][new] = row
            /\ \A i \in DOMAIN checkpoints[t] : checkpoints'[t][i] = checkpoints[t][i]
            /\ \A u \in Threads \ {t} : checkpoints'[u] = checkpoints[u]
        BY <1>3, <3>1, <3>3, AppendDoes
      <3>6. CheckpointTypeOK' /\ saving'[h] = {} /\ \A g \in Writers \ {h} : saving'[g] = saving[g]
        BY <1>3, <3>1, <3>2, <3>5 DEF CheckpointTypeOK
      <3>7. new \in Nat
        BY <3>5
      <3> HIDE DEF on, new, to, last
      <3> QED
        BY <2>1, <3>2, <3>4, <3>5, <3>6, <3>7 DEF row
    <2>2. CASE on # 0
      <3>1. on \in DOMAIN checkpoints[t] /\ checkpoints[t][on].node = "apply"
        BY <1>1, <1>2, <2>2 DEF LoopFits
      <3>2. Superstep(h, t, on, "done", "end", None)
        BY <1>1, <2>2
      <3>3. "done" \in Changing \union {"done"} /\ None \in Changing \union {None}
        OBVIOUS
      <3>4. Stepped(h, t, on, "done", "end", None)
        BY <3>1, <3>2, <3>3, SuperstepDoes
      <3> QED
        BY <2>2, <3>1, <3>4 DEF Stepped
    <2> QED
      BY <2>1, <2>2
  <1>7. /\ loop'[h] = to /\ \A g \in Writers \ {h} : loop'[g] = loop[g]
        /\ changes'[t] = changes[t] + 1
        /\ \A u \in Threads \ {t} : changes'[u] = changes[u]
    BY <1>1, <1>3
  <1>8. CorrectionTypeOK'
    <2>1. loop' \in [Writers -> Loops \union {Off}]
      BY <1>1, <1>3, <1>4
    <2>2. changes' \in [Threads -> Nat] /\ marks' \in [Threads -> SUBSET Marks]
      BY <1>1, <1>3 DEF Marks
    <2> QED
      BY <1>1, <1>3, <1>6, <2>1, <2>2 DEF CorrectionTypeOK
  <1> QED
    BY <1>1, <1>2, <1>5, <1>6, <1>7, <1>8 DEF Applied

LEMMA ApplyFits ==
    ASSUME StatesFit, NEW h \in Writers, Apply(h)
    PROVE  StatesFit' /\ OnlyTouches(h)
  <1>. PICK t \in Threads : t = loop[h].thread
    <2>1. loop[h].at = "apply"
      BY DEF Apply
    <2> QED
      BY <2>1, Handlers
  <1> DEFINE on == loop[h].on
             new == Len(checkpoints[t]) + 1
             last == [thread |-> t, at |-> new, what |-> "checkpoint", value |-> None]
             done == [thread |-> t, at |-> on, what |-> "writes", value |-> "done"]
  <1>1. /\ loop[h] # Off /\ loop[h].at = "apply" /\ loop[h].op \in Changing
        /\ plan' = plan
        /\ loop'[h] = [loop[h] EXCEPT !.at = "exit", !.did = TRUE]
        /\ \A g \in Writers \ {h} : loop'[g] = loop[g] /\ saving'[g] = saving[g]
        /\ \A u \in Threads \ {t} : changes'[u] = changes[u]
        /\ \A u \in Threads : marks'[u] \in {marks[u], marks[u] \union {"stale"}}
        /\ CorrectionTypeOK'
        /\ new \notin DOMAIN checkpoints[t]
        /\ DOMAIN checkpoints'[t] = DOMAIN checkpoints[t] \union {new}
        /\ \A i \in DOMAIN checkpoints[t] : checkpoints'[t][i] = checkpoints[t][i]
        /\ \A u \in Threads \ {t} : checkpoints'[u] = checkpoints[u]
        /\ HasLatest(t)' /\ \A i \in DOMAIN checkpoints'[t] : RowFits(t, i)'
        /\ \/ on = 0 /\ saving'[h] = {}
           \/ /\ on \in DOMAIN checkpoints[t] /\ on # 0
              /\ checkpoints[t][on].node = "apply"
              /\ saving'[h] = saving[h] \union {done, last}
    <2>1. Applied(h, t)
      BY ApplyDoes
    <2> QED
      BY <2>1 DEF Applied
  <1>2. /\ loop[h] \in Loops /\ LoopFits(h)
        /\ loop'[h].thread = t /\ loop'[h].on = on /\ loop'[h].at = "exit"
        /\ loop'[h].op = loop[h].op /\ loop'[h] # Off
    BY <1>1, Handlers DEF Loops, Off
  <1> HIDE DEF new, on, last, done
  <1>3. OnlyTouches(h)
    BY <1>1, <1>2 DEF OnlyTouches
  <1>4. LoopFits(h)'
    <2>1. ~IsFirst(h)'
      BY <1>2 DEF IsFirst
    <2> QED
      BY <1>1, <1>2, <2>1 DEF LoopFits, on
  <1>5. ASSUME NEW s \in saving'[h] PROVE SaveFits(h, s)'
    <2>1. CASE s \in saving[h]
      <3>1. SaveFits(h, s)
        BY <2>1 DEF StatesFit, SavesFit
      <3> QED
        BY <1>1, <1>2, <3>1 DEF SaveFits
    <2>2. CASE on \in DOMAIN checkpoints[t] /\ checkpoints[t][on].node = "apply" /\ s = done
      BY <1>1, <1>2, <2>2 DEF SaveFits, done
    <2>3. CASE s = last
      BY <1>1, <1>2, <2>3 DEF SaveFits, last
    <2> QED
      BY <1>1, <1>5, <2>1, <2>2, <2>3
  <1> QED
    BY <1>1, <1>3, <1>4, <1>5, OwnSuffices

LEMMA ApplyFailsFits ==
    ASSUME StatesFit, NEW h \in Writers, ApplyFails(h)
    PROVE  StatesFit' /\ OnlyTouches(h)
  <1>1. /\ loop[h].at = "apply"
        /\ loop' = [loop EXCEPT ![h] = [loop[h] EXCEPT !.at = "exit"]]
        /\ UNCHANGED <<checkpoints, saving, plan, changes, marks>>
    BY DEF ApplyFails, Moves
  <1>. PICK t \in Threads : t = loop[h].thread
    BY <1>1, Handlers
  <1>2. loop[h] # Off /\ LoopFits(h) /\ loop[h] \in Loops
    BY <1>1, Handlers
  <1>3. [loop[h] EXCEPT !.at = "exit"] \in Loops
    BY <1>2 DEF Loops
  <1>4. CorrectionTypeOK'
    BY <1>1, <1>3 DEF StatesFit, CorrectionTypeOK, CheckpointTypeOK
  <1>5. /\ loop'[h] = [loop[h] EXCEPT !.at = "exit"]
        /\ \A g \in Writers \ {h} : loop'[g] = loop[g]
    BY <1>1 DEF StatesFit, CorrectionTypeOK
  <1>6. /\ loop'[h].thread = t /\ loop'[h].on = loop[h].on /\ loop'[h].at = "exit"
        /\ loop'[h].op = loop[h].op /\ loop'[h] # Off
    BY <1>2, <1>5 DEF Loops, Off
  <1>7. OnlyTouches(h)
    BY <1>1, <1>2, <1>5, <1>6 DEF OnlyTouches
  <1>8. LoopFits(h)'
    <2>1. ~IsFirst(h)'
      BY <1>6 DEF IsFirst
    <2> QED
      BY <1>1, <1>2, <1>6, <2>1 DEF LoopFits
  <1>9. \A s \in saving'[h] : SaveFits(h, s)'
    BY <1>1, <1>2, <1>6 DEF StatesFit, SavesFit, SaveFits
  <1> QED
    BY <1>1, <1>4, <1>7, <1>8, <1>9, OwnSuffices, RowsStay

LEMMA SaveFitsAll ==
    ASSUME StatesFit, NEW h \in Writers, SaveInBackground(h)
    PROVE  StatesFit' /\ OnlyTouches(h)
  <1>1. Save(h) /\ UNCHANGED <<plan, loop, changes, marks>>
    BY DEF SaveInBackground
  <1>2. PICK s \in saving[h] : Landed(h, s)
    BY <1>1, SaveDoes
  <1> USE DEF Landed
  <1>. PICK t \in Threads : t = s.thread
    BY <1>2
  <1>3. /\ saving \in [Writers -> SUBSET Saves]
        /\ loop[h] # Off /\ LoopFits(h) /\ SaveFits(h, s)
        /\ RowFits(t, s.at) /\ t = loop[h].thread
    BY <1>2, Handlers DEF StatesFit, CorrectionTypeOK, CheckpointTypeOK, SavesFit, RowsFit
  <1>4. /\ saving' \in [Writers -> SUBSET Saves]
        /\ saving'[h] = saving[h] \ {s}
        /\ \A g \in Writers \ {h} : saving'[g] = saving[g]
    BY <1>2, <1>3
  <1>5. CorrectionTypeOK'
    BY <1>1, <1>2, <1>4 DEF StatesFit, CorrectionTypeOK, CheckpointTypeOK
  <1>6. \A i \in DOMAIN checkpoints[t] :
           /\ i \in DOMAIN checkpoints'[t]
           /\ checkpoints'[t][i].node = checkpoints[t][i].node
           /\ checkpoints'[t][i].value = checkpoints[t][i].value
    BY <1>2
  <1>7. OnlyTouches(h)
    BY <1>1, <1>2, <1>3, <1>4, <1>6 DEF OnlyTouches
  <1>8. ASSUME NEW i \in DOMAIN checkpoints'[t] PROVE RowFits(t, i)'
    <2>1. i \in DOMAIN checkpoints[t] /\ RowFits(t, i)
      BY <1>2, <1>8 DEF StatesFit, RowsFit
    <2>2. CASE i # s.at
      BY <1>2, <2>1, <2>2 DEF RowFits
    <2>3. CASE i = s.at
      <3> DEFINE old == checkpoints[t][i]
                 new == checkpoints'[t][i]
      <3>1. new.node = old.node /\ new.value = old.value
        BY <1>2, <2>3
      <3>2. \/ new.wrote = old.wrote
            \/ old.node = "confirm" /\ new.wrote \in Changing
            \/ old.node = "apply" /\ new.wrote = "done"
        BY <1>2, <1>3, <2>3 DEF SaveFits
      <3> HIDE DEF old, new
      <3> QED
        BY <2>1, <3>1, <3>2 DEF RowFits, old, new
    <2> QED
      BY <2>2, <2>3
  <1>9. HasLatest(t)'
    <2>1. Saved(t)' = IF s.what = "checkpoint" THEN Saved(t) \union {s.at} ELSE Saved(t)
      <3>1. \A i \in DOMAIN checkpoints[t] :
               checkpoints'[t][i].saved
               <=> checkpoints[t][i].saved \/ (i = s.at /\ s.what = "checkpoint")
        BY <1>2
      <3> QED
        BY <1>2, <3>1 DEF Saved
    <2>2. \A i \in Saved(t) \union {s.at} : i \in Nat
      <3>1. DOMAIN checkpoints[t] = 1..Len(checkpoints[t]) /\ Len(checkpoints[t]) \in Nat
        BY LenProperties DEF StatesFit, CorrectionTypeOK, CheckpointTypeOK
      <3> QED
        BY <1>2, <3>1 DEF Saved
    <2>3. Saved(t) # {} => \E i \in Saved(t) : \A j \in Saved(t) : j <= i
      BY DEF StatesFit, LatestExists, HasLatest
    <2>4. \E i \in Saved(t) \union {s.at} : \A j \in Saved(t) \union {s.at} : j <= i
      <3>1. CASE Saved(t) = {}
        BY <2>2, <3>1
      <3>2. ASSUME NEW i \in Saved(t), \A j \in Saved(t) : j <= i
            PROVE  \E k \in Saved(t) \union {s.at} : \A j \in Saved(t) \union {s.at} : j <= k
        <4>1. CASE s.at <= i
          BY <2>2, <3>2, <4>1
        <4>2. CASE ~(s.at <= i)
          BY <2>2, <3>2, <4>2
        <4> QED
          BY <4>1, <4>2
      <3> QED
        BY <2>3, <3>1, <3>2
    <2> QED
      BY <2>1, <2>3, <2>4 DEF HasLatest
  <1>10. LoopFits(h)'
    <2>1. ~IsFirst(h)
      BY <1>2, <1>3, EmptySeq DEF LoopFits
    <2> QED
      BY <1>1, <1>3, <1>4, <1>6, <2>1 DEF LoopFits, IsFirst
  <1>11. ASSUME NEW r \in saving'[h] PROVE SaveFits(h, r)'
    <2>1. r \in saving[h] /\ SaveFits(h, r)
      BY <1>4, <1>11 DEF StatesFit, SavesFit
    <2> QED
      BY <1>1, <1>3, <1>6, <2>1 DEF SaveFits
  <1> QED
    BY <1>3, <1>5, <1>7, <1>8, <1>9, <1>10, <1>11, OwnSuffices

\* A handler that returns or is cut leaves nothing in the background.
LEMMA LeaveFits ==
    ASSUME StatesFit, NEW h \in Writers, loop[h] # Off,
           Moves(h, Off), LoseSaves(h), UNCHANGED <<plan, changes>>,
           marks' \in [Threads -> SUBSET Marks],
           \A u \in Threads : marks[u] \subseteq marks'[u]
    PROVE  StatesFit' /\ OnlyTouches(h) /\ saving'[h] = {} /\ loop'[h] = Off
  <1>. PICK t \in Threads : t = loop[h].thread
    BY Handlers
  <1>1. /\ loop' = [loop EXCEPT ![h] = Off] /\ saving' = [saving EXCEPT ![h] = {}]
        /\ checkpoints' = checkpoints
    BY DEF Moves, LoseSaves
  <1>2. CorrectionTypeOK'
    BY <1>1 DEF StatesFit, CorrectionTypeOK, CheckpointTypeOK
  <1>3. /\ loop'[h] = Off /\ saving'[h] = {}
        /\ \A g \in Writers \ {h} : loop'[g] = loop[g] /\ saving'[g] = saving[g]
    BY <1>1 DEF StatesFit, CorrectionTypeOK, CheckpointTypeOK
  <1>4. OnlyTouches(h)
    BY <1>1, <1>3 DEF OnlyTouches
  <1> QED
    BY <1>1, <1>2, <1>3, <1>4, OwnSuffices, RowsStay

LEMMA ReturnFits ==
    ASSUME StatesFit, NEW h \in Writers, Return(h)
    PROVE  StatesFit' /\ OnlyTouches(h)
  <1>1. loop[h] # Off
    BY Handlers DEF Return
  <1>2. marks' \in [Threads -> SUBSET Marks] /\ marks' = marks
    BY DEF Return, StatesFit, CorrectionTypeOK
  <1> QED
    BY <1>1, <1>2, LeaveFits DEF Return

LEMMA CutFits ==
    ASSUME StatesFit, NEW h \in Writers, Cut(h)
    PROVE  StatesFit' /\ OnlyTouches(h)
  <1>1. loop[h] # Off /\ Moves(h, Off) /\ LoseSaves(h) /\ UNCHANGED <<plan, changes>>
    BY DEF Cut
  <1>2. marks' = [marks EXCEPT ![loop[h].thread] =
           IF loop[h].did /\ ~ChangeIsSaved(loop[h].thread) THEN @ \union {"torn"} ELSE @]
    BY DEF Cut
  <1>3. /\ marks' \in [Threads -> SUBSET Marks]
        /\ \A u \in Threads : marks[u] \subseteq marks'[u]
    BY <1>2 DEF StatesFit, CorrectionTypeOK, Marks
  <1> QED
    BY <1>1, <1>3, LeaveFits

\* Every step of a handler that is running.
LEMMA StepsFit ==
    ASSUME StatesFit, NEW h \in Writers,
           \/ PlanSurely(h) \/ Ask(h) \/ Confirm(h) \/ Apply(h) \/ ApplyFails(h)
           \/ SaveInBackground(h) \/ Return(h) \/ Cut(h)
    PROVE  StatesFit' /\ OnlyTouches(h)
  BY PlanSurelyFits, AskFits, ConfirmFits, ApplyFits, ApplyFailsFits, SaveFitsAll,
     ReturnFits, CutFits

LEMMA AlwaysFit ==
    ASSUME TimelineInvariant, StatesFit, [CorrectionNext]_correctionVars
    PROVE  StatesFit'
  <1>1. CASE Elsewhere \/ UNCHANGED correctionVars
    BY <1>1, QuietFits DEF Elsewhere, correctionVars
  <1>2. ASSUME NEW h \in Writers, BeginApply(h) PROVE StatesFit'
    BY <1>2, QuietFits DEF BeginApply
  <1>3. ASSUME NEW h \in Writers, NEW t \in Threads, Identify(h, t) \/ Resume(h, t)
        PROVE  StatesFit'
    BY <1>3, IdentifyFits, ResumeFits
  <1> QED
    BY <1>1, <1>2, <1>3, StepsFit DEF CorrectionNext

-----------------------------------------------------------------------------
\* Races are marked

LEMMA RacesStayMarked ==
    ASSUME TimelineInvariant, StatesFit, RacesMarked, [CorrectionNext]_correctionVars
    PROVE  RacesMarked'
  <1>1. ASSUME UNCHANGED <<loop, marks>> PROVE RacesMarked'
    BY <1>1 DEF RacesMarked
  <1>2. ASSUME NEW h \in Writers, OnlyTouches(h) PROVE RacesMarked'
    <2>1. \A g \in Writers : loop'[g] # Off =>
             /\ loop[g] # Off /\ loop'[g].thread = loop[g].thread
             /\ loop[g].thread \in Threads
      BY <1>2, Handlers DEF OnlyTouches
    <2> QED
      BY <1>2, <2>1 DEF RacesMarked, OnlyTouches
  <1>3. ASSUME NEW h \in Writers, NEW t \in Threads, Identify(h, t) PROVE RacesMarked'
    <2>1. /\ \A g \in Writers \ {h} : loop'[g] = loop[g]
          /\ loop'[h].thread = t /\ marks' = marks
      BY <1>3 DEF Identify, Moves, Loop, StatesFit, CorrectionTypeOK
    <2>2. \A g \in Writers : loop[g] # Off => loop[g].thread # t
      BY <1>3 DEF Identify, StatesFit, LoopsFit, LoopFits
    <2> QED
      BY <2>1, <2>2 DEF RacesMarked
  <1>4. ASSUME NEW h \in Writers, NEW t \in Threads, Resume(h, t) PROVE RacesMarked'
    <2>1. /\ \A g \in Writers \ {h} : loop'[g] = loop[g]
          /\ loop'[h].thread = t /\ loop[h] = Off
      BY <1>4 DEF Resume, Moves, Loop, StatesFit, CorrectionTypeOK
    <2>2. /\ marks' = [marks EXCEPT ![t] =
                IF RunningOn(t) = {} THEN @ ELSE @ \union {"raced"}]
          /\ marks \in [Threads -> SUBSET Marks]
      BY <1>4 DEF Resume, StatesFit, CorrectionTypeOK
    <2>3. \A g \in Writers : loop[g] # Off /\ loop[g].thread = t => "raced" \in marks'[t]
      BY <2>2 DEF RunningOn
    <2>4. \A u \in Threads : marks[u] \subseteq marks'[u]
      BY <2>2
    <2>5. \A g \in Writers : loop[g] # Off => loop[g].thread \in Threads
      BY Handlers
    <2> QED
      BY <2>1, <2>3, <2>4, <2>5 DEF RacesMarked
  <1> QED
    BY <1>1, <1>2, <1>3, <1>4, StepsFit
       DEF CorrectionNext, Elsewhere, BeginApply, correctionVars

-----------------------------------------------------------------------------
\* The change is made once

\* The greatest of a set of numbers is its choice.
LEMMA GreatestIsChosen ==
    ASSUME NEW S, NEW i \in S, i \in Nat, S \subseteq Nat, \A j \in S : j <= i
    PROVE  (CHOOSE k \in S : \A j \in S : j <= k) = i
  <1>1. \A k \in S : (\A j \in S : j <= k) => k = i
    OBVIOUS
  <1> QED
    BY <1>1

\* What is saved of a thread depends on its own rows.
LEMMA SavedStays ==
    ASSUME NEW t \in Threads, checkpoints'[t] = checkpoints[t]
    PROVE  /\ Saved(t)' = Saved(t) /\ Latest(t)' = Latest(t)
           /\ ChangeIsSaved(t)' <=> ChangeIsSaved(t)
           /\ \A i : Said(t, i)' = Said(t, i)
  <1>1. Saved(t)' = Saved(t)
    BY DEF Saved
  <1>2. Latest(t)' = Latest(t)
    BY <1>1 DEF Latest
  <1> QED
    BY <1>1, <1>2 DEF ChangeIsSaved, Said, IsApplied

\* A saved end is the newest checkpoint when it is the last one.
LEMMA SavedEndTells ==
    ASSUME StatesFit, NEW t \in Threads,
           Len(checkpoints[t]) # 0,
           checkpoints[t][Len(checkpoints[t])].node = "end",
           checkpoints[t][Len(checkpoints[t])].saved
    PROVE  ChangeIsSaved(t)
  <1> DEFINE last == Len(checkpoints[t])
  <1>1. /\ DOMAIN checkpoints[t] = 1..last /\ last \in Nat
        /\ Saved(t) \subseteq DOMAIN checkpoints[t]
        /\ \A i \in Saved(t) : (\A j \in Saved(t) : j <= i) => Latest(t) = i
    BY LatestDoes DEF StatesFit, CorrectionTypeOK
  <1>2. last \in Saved(t)
    BY <1>1 DEF Saved
  <1>3. Latest(t) = last
    BY <1>1, <1>2
  <1> QED
    BY <1>3 DEF ChangeIsSaved, IsApplied

\* Other threads are not touched.
LEMMA OthersOnce ==
    ASSUME StatesFit, NEW h \in Writers, OnlyTouches(h),
           NEW u \in Threads, loop[h].thread # u
    PROVE  Once(u) => Once(u)'
  <1>1. /\ checkpoints'[u] = checkpoints[u] /\ changes'[u] = changes[u]
        /\ marks[u] \subseteq marks'[u]
    BY DEF OnlyTouches
  <1>2. \A g \in Writers :
           /\ g \in RunningOn(u)' <=> g \in RunningOn(u)
           /\ g \in RunningOn(u) => loop'[g] = loop[g] /\ saving'[g] = saving[g]
    BY DEF RunningOn, OnlyTouches
  <1>3. RunningOn(u)' = RunningOn(u)
    BY <1>2 DEF RunningOn
  <1>4. ChangeIsSaved(u)' <=> ChangeIsSaved(u)
    BY <1>1, SavedStays
  <1>5. ASSUME NEW g \in RunningOn(u), EndIsComing(g) PROVE EndIsComing(g)'
    <2>1. loop'[g] = loop[g] /\ saving'[g] = saving[g] /\ loop[g].thread = u
      BY <1>2 DEF RunningOn
    <2> QED
      BY <1>1, <1>5, <2>1 DEF EndIsComing
  <1>6. RunningOn(u) \subseteq Writers
    BY DEF RunningOn
  <1> QED
    BY <1>1, <1>2, <1>3, <1>4, <1>5, <1>6 DEF Once

\* The only handler of an unraced thread.
LEMMA OnlyHandler ==
    ASSUME RacesMarked, NEW h \in Writers, loop[h] # Off,
           "raced" \notin marks[loop[h].thread]
    PROVE  RunningOn(loop[h].thread) = {h}
  BY DEF RacesMarked, RunningOn

\* The handler's own thread, for a step after which the handler is off.
LEMMA LeavingOnce ==
    ASSUME NEW t \in Threads, RunningOn(t)' = {}, changes'[t] \in Nat,
           marks'[t] \intersect {"torn", "raced"} = {} =>
              \/ changes'[t] = 0
              \/ changes'[t] = 1 /\ ChangeIsSaved(t)'
    PROVE  Once(t)'
  BY DEF Once

\* And for one after which it goes on alone.
LEMMA GoingOnOnce ==
    ASSUME NEW t \in Threads, NEW h \in Writers, RunningOn(t)' = {h},
           \/ changes'[t] = 0 /\ ~loop'[h].did
           \/ changes'[t] = 1 /\ loop'[h].did /\ EndIsComing(h)'
    PROVE  Once(t)'
  BY DEF Once

LEMMA OwnOnce ==
    ASSUME StatesFit, StatesFit', RacesMarked, RacesMarked',
           NEW h \in Writers, NEW t \in Threads, OnlyTouches(h),
           t = loop[h].thread, Once(t),
           \/ PlanSurely(h) \/ Ask(h) \/ Confirm(h) \/ Apply(h) \/ ApplyFails(h)
           \/ SaveInBackground(h) \/ Return(h) \/ Cut(h)
    PROVE  Once(t)'
  <1>1. SUFFICES ASSUME marks'[t] \intersect {"torn", "raced"} = {} PROVE Once(t)'
    BY DEF Once
  <1>2. /\ loop[h] # Off /\ marks[t] \intersect {"torn", "raced"} = {}
        /\ RunningOn(t) = {h}
        /\ ~loop[h].did => changes[t] = 0
        /\ loop[h].did => EndIsComing(h)
        /\ changes[t] \in Nat /\ changes[t] <= 1 /\ changes'[t] \in Nat
        /\ LoopFits(h) /\ loop[h] \in Loops
        /\ \A g \in Writers : loop[g] # Off /\ loop[g].thread = t => g = h
    <2>1. loop[h] # Off /\ marks[t] \intersect {"torn", "raced"} = {}
      BY <1>1 DEF OnlyTouches
    <2>2. RunningOn(t) = {h}
      BY <2>1, OnlyHandler
    <2> QED
      BY <2>1, <2>2, Handlers DEF Once, StatesFit, CorrectionTypeOK, RunningOn
  <1>3. loop'[h] = Off => RunningOn(t)' = {}
    BY <1>2 DEF OnlyTouches, RunningOn
  <1>4. loop'[h] # Off => RunningOn(t)' = {h}
    BY <1>2 DEF OnlyTouches, RunningOn
  <1>5. loop \in [Writers -> Loops \union {Off}]
    BY DEF StatesFit, CorrectionTypeOK
  <1>6. CASE PlanSurely(h) \/ Confirm(h)
    <2>1. loop[h].at \in {"plan", "confirm"} /\ changes' = changes
      BY <1>6 DEF PlanSurely, Confirm
    <2>2. changes[t] = 0
      BY <1>2, <2>1 DEF EndIsComing
    <2>3. ~loop'[h].did /\ loop'[h].at = "apply"
      BY <1>5, <1>6 DEF PlanSurely, Confirm, Moves, Loop
    <2>4. loop'[h] # Off
      BY <2>3 DEF Off
    <2> QED
      BY <1>4, <2>1, <2>2, <2>3, <2>4, GoingOnOnce
  <1>7. CASE Ask(h)
    <2>1. loop[h].at # "exit" /\ changes' = changes /\ loop'[h] = Off
      BY <1>5, <1>7 DEF Ask, Moves
    <2>2. changes[t] = 0
      BY <1>2, <2>1 DEF EndIsComing
    <2> QED
      BY <1>2, <1>3, <2>1, <2>2, LeavingOnce
  <1>8. CASE Apply(h)
    <2>1. Applied(h, t)
      BY <1>8, ApplyDoes
    <2> DEFINE new == Len(checkpoints[t]) + 1
    <2>2. /\ loop[h].at = "apply" /\ changes'[t] = changes[t] + 1
          /\ loop'[h] = [loop[h] EXCEPT !.at = "exit", !.did = TRUE]
          /\ Len(checkpoints'[t]) = new /\ new # 0
          /\ \/ checkpoints'[t][new] = NewCheckpoint("end", None, TRUE)
             \/ /\ checkpoints'[t][new] = NewCheckpoint("end", None, FALSE)
                /\ [thread |-> t, at |-> new, what |-> "checkpoint", value |-> None]
                      \in saving'[h]
      BY <2>1 DEF Applied
    <2>3. changes[t] = 0
      BY <1>2, <2>2 DEF EndIsComing
    <2>4. /\ loop'[h].at = "exit" /\ loop'[h].did /\ loop'[h].thread = t
          /\ loop'[h] # Off
      BY <1>2, <2>2 DEF Loops, Off
    <2> HIDE DEF new
    <2>5. EndIsComing(h)'
      BY <2>2, <2>4 DEF EndIsComing, NewCheckpoint
    <2>6. changes'[t] = 1 /\ RunningOn(t)' = {h}
      BY <1>4, <2>2, <2>3, <2>4
    <2> QED
      BY <2>4, <2>5, <2>6, GoingOnOnce
  <1>9. CASE ApplyFails(h)
    <2>1. /\ loop[h].at = "apply" /\ changes' = changes
          /\ loop'[h] = [loop[h] EXCEPT !.at = "exit"]
      BY <1>5, <1>9 DEF ApplyFails, Moves
    <2>2. changes[t] = 0 /\ ~loop[h].did
      BY <1>2, <2>1 DEF EndIsComing
    <2>3. ~loop'[h].did /\ loop'[h] # Off
      BY <1>2, <2>1, <2>2 DEF Loops, Off
    <2> QED
      BY <1>4, <2>1, <2>2, <2>3, GoingOnOnce
  <1>10. CASE SaveInBackground(h)
    <2>1. Save(h) /\ UNCHANGED <<loop, changes>>
      BY <1>10 DEF SaveInBackground
    <2>. PICK s \in saving[h] : Landed(h, s)
      BY <2>1, SaveDoes
    <2>2. /\ s.thread = t /\ s.at \in DOMAIN checkpoints[t]
          /\ saving' = [saving EXCEPT ![h] = @ \ {s}]
          /\ Len(checkpoints'[t]) = Len(checkpoints[t])
          /\ \A i \in DOMAIN checkpoints[t] : i # s.at =>
                checkpoints'[t][i] = checkpoints[t][i]
          /\ checkpoints'[t][s.at].node = checkpoints[t][s.at].node
          /\ checkpoints'[t][s.at].saved
                = (checkpoints[t][s.at].saved \/ s.what = "checkpoint")
      BY DEF Landed
    <2>3. CASE ~loop[h].did
      BY <1>2, <1>4, <2>1, <2>3, GoingOnOnce
    <2>4. CASE loop[h].did
      <3> DEFINE last == Len(checkpoints[t])
      <3>1. /\ loop[h].at = "exit" /\ last # 0 /\ checkpoints[t][last].node = "end"
            /\ \/ checkpoints[t][last].saved
               \/ \E r \in saving[h] : r.what = "checkpoint" /\ r.at = last
        BY <1>2, <2>4 DEF EndIsComing
      <3>2. last \in DOMAIN checkpoints[t]
        BY <3>1, LatestDoes DEF StatesFit, CorrectionTypeOK
      <3>3. saving'[h] = saving[h] \ {s}
        BY <2>2 DEF StatesFit, CorrectionTypeOK, CheckpointTypeOK
      <3>4. checkpoints'[t][last].node = "end"
        BY <2>2, <3>1, <3>2
      <3>5. \/ checkpoints'[t][last].saved
            \/ \E r \in saving'[h] : r.what = "checkpoint" /\ r.at = last
        <4>1. CASE s.at = last /\ s.what = "checkpoint"
          BY <2>2, <4>1
        <4>2. CASE ~(s.at = last /\ s.what = "checkpoint")
          BY <2>2, <3>1, <3>2, <3>3, <4>2
        <4> QED
          BY <4>1, <4>2
      <3>6. EndIsComing(h)'
        BY <2>1, <2>2, <3>1, <3>4, <3>5 DEF EndIsComing
      <3>7. changes[t] # 0 => changes[t] = 1
        BY <1>2
      <3>8. CASE changes[t] = 0
        BY <1>1, <1>4, <1>2, <2>1, <2>4, <3>6, <3>8 DEF Once
      <3> QED
        BY <1>2, <1>4, <2>1, <2>4, <3>6, <3>7, <3>8, GoingOnOnce
    <2> QED
      BY <2>3, <2>4
  <1>11. CASE Return(h)
    <2>1. /\ saving[h] = {} /\ loop'[h] = Off /\ changes' = changes
          /\ checkpoints' = checkpoints
      BY <1>5, <1>11 DEF Return, AllSaved, Moves, LoseSaves
    <2>2. loop[h].did => ChangeIsSaved(t)
      BY <1>2, <2>1, SavedEndTells DEF EndIsComing
    <2>3. ChangeIsSaved(t)' <=> ChangeIsSaved(t)
      BY <2>1, SavedStays
    <2> QED
      BY <1>2, <1>3, <2>1, <2>2, <2>3, LeavingOnce
  <1>12. CASE Cut(h)
    <2>1. /\ loop'[h] = Off /\ changes' = changes /\ checkpoints' = checkpoints
          /\ marks' = [marks EXCEPT ![t] =
                IF loop[h].did /\ ~ChangeIsSaved(t) THEN @ \union {"torn"} ELSE @]
      BY <1>5, <1>12 DEF Cut, Moves, LoseSaves
    <2>2. loop[h].did => ChangeIsSaved(t)
      BY <1>1, <2>1 DEF StatesFit, CorrectionTypeOK
    <2>3. ChangeIsSaved(t)' <=> ChangeIsSaved(t)
      BY <2>1, SavedStays
    <2> QED
      BY <1>2, <1>3, <2>1, <2>2, <2>3, LeavingOnce
  <1> QED
    BY <1>6, <1>7, <1>8, <1>9, <1>10, <1>11, <1>12

\* A handler that starts on a thread: what it finds there, and what it leaves
\* alone.
StartsOn(h, t) ==
    /\ loop[h] = Off /\ UNCHANGED <<checkpoints, saving, changes>>
    /\ loop'[h] \in Loops /\ loop'[h].thread = t /\ ~loop'[h].did /\ loop'[h] # Off
    /\ \A g \in Writers \ {h} : loop'[g] = loop[g]
    /\ \A u \in Threads \ {t} : marks'[u] = marks[u] /\ plan'[u] = plan[u]
    /\ \A u \in Threads : marks[u] \subseteq marks'[u]

LEMMA IdentifyStarts ==
    ASSUME StatesFit, StatesFit', NEW h \in Writers, NEW t \in Threads, Identify(h, t)
    PROVE  /\ StartsOn(h, t) /\ marks' = marks
           /\ RunningOn(t) = {} /\ changes[t] = 0 /\ checkpoints[t] = <<>>
           /\ loop'[h].on = 0
  <1>1. /\ loop[h] = Off /\ plan[t] = Unplanned
        /\ UNCHANGED <<checkpoints, saving, changes, marks>>
    BY DEF Identify
  <1>2. /\ \A g \in Writers \ {h} : loop'[g] = loop[g]
        /\ loop'[h].thread = t /\ ~loop'[h].did /\ loop'[h].on = 0
        /\ loop'[h].at \in {"plan", "doubt"}
        /\ \A u \in Threads \ {t} : plan'[u] = plan[u]
    BY DEF Identify, Moves, Loop, StatesFit, CorrectionTypeOK
  <1>3. loop'[h] # Off
    BY <1>2 DEF Off
  <1>4. loop'[h] \in Loops
    BY <1>3 DEF StatesFit, CorrectionTypeOK
  <1>5. RunningOn(t) = {}
    BY <1>1 DEF StatesFit, LoopsFit, LoopFits, RunningOn
  <1> QED
    BY <1>1, <1>2, <1>3, <1>4, <1>5 DEF StartsOn, StatesFit, UnplannedAreNew

LEMMA ResumeStarts ==
    ASSUME StatesFit, StatesFit', NEW h \in Writers, NEW t \in Threads, Resume(h, t)
    PROVE  LET on == Latest(t)
               row == checkpoints[t][on] IN
           /\ StartsOn(h, t) /\ plan' = plan
           /\ "raced" \notin marks'[t] => RunningOn(t) = {}
           /\ ~ChangeIsSaved(t) /\ on \in Saved(t) /\ on # 0
           /\ \A j \in Saved(t) : j <= on
           /\ loop'[h].on = on
           /\ \/ row.node = "confirm" /\ row.wrote = None
              \/ /\ row.node = "confirm" /\ row.wrote \in Changing
                 /\ loop'[h].op = row.wrote
              \/ /\ row.node = "apply" /\ row.value \in Changing
                 /\ loop'[h].op = row.value
           /\ loop'[h].op \in Changing
  <1> DEFINE on == Latest(t)
             row == checkpoints[t][on]
  <1>1. /\ loop[h] = Off /\ on # 0 /\ ~IsApplied(row)
        /\ UNCHANGED <<checkpoints, saving, plan, changes>>
        /\ marks' = [marks EXCEPT ![t] =
                        IF RunningOn(t) = {} THEN @ ELSE @ \union {"raced"}]
        /\ marks \in [Threads -> SUBSET Marks]
    BY DEF Resume, StatesFit, CorrectionTypeOK
  <1>2. PICK reply \in Replies :
           loop' = [loop EXCEPT ![h] =
              IF row.node = "confirm" THEN Loop("confirm", t, on, Confirmed(row, reply), FALSE)
              ELSE Loop("apply", t, on, row.value, FALSE)]
    BY DEF Resume, Moves
  <1>3. /\ on \in Saved(t) /\ on \in DOMAIN checkpoints[t] /\ RowFits(t, on)
        /\ \A j \in Saved(t) : j <= on
    BY <1>1, LatestDoes DEF StatesFit, RowsFit, CorrectionTypeOK
  <1>4. ~ChangeIsSaved(t)
    BY <1>1 DEF ChangeIsSaved
  <1> HIDE DEF on
  <1>5. /\ \A g \in Writers \ {h} : loop'[g] = loop[g]
        /\ loop'[h].thread = t /\ ~loop'[h].did /\ loop'[h].on = on
        /\ loop'[h].at \in {"confirm", "apply"}
        /\ loop'[h].op = IF row.node = "confirm" THEN Confirmed(row, reply) ELSE row.value
    BY <1>2 DEF Loop, StatesFit, CorrectionTypeOK
  <1>6. loop'[h] # Off
    BY <1>5 DEF Off
  <1>7. loop'[h] \in Loops /\ LoopFits(h)'
    BY <1>6 DEF StatesFit, CorrectionTypeOK, LoopsFit
  <1>8. loop'[h].op \in Changing
    BY <1>5, <1>7 DEF LoopFits
  <1>9. \/ row.node = "confirm" /\ row.wrote = None
        \/ /\ row.node = "confirm" /\ row.wrote \in Changing
           /\ loop'[h].op = row.wrote
        \/ /\ row.node = "apply" /\ row.value \in Changing
           /\ loop'[h].op = row.value
    BY <1>1, <1>3, <1>5 DEF RowFits, IsApplied, Confirmed
  <1>10. StartsOn(h, t)
    BY <1>1, <1>5, <1>6, <1>7 DEF StartsOn
  <1>11. "raced" \notin marks'[t] => RunningOn(t) = {}
    BY <1>1
  <1> QED
    BY <1>1, <1>3, <1>4, <1>5, <1>8, <1>9, <1>10, <1>11 DEF on

\* Threads on which nobody starts stay as they are.
LEMMA StartElsewhere ==
    ASSUME StatesFit, NEW h \in Writers, NEW t \in Threads, StartsOn(h, t),
           NEW u \in Threads \ {t}
    PROVE  (Once(u) => Once(u)') /\ (OneAnswer(u) => OneAnswer(u)')
  <1>1. /\ RunningOn(u)' = RunningOn(u) /\ RunningOn(u) \subseteq Writers \ {h}
        /\ \A g \in RunningOn(u) : loop'[g] = loop[g]
    BY DEF StartsOn, RunningOn
  <1>2. checkpoints' = checkpoints /\ saving' = saving /\ changes' = changes
    BY DEF StartsOn
  <1>3. /\ ChangeIsSaved(u)' <=> ChangeIsSaved(u)
        /\ Saved(u)' = Saved(u) /\ \A i : Said(u, i)' = Said(u, i)
    BY <1>2, SavedStays
  <1>4. \A g \in RunningOn(u) : EndIsComing(g) => EndIsComing(g)'
    BY <1>1, <1>2 DEF EndIsComing
  <1>5. \A g \in RunningOn(u) : ActsOnAnswer(g) => ActsOnAnswer(g)'
    <2>1. \A g \in RunningOn(u) : loop[g].thread = u
      BY DEF RunningOn
    <2> QED
      BY <1>1, <1>2, <1>3, <2>1 DEF ActsOnAnswer
  <1>6. marks'[u] = marks[u]
    BY DEF StartsOn
  <1> QED
    BY <1>1, <1>2, <1>3, <1>4, <1>5, <1>6 DEF Once, OneAnswer

LEMMA OnceAlways ==
    ASSUME TimelineInvariant, StatesFit, StatesFit', RacesMarked, RacesMarked',
           \A t \in Threads : Once(t), [CorrectionNext]_correctionVars
    PROVE  \A t \in Threads : Once(t)'
  <1>1. ASSUME UNCHANGED <<checkpoints, saving, loop, changes, marks>>
        PROVE  \A t \in Threads : Once(t)'
    <2>1. \A t \in Threads : ChangeIsSaved(t)' <=> ChangeIsSaved(t)
      BY <1>1, SavedStays
    <2> QED
      BY <1>1, <2>1 DEF Once, RunningOn, EndIsComing
  <1>2. ASSUME NEW h \in Writers,
               \/ PlanSurely(h) \/ Ask(h) \/ Confirm(h) \/ Apply(h) \/ ApplyFails(h)
               \/ SaveInBackground(h) \/ Return(h) \/ Cut(h)
        PROVE  \A t \in Threads : Once(t)'
    <2>1. OnlyTouches(h)
      BY <1>2, StepsFit
    <2> QED
      BY <1>2, <2>1, OthersOnce, OwnOnce
  <1>3. ASSUME NEW h \in Writers, NEW t \in Threads, StartsOn(h, t),
               marks'[t] \intersect {"torn", "raced"} = {} =>
                  RunningOn(t) = {} /\ changes[t] = 0
        PROVE  \A u \in Threads : Once(u)'
    <2>1. Once(t)'
      <3>1. RunningOn(t) = {} => RunningOn(t)' = {h}
        BY <1>3 DEF StartsOn, RunningOn
      <3>2. ~loop'[h].did /\ changes' = changes
        BY <1>3 DEF StartsOn
      <3> QED
        BY <1>3, <3>1, <3>2, GoingOnOnce DEF Once
    <2> QED
      BY <1>3, <2>1, StartElsewhere
  <1>4. ASSUME NEW h \in Writers, NEW t \in Threads, Identify(h, t)
        PROVE  \A u \in Threads : Once(u)'
    BY <1>3, <1>4, IdentifyStarts
  <1>5. ASSUME NEW h \in Writers, NEW t \in Threads, Resume(h, t)
        PROVE  \A u \in Threads : Once(u)'
    <2>1. /\ StartsOn(h, t) /\ ~ChangeIsSaved(t)
          /\ "raced" \notin marks'[t] => RunningOn(t) = {}
      BY <1>5, ResumeStarts
    <2>2. marks[t] \subseteq marks'[t] /\ changes[t] \in Nat
      BY <2>1 DEF StartsOn, StatesFit, CorrectionTypeOK
    <2>3. marks'[t] \intersect {"torn", "raced"} = {} =>
             RunningOn(t) = {} /\ changes[t] = 0
      BY <2>1, <2>2 DEF Once
    <2> QED
      BY <1>3, <2>1, <2>3
  <1> QED
    BY <1>1, <1>2, <1>4, <1>5 DEF CorrectionNext, Elsewhere, BeginApply, correctionVars

-----------------------------------------------------------------------------
\* The first answer holds

Agree(t) == \A i, j \in Saved(t) : \A a \in Said(t, i), b \in Said(t, j) : a = b

\* What a thread's checkpoints say when one was added.
LEMMA NewRowSays ==
    ASSUME NEW t, NEW new,
           DOMAIN checkpoints'[t] = DOMAIN checkpoints[t] \union {new},
           new \notin DOMAIN checkpoints[t],
           \A i \in DOMAIN checkpoints[t] : checkpoints'[t][i] = checkpoints[t][i]
    PROVE  /\ Saved(t) \subseteq DOMAIN checkpoints[t]
           /\ Saved(t)' \subseteq Saved(t) \union {new}
           /\ ~checkpoints'[t][new].saved => Saved(t)' = Saved(t)
           /\ \A i \in DOMAIN checkpoints[t] : Said(t, i)' = Said(t, i)
           /\ Said(t, new)' = {checkpoints'[t][new].wrote, checkpoints'[t][new].value}
                                 \intersect Changing
  BY DEF Saved, Said

LEMMA OthersAnswer ==
    ASSUME StatesFit, NEW h \in Writers, OnlyTouches(h),
           NEW u \in Threads, loop[h].thread # u
    PROVE  OneAnswer(u) => OneAnswer(u)'
  <1>1. /\ checkpoints'[u] = checkpoints[u] /\ marks[u] \subseteq marks'[u]
    BY DEF OnlyTouches
  <1>2. /\ RunningOn(u)' = RunningOn(u)
        /\ \A g \in RunningOn(u) : /\ loop'[g] = loop[g] /\ saving'[g] = saving[g]
                                   /\ loop[g].thread = u
    BY DEF RunningOn, OnlyTouches
  <1>3. Saved(u)' = Saved(u) /\ \A i : Said(u, i)' = Said(u, i)
    BY <1>1, SavedStays
  <1>4. \A g \in RunningOn(u) : ActsOnAnswer(g) => ActsOnAnswer(g)'
    BY <1>2, <1>3 DEF ActsOnAnswer
  <1> QED
    BY <1>1, <1>2, <1>3, <1>4 DEF OneAnswer

\* The handler's own thread, when it goes on with the answer it acts on.
LEMMA GoingOnAnswer ==
    ASSUME NEW t \in Threads, NEW h \in Writers, RunningOn(t)' = {h},
           Agree(t)', loop'[h].on # 0 => ActsOnAnswer(h)'
    PROVE  OneAnswer(t)'
  BY DEF OneAnswer, Agree

LEMMA OwnAnswer ==
    ASSUME StatesFit, StatesFit', RacesMarked, RacesMarked',
           NEW h \in Writers, NEW t \in Threads, OnlyTouches(h),
           t = loop[h].thread, OneAnswer(t),
           \/ PlanSurely(h) \/ Ask(h) \/ Confirm(h) \/ Apply(h) \/ ApplyFails(h)
           \/ SaveInBackground(h) \/ Return(h) \/ Cut(h)
    PROVE  OneAnswer(t)'
  <1>1. SUFFICES ASSUME "raced" \notin marks'[t] PROVE OneAnswer(t)'
    BY DEF OneAnswer
  <1>2. /\ loop[h] # Off /\ RunningOn(t) = {h}
        /\ loop[h].on # 0 => ActsOnAnswer(h)
        /\ Agree(t)
        /\ LoopFits(h) /\ loop[h] \in Loops
        /\ \A g \in Writers : loop[g] # Off /\ loop[g].thread = t => g = h
    <2>1. loop[h] # Off /\ "raced" \notin marks[t]
      BY <1>1 DEF OnlyTouches
    <2>2. RunningOn(t) = {h}
      BY <2>1, OnlyHandler
    <2> QED
      BY <2>1, <2>2, Handlers DEF OneAnswer, RunningOn, Agree
  <1>3. loop'[h] = Off => RunningOn(t)' = {}
    BY <1>2 DEF OnlyTouches, RunningOn
  <1>4. loop'[h] # Off => RunningOn(t)' = {h}
    BY <1>2 DEF OnlyTouches, RunningOn
  <1>5. loop \in [Writers -> Loops \union {Off}]
    BY DEF StatesFit, CorrectionTypeOK
  <1>6. CASE PlanSurely(h)
    <2>1. /\ loop'[h].on = 0 /\ loop'[h].at = "apply" /\ checkpoints' = checkpoints
      BY <1>5, <1>6 DEF PlanSurely, Moves, Loop
    <2>2. Agree(t)' /\ loop'[h] # Off
      BY <1>2, <2>1, SavedStays DEF Agree, Off
    <2> QED
      BY <1>4, <2>1, <2>2, GoingOnAnswer
  <1>7. CASE Ask(h)
    <2>1. /\ loop[h].at \in {"plan", "doubt"} /\ loop'[h] = Off
          /\ checkpoints' = [checkpoints EXCEPT
                ![t] = Append(@, NewCheckpoint("confirm", None, TRUE))]
      BY <1>5, <1>7 DEF Ask, Moves, Pause
    <2>2. checkpoints[t] = <<>>
      BY <1>2, <2>1 DEF LoopFits, IsFirst
    <2>3. checkpoints'[t] = <<NewCheckpoint("confirm", None, TRUE)>>
      <3>1. checkpoints \in [Threads -> Seq(Checkpoint)]
        BY DEF StatesFit, CorrectionTypeOK, CheckpointTypeOK
      <3>2. checkpoints'[t] = Append(<<>>, NewCheckpoint("confirm", None, TRUE))
        BY <2>1, <2>2, <3>1
      <3> QED
        BY <3>2
    <2>4. ASSUME NEW i \in Saved(t)' PROVE Said(t, i)' = {}
      <3>1. i = 1
        <4>1. DOMAIN checkpoints'[t] = {1}
          BY <2>3
        <4> QED
          BY <4>1 DEF Saved
      <3>2. checkpoints'[t][1].wrote = None /\ checkpoints'[t][1].value = None
        BY <2>3 DEF NewCheckpoint
      <3> QED
        BY <3>1, <3>2, WordsDiffer DEF Said
    <2> QED
      BY <1>3, <2>1, <2>4 DEF OneAnswer
  <1>8. CASE Confirm(h)
    <2> PICK on, op, new : /\ on = loop[h].on /\ op = loop[h].op
                           /\ new = Len(checkpoints[t]) + 1
      OBVIOUS
    <2>1. /\ on \in DOMAIN checkpoints[t] /\ op \in Changing
          /\ Superstep(h, t, on, op, "apply", op)
          /\ loop'[h] = Loop("apply", t, new, op, FALSE)
      BY <1>8, ConfirmDoes
    <2>2. Stepped(h, t, on, op, "apply", op)
      <3>1. /\ Superstep(h, t, on, op, "apply", op) /\ on \in DOMAIN checkpoints[t]
            /\ op \in Changing \union {"done"} /\ op \in Changing \union {None}
            /\ op \in Changing
        BY <2>1
      <3> QED
        BY <3>1, SuperstepDoes
    <2>3. /\ on # 0
          /\ DOMAIN checkpoints'[t] = DOMAIN checkpoints[t] \union {new}
          /\ checkpoints'[t][new] = NewCheckpoint("apply", op, FALSE)
          /\ \A i \in DOMAIN checkpoints[t] : checkpoints'[t][i] = checkpoints[t][i]
          /\ new \notin DOMAIN checkpoints[t]
          /\ saving'[h] = saving[h] \union
              {[thread |-> t, at |-> on, what |-> "writes", value |-> op],
               [thread |-> t, at |-> new, what |-> "checkpoint", value |-> None]}
      BY <2>2 DEF Stepped
    <2>4. ActsOnAnswer(h)
      BY <1>2, <2>3
    <2>5. /\ loop'[h].thread = t /\ loop'[h].op = op /\ loop'[h] # Off
          /\ \A s \in saving[h] : s.thread = t /\ s.at \in DOMAIN checkpoints[t]
      BY <1>2, <2>1 DEF Loop, Off, StatesFit, SavesFit, SaveFits
    <2>6. /\ Saved(t)' = Saved(t) /\ Saved(t) \subseteq DOMAIN checkpoints[t]
          /\ \A i \in DOMAIN checkpoints[t] : Said(t, i)' = Said(t, i)
          /\ Said(t, new)' \subseteq {op}
      <3>1. /\ ~checkpoints'[t][new].saved /\ checkpoints'[t][new].wrote = None
            /\ checkpoints'[t][new].value = op
        BY <2>3 DEF NewCheckpoint
      <3>2. Said(t, new)' = {None, op} \intersect Changing
        BY <3>1 DEF Said
      <3>3. Saved(t)' = Saved(t) /\ Saved(t) \subseteq DOMAIN checkpoints[t]
        BY <2>3, <3>1, NewRowSays
      <3>4. \A i \in DOMAIN checkpoints[t] : Said(t, i)' = Said(t, i)
        BY <2>3, NewRowSays
      <3> QED
        BY <3>2, <3>3, <3>4, WordsDiffer
    <2>7. \A i \in Saved(t)' : Said(t, i)' \subseteq {op}
      BY <2>4, <2>6 DEF ActsOnAnswer
    <2>8. ASSUME NEW s \in saving'[h]
          PROVE  /\ s.value \in {op, "done", None}
                 /\ s.what = "checkpoint" => Said(t, s.at)' \subseteq {op}
      <3>1. CASE s \in saving[h]
        BY <2>4, <2>5, <2>6, <3>1 DEF ActsOnAnswer
      <3>2. CASE s = [thread |-> t, at |-> on, what |-> "writes", value |-> op]
        BY <3>2
      <3>3. CASE s = [thread |-> t, at |-> new, what |-> "checkpoint", value |-> None]
        <4>1. s.at = new /\ s.value = None
          BY <3>3
        <4> QED
          BY <2>6, <4>1
      <3> QED
        BY <2>3, <2>8, <3>1, <3>2, <3>3
    <2>9. ActsOnAnswer(h)'
      BY <2>5, <2>7, <2>8 DEF ActsOnAnswer
    <2>10. Agree(t)'
      BY <2>7 DEF Agree
    <2> QED
      BY <1>4, <2>5, <2>9, <2>10, GoingOnAnswer
  <1>9. CASE Apply(h)
    <2> PICK on, op, new : /\ on = loop[h].on /\ op = loop[h].op
                           /\ new = Len(checkpoints[t]) + 1
      OBVIOUS
    <2>1. Applied(h, t)
      BY <1>9, ApplyDoes
    <2>2. /\ loop[h].at = "apply" /\ op \in Changing
          /\ loop'[h] = [loop[h] EXCEPT !.at = "exit", !.did = TRUE]
          /\ DOMAIN checkpoints'[t] = DOMAIN checkpoints[t] \union {new}
          /\ new \notin DOMAIN checkpoints[t]
          /\ \A i \in DOMAIN checkpoints[t] : checkpoints'[t][i] = checkpoints[t][i]
          /\ \/ on = 0 /\ checkpoints'[t][new] = NewCheckpoint("end", None, TRUE)
             \/ /\ on # 0
                /\ checkpoints'[t][new] = NewCheckpoint("end", None, FALSE)
                /\ saving'[h] = saving[h] \union
                     {[thread |-> t, at |-> on, what |-> "writes", value |-> "done"],
                      [thread |-> t, at |-> new, what |-> "checkpoint", value |-> None]}
      BY <2>1 DEF Applied
    <2>3. /\ loop'[h].thread = t /\ loop'[h].op = op /\ loop'[h].on = on
          /\ loop'[h] # Off
      BY <1>2, <2>2 DEF Loops, Off
    <2>11. \A s \in saving[h] : s.thread = t /\ s.at \in DOMAIN checkpoints[t]
      BY DEF StatesFit, SavesFit, SaveFits
    <2>4. /\ Saved(t)' \subseteq Saved(t) \union {new}
          /\ Saved(t) \subseteq DOMAIN checkpoints[t]
          /\ \A i \in DOMAIN checkpoints[t] : Said(t, i)' = Said(t, i)
          /\ Said(t, new)' = {}
      <3>1. /\ checkpoints'[t][new].wrote = None
            /\ checkpoints'[t][new].value = None
        BY <2>2 DEF NewCheckpoint
      <3>2. Said(t, new)' = {}
        BY <2>2, <3>1, NewRowSays, WordsDiffer
      <3> QED
        BY <2>2, <3>2, NewRowSays
    <2>12. \A i \in Saved(t)' : \/ i \in Saved(t) /\ Said(t, i)' = Said(t, i)
                                \/ Said(t, i)' = {}
      BY <2>4
    <2>5. Agree(t)'
      BY <1>2, <2>12 DEF Agree
    <2>6. ASSUME on # 0 PROVE ActsOnAnswer(h)'
      <3>1. ActsOnAnswer(h)
        BY <1>2, <2>6
      <3>2. \A i \in Saved(t)' : Said(t, i)' \subseteq {op}
        <4>1. \A i \in Saved(t) : Said(t, i) \subseteq {op}
          BY <3>1 DEF ActsOnAnswer
        <4> QED
          BY <2>12, <4>1
      <3>3. ASSUME NEW s \in saving'[h]
            PROVE  /\ s.value \in {op, "done", None}
                   /\ s.what = "checkpoint" => Said(t, s.at)' \subseteq {op}
        <4>1. CASE s \in saving[h]
          BY <2>11, <2>4, <3>1, <4>1 DEF ActsOnAnswer
        <4>2. CASE s = [thread |-> t, at |-> on, what |-> "writes", value |-> "done"]
          BY <4>2
        <4>3. CASE s = [thread |-> t, at |-> new, what |-> "checkpoint", value |-> None]
          <5>1. s.at = new /\ s.value = None
            BY <4>3
          <5> QED
            BY <2>4, <5>1
        <4> QED
          BY <2>2, <2>6, <3>3, <4>1, <4>2, <4>3
      <3> QED
        BY <2>3, <3>2, <3>3 DEF ActsOnAnswer
    <2> QED
      BY <1>4, <2>3, <2>5, <2>6, GoingOnAnswer
  <1>10. CASE ApplyFails(h)
    <2>1. /\ loop'[h] = [loop[h] EXCEPT !.at = "exit"]
          /\ UNCHANGED <<checkpoints, saving>>
      BY <1>5, <1>10 DEF ApplyFails, Moves
    <2>2. /\ loop'[h].thread = t /\ loop'[h].op = loop[h].op
          /\ loop'[h].on = loop[h].on /\ loop'[h] # Off
      BY <1>2, <2>1 DEF Loops, Off
    <2>3. Agree(t)' /\ (loop[h].on # 0 => ActsOnAnswer(h)')
      BY <1>2, <2>1, <2>2, SavedStays DEF Agree, ActsOnAnswer
    <2> QED
      BY <1>4, <2>2, <2>3, GoingOnAnswer
  <1>11. CASE SaveInBackground(h)
    <2> DEFINE op == loop[h].op
    <2>1. Save(h) /\ loop' = loop
      BY <1>11 DEF SaveInBackground
    <2>. PICK s \in saving[h] : Landed(h, s)
      BY <2>1, SaveDoes
    <2>2. /\ s.thread = t /\ s.at \in DOMAIN checkpoints[t] /\ s \in Saves
          /\ saving' = [saving EXCEPT ![h] = @ \ {s}]
          /\ DOMAIN checkpoints'[t] = DOMAIN checkpoints[t]
          /\ \A i \in DOMAIN checkpoints[t] : i # s.at =>
                checkpoints'[t][i] = checkpoints[t][i]
          /\ checkpoints'[t][s.at].value = checkpoints[t][s.at].value
          /\ checkpoints'[t][s.at].saved
                = (checkpoints[t][s.at].saved \/ s.what = "checkpoint")
          /\ checkpoints'[t][s.at].wrote
                = IF s.what = "writes" /\ checkpoints[t][s.at].wrote = None
                  THEN s.value ELSE checkpoints[t][s.at].wrote
      BY DEF Landed
    <2>3. loop[h].on # 0 /\ ActsOnAnswer(h)
      BY <1>2 DEF LoopFits
    <2>4. s.value \in {op, "done", None}
      BY <2>3 DEF ActsOnAnswer
    <2>5. saving'[h] = saving[h] \ {s}
      BY <2>2 DEF StatesFit, CorrectionTypeOK, CheckpointTypeOK
    <2>6. \A i \in DOMAIN checkpoints[t] : Said(t, i)' \subseteq Said(t, i) \union {op}
      BY <2>2, <2>4, WordsDiffer DEF Said
    <2>7. \A i \in Saved(t)' : Said(t, i)' \subseteq {op}
      <3>1. ASSUME NEW i \in Saved(t)' PROVE Said(t, i) \subseteq {op}
        <4>1. i \in DOMAIN checkpoints[t]
          BY <2>2 DEF Saved
        <4>2. CASE i \in Saved(t)
          BY <2>3, <4>2 DEF ActsOnAnswer
        <4>3. CASE i \notin Saved(t)
          <5>1. i = s.at /\ s.what = "checkpoint"
            BY <2>2, <4>1, <4>3 DEF Saved
          <5> QED
            BY <2>3, <5>1 DEF ActsOnAnswer
        <4> QED
          BY <4>2, <4>3
      <3> QED
        BY <2>2, <2>6, <3>1 DEF Saved
    <2>8. ASSUME NEW r \in saving'[h]
          PROVE  /\ r.value \in {op, "done", None}
                 /\ r.what = "checkpoint" => Said(t, r.at)' \subseteq {op}
      <3>1. r \in saving[h] /\ r.at \in DOMAIN checkpoints[t]
        BY <1>2, <2>5, <2>8 DEF StatesFit, SavesFit, SaveFits
      <3> QED
        BY <2>3, <2>6, <3>1 DEF ActsOnAnswer
    <2>9. ActsOnAnswer(h)'
      BY <2>1, <2>7, <2>8 DEF ActsOnAnswer
    <2>10. Agree(t)'
      BY <2>7 DEF Agree
    <2> QED
      BY <1>2, <1>4, <2>1, <2>9, <2>10, GoingOnAnswer
  <1>12. CASE Return(h) \/ Cut(h)
    <2>1. loop'[h] = Off /\ checkpoints' = checkpoints
      BY <1>5, <1>12 DEF Return, Cut, Moves, LoseSaves
    <2>2. Agree(t)'
      BY <1>2, <2>1, SavedStays DEF Agree
    <2> QED
      BY <1>3, <2>1, <2>2 DEF OneAnswer, Agree
  <1> QED
    BY <1>6, <1>7, <1>8, <1>9, <1>10, <1>11, <1>12

LEMMA ResumeAnswer ==
    ASSUME StatesFit, StatesFit', NEW h \in Writers, NEW t \in Threads,
           Resume(h, t), OneAnswer(t)
    PROVE  OneAnswer(t)'
  <1>1. SUFFICES ASSUME "raced" \notin marks'[t] PROVE OneAnswer(t)'
    BY DEF OneAnswer
  <1> PICK on, op : on = Latest(t) /\ op = loop'[h].op
    OBVIOUS
  <1>2. /\ StartsOn(h, t) /\ RunningOn(t) = {}
        /\ on \in Saved(t) /\ \A j \in Saved(t) : j <= on
        /\ \/ checkpoints[t][on].node = "confirm" /\ checkpoints[t][on].wrote = None
           \/ /\ checkpoints[t][on].node = "confirm"
              /\ checkpoints[t][on].wrote \in Changing /\ op = checkpoints[t][on].wrote
           \/ /\ checkpoints[t][on].node = "apply"
              /\ checkpoints[t][on].value \in Changing /\ op = checkpoints[t][on].value
    BY <1>1, ResumeStarts
  <1>3. /\ checkpoints' = checkpoints /\ saving' = saving /\ loop[h] = Off
        /\ loop'[h].thread = t /\ "raced" \notin marks[t] /\ loop'[h] # Off
        /\ \A g \in Writers \ {h} : loop'[g] = loop[g]
    BY <1>1, <1>2 DEF StartsOn
  <1>4. Agree(t) /\ saving[h] = {}
    BY <1>3 DEF OneAnswer, Agree, StatesFit, SavesFit, SaveFits
  <1>5. RunningOn(t)' = {h}
    BY <1>2, <1>3 DEF RunningOn
  <1>6. \A i \in Saved(t) : Said(t, i) \subseteq {op}
    <2>1. CASE checkpoints[t][on].node = "confirm" /\ checkpoints[t][on].wrote = None
      <3>1. RowFits(t, on) /\ DOMAIN checkpoints[t] = 1..Len(checkpoints[t])
        BY <1>2, LatestDoes DEF StatesFit, RowsFit, CorrectionTypeOK, Saved
      <3>2. on = 1 /\ checkpoints[t][1].value = None
        BY <2>1, <3>1 DEF RowFits
      <3>3. \A i \in Saved(t) : i = 1
        BY <1>2, <3>1, <3>2 DEF Saved
      <3>4. Said(t, 1) = {}
        BY <2>1, <3>2, WordsDiffer DEF Said
      <3> QED
        BY <3>3, <3>4
    <2>2. CASE op \in Changing /\ op \in Said(t, on)
      BY <1>2, <1>4, <2>2 DEF Agree
    <2> QED
      BY <1>2, <2>1, <2>2 DEF Said
  <1>7. Agree(t)' /\ ActsOnAnswer(h)'
    BY <1>3, <1>4, <1>6, SavedStays DEF Agree, ActsOnAnswer
  <1> QED
    BY <1>5, <1>7, GoingOnAnswer

LEMMA AnswerAlways ==
    ASSUME TimelineInvariant, StatesFit, StatesFit', RacesMarked, RacesMarked',
           \A t \in Threads : OneAnswer(t), [CorrectionNext]_correctionVars
    PROVE  \A t \in Threads : OneAnswer(t)'
  <1>1. ASSUME UNCHANGED <<checkpoints, saving, loop, changes, marks>>
        PROVE  \A t \in Threads : OneAnswer(t)'
    BY <1>1, SavedStays DEF OneAnswer, RunningOn, ActsOnAnswer
  <1>2. ASSUME NEW h \in Writers,
               \/ PlanSurely(h) \/ Ask(h) \/ Confirm(h) \/ Apply(h) \/ ApplyFails(h)
               \/ SaveInBackground(h) \/ Return(h) \/ Cut(h)
        PROVE  \A t \in Threads : OneAnswer(t)'
    <2>1. OnlyTouches(h)
      BY <1>2, StepsFit
    <2>2. PICK t : t = loop[h].thread
      OBVIOUS
    <2>3. t \in Threads
      BY <2>1, <2>2, Handlers DEF OnlyTouches
    <2>4. OneAnswer(t)'
      BY <1>2, <2>1, <2>2, <2>3, OwnAnswer
    <2> QED
      BY <2>1, <2>2, <2>4, OthersAnswer
  <1>3. ASSUME NEW h \in Writers, NEW t \in Threads, Identify(h, t)
        PROVE  \A u \in Threads : OneAnswer(u)'
    <2>1. /\ StartsOn(h, t) /\ marks' = marks /\ RunningOn(t) = {}
          /\ loop'[h].on = 0
      BY <1>3, IdentifyStarts
    <2>2. RunningOn(t)' = {h} /\ checkpoints' = checkpoints
      BY <2>1 DEF StartsOn, RunningOn
    <2>3. ASSUME "raced" \notin marks'[t] PROVE OneAnswer(t)'
      <3>1. Agree(t)'
        BY <2>1, <2>2, <2>3, SavedStays DEF Agree, OneAnswer
      <3> QED
        BY <2>1, <2>2, <3>1, GoingOnAnswer
    <2>4. OneAnswer(t)'
      BY <2>3 DEF OneAnswer
    <2> QED
      BY <2>1, <2>4, StartElsewhere
  <1>4. ASSUME NEW h \in Writers, NEW t \in Threads, Resume(h, t)
        PROVE  \A u \in Threads : OneAnswer(u)'
    <2>1. StartsOn(h, t)
      BY <1>4, ResumeStarts
    <2>2. OneAnswer(t)'
      BY <1>4, ResumeAnswer
    <2> QED
      BY <2>1, <2>2, StartElsewhere
  <1> QED
    BY <1>1, <1>2, <1>3, <1>4
       DEF CorrectionNext, Elsewhere, BeginApply, correctionVars

-----------------------------------------------------------------------------
\* Who corrects what

LEMMA JobsAlwaysFit ==
    ASSUME TimelineInvariant, StatesFit, JobsFit, [CorrectionNext]_correctionVars
    PROVE  JobsFit'
  <1>1. ASSUME UNCHANGED <<job, loop, plan>> PROVE JobsFit'
    BY <1>1 DEF JobsFit
  <1>2. /\ job \in [Writers -> Jobs \union {Idle}]
        /\ loop \in [Writers -> Loops \union {Off}]
    BY DEF TimelineInvariant, TypeOK, StatesFit, CorrectionTypeOK
  <1>3. ASSUME NEW h \in Writers, plan' = plan,
               \A g \in Writers \ {h} : loop'[g] = loop[g] /\ job'[g] = job[g],
               job'[h] = Idle
        PROVE  JobsFit'
    BY <1>3 DEF JobsFit
  <1>4. ASSUME NEW h \in Writers, PlanSurely(h) \/ Ask(h) \/ Confirm(h) \/ Return(h)
        PROVE  JobsFit'
    <2>1. loop[h].at # "apply" /\ UNCHANGED <<job, plan>>
      BY <1>4 DEF PlanSurely, Ask, Confirm, Return, vars
    <2>2. job[h] = Idle
      BY <2>1 DEF JobsFit
    <2>3. OnlyTouches(h)
      BY <1>4, StepsFit
    <2> QED
      BY <1>3, <2>1, <2>2, <2>3 DEF OnlyTouches
  <1>5. ASSUME NEW h \in Writers, Apply(h) \/ ApplyFails(h) \/ Cut(h)
        PROVE  JobsFit'
    <2>1. OnlyTouches(h)
      BY <1>5, StepsFit
    <2>2. Finished(h) \/ (job' = job /\ job[h] = Idle)
      BY <1>5 DEF Apply, ApplyFails, Cut, Correct, Supersede, RollBack, vars
    <2>3. job'[h] = Idle /\ \A g \in Writers \ {h} : job'[g] = job[g]
      BY <1>2, <2>2 DEF Finished
    <2> QED
      BY <1>3, <2>1, <2>3 DEF OnlyTouches
  <1>6. ASSUME NEW h \in Writers, BeginApply(h) PROVE JobsFit'
    <2>1. /\ UNCHANGED <<loop, plan>> /\ loop[h].at = "apply"
          /\ job'[h].op = loop[h].op /\ job'[h].id = plan[loop[h].thread].target
      BY <1>6 DEF BeginApply, ReadTarget
    <2>2. \A g \in Writers \ {h} : job'[g] = job[g]
      BY <1>2, <1>6 DEF BeginApply, ReadTarget, ReadFact
    <2>3. loop[h] # Off
      BY <2>1 DEF Off
    <2> QED
      BY <2>1, <2>2, <2>3 DEF JobsFit
  <1>7. ASSUME NEW h \in Writers, NEW t \in Threads, Identify(h, t) \/ Resume(h, t)
        PROVE  JobsFit'
    <2>1. job' = job /\ loop[h] = Off
      BY <1>7 DEF Identify, Resume, vars
    <2>2. \A g \in Writers \ {h} : loop'[g] = loop[g]
      BY <1>7, <1>2 DEF Identify, Resume, Moves
    <2>3. job[h] = Idle
      BY <2>1 DEF JobsFit
    <2>4. ASSUME NEW g \in Writers, loop[g] # Off
          PROVE  plan'[loop[g].thread] = plan[loop[g].thread]
      <3>1. loop[g].thread \in Threads /\ plan[loop[g].thread] # Unplanned
        BY <2>4, Handlers DEF LoopFits
      <3>2. CASE Resume(h, t)
        BY <3>2 DEF Resume
      <3>3. CASE Identify(h, t)
        <4>1. plan[t] = Unplanned
          BY <3>3 DEF Identify
        <4>2. \A u \in Threads \ {t} : plan'[u] = plan[u]
          BY <3>3 DEF Identify, StatesFit, CorrectionTypeOK
        <4> QED
          BY <3>1, <4>1, <4>2
      <3> QED
        BY <1>7, <3>2, <3>3
    <2> QED
      BY <2>1, <2>2, <2>3, <2>4 DEF JobsFit
  <1>8. CASE Elsewhere \/ UNCHANGED correctionVars
    BY <1>1, <1>8 DEF Elsewhere, Tick, BeginCommit, CommitFact, AbandonCommit, correctionVars, vars
  <1>9. ASSUME NEW h \in Writers, SaveInBackground(h) PROVE JobsFit'
    BY <1>1, <1>9 DEF SaveInBackground, vars
  <1> QED
    BY <1>4, <1>5, <1>6, <1>7, <1>8, <1>9 DEF CorrectionNext

\* No step clears a mark, takes back a change or plans a thread again.
LEMMA PlansStay ==
    ASSUME TimelineInvariant, StatesFit, [CorrectionNext]_correctionVars,
           NEW t \in Threads
    PROVE  /\ marks[t] \subseteq marks'[t]
           /\ changes'[t] = 0 => changes[t] = 0
           /\ plan'[t] = plan[t] \/ \E h \in Writers : Identify(h, t)
  <1>1. /\ plan \in [Threads -> Plans \union {Unplanned}]
        /\ changes \in [Threads -> Nat] /\ marks \in [Threads -> SUBSET Marks]
    BY DEF StatesFit, CorrectionTypeOK
  <1>2. CASE UNCHANGED <<plan, changes, marks>>
    BY <1>2
  <1>3. ASSUME NEW h \in Writers,
               \/ PlanSurely(h) \/ Ask(h) \/ Confirm(h) \/ Apply(h) \/ ApplyFails(h)
               \/ SaveInBackground(h) \/ Return(h) \/ Cut(h)
        PROVE  /\ marks[t] \subseteq marks'[t] /\ plan' = plan
               /\ changes'[t] = 0 => changes[t] = 0
    <2>1. OnlyTouches(h)
      BY <1>3, StepsFit
    <2>2. changes'[t] = changes[t] \/ changes'[t] = changes[t] + 1
      BY <1>1, <1>3 DEF PlanSurely, Ask, Confirm, Apply, ApplyFails,
                        SaveInBackground, Return, Cut
    <2> QED
      BY <1>1, <2>1, <2>2 DEF OnlyTouches
  <1>4. ASSUME NEW h \in Writers, NEW u \in Threads, Identify(h, u)
        PROVE  /\ marks' = marks /\ changes' = changes
               /\ u # t => plan'[t] = plan[t]
    BY <1>1, <1>4 DEF Identify
  <1>5. ASSUME NEW h \in Writers, NEW u \in Threads, Resume(h, u)
        PROVE  changes' = changes /\ plan' = plan /\ marks[t] \subseteq marks'[t]
    BY <1>1, <1>5 DEF Resume
  <1> QED
    BY <1>2, <1>3, <1>4, <1>5
       DEF CorrectionNext, Elsewhere, BeginApply, correctionVars

LEMMA ForkedStays ==
    ASSUME TimelineInvariant, StatesFit, [CorrectionNext]_correctionVars,
           NEW t \in Threads, Forked(t)
    PROVE  Forked(t)' /\ plan'[t].target = plan[t].target
  <1>1. plan[t] # Unplanned
    BY DEF Forked, Unplanned
  <1>2. plan'[t] = plan[t]
    BY <1>1, PlansStay DEF Identify
  <1> QED
    BY <1>2, PlansStay DEF Forked

\* A new fact that corrects another was inserted by a thread about that one.
LEMMA NewFixIsApplied ==
    ASSUME TimelineInvariant, StatesFit, JobsFit, FixesStand,
           [CorrectionNext]_correctionVars,
           NEW a \in DOMAIN facts' \ DOMAIN facts, facts'[a].fixes # Null
    PROVE  /\ a = NewId
           /\ \E h \in Writers : Apply(h) /\ facts'[a].fixes = plan[loop[h].thread].target
  <1>1. /\ a = NewId
        /\ \E w \in Writers : Correct(w) /\ facts'[a].fixes = job[w].id
    BY DEF FixesStand
  <1>. PICK w \in Writers : Correct(w) /\ facts'[a].fixes = job[w].id
    BY <1>1
  <1>2. /\ job \in [Writers -> Jobs \union {Idle}] /\ job[w] # Idle
        /\ job'[w] = Idle
    BY DEF TimelineInvariant, TypeOK, Correct, Finished, Idle
  <1>3. loop[w].at = "apply" /\ job[w].id = plan[loop[w].thread].target
    BY <1>2 DEF JobsFit
  <1>4. facts' # facts
    BY DEF TimelineInvariant, TypeOK
  <1>5. ~ UNCHANGED job
    BY <1>2
  <1>6. ASSUME NEW h \in Writers, Apply(h) PROVE h = w
    <2>1. Finished(h)
      BY <1>6 DEF Apply, Correct, Supersede
    <2> QED
      BY <1>2, <2>1 DEF Finished
  <1>7. \E h \in Writers : Apply(h)
    BY <1>4, <1>5 DEF CorrectionNext, correctionVars, vars, Elsewhere, Tick, BeginCommit, CommitFact, AbandonCommit,
       Identify, Resume, PlanSurely, Ask, Confirm, BeginApply, ReadTarget, ReadFact,
       ApplyFails, RollBack, SaveInBackground, Return, Cut
  <1> QED
    BY <1>1, <1>3, <1>6, <1>7

LEMMA CorrectedAlwaysEnded ==
    ASSUME CorrectedEnded, FixesStand
    PROVE  CorrectedEnded'
  BY DEF CorrectedEnded, FixesStand, IsBelieved

LEMMA LateAlwaysForked ==
    ASSUME TimelineInvariant, StatesFit, JobsFit, FixesStand,
           [CorrectionNext]_correctionVars, CorrectedEnded, LateIsForked
    PROVE  LateIsForked'
  <1> SUFFICES ASSUME NEW t \in Threads, NEW a \in DOMAIN facts',
                      facts'[a].fixes # Null, plan'[t].target = facts'[a].fixes,
                      changes'[t] = 0
               PROVE  Forked(t)'
    BY DEF LateIsForked
  <1>1. /\ marks[t] \subseteq marks'[t] /\ changes[t] = 0
        /\ plan'[t] = plan[t] \/ \E h \in Writers : Identify(h, t)
    BY PlansStay
  <1>2. CASE a \in DOMAIN facts
    <2>1. facts'[a].fixes = facts[a].fixes
      BY <1>2 DEF FixesStand
    <2>2. CASE plan'[t] = plan[t]
      BY <1>1, <1>2, <2>1, <2>2, ForkedStays DEF LateIsForked
    <2>3. ASSUME NEW h \in Writers, Identify(h, t) PROVE Forked(t)'
      <3>1. /\ plan'[t].named \/ IsCandidate(plan'[t].target)
            /\ plan'[t].target # Null
        BY <2>3 DEF Identify, StatesFit, CorrectionTypeOK
      <3>2. ~IsCandidate(facts[a].fixes)
        BY <1>2, <2>1 DEF CorrectedEnded, IsCandidate, IsActive
      <3> QED
        BY <2>1, <3>1, <3>2 DEF Forked
    <2> QED
      BY <1>1, <2>2, <2>3
  <1>3. CASE a \notin DOMAIN facts
    <2>. PICK h \in Writers : Apply(h) /\ facts'[a].fixes = plan[loop[h].thread].target
      BY <1>3, NewFixIsApplied
    <2>. PICK u : u = loop[h].thread
      OBVIOUS
    <2>1. /\ plan' = plan /\ changes'[u] = changes[u] + 1
          /\ marks' = [v \in Threads |->
                IF v \in Overtakes(u) THEN marks[v] \union {"stale"} ELSE marks[v]]
      BY Handlers DEF Apply, StatesFit, CorrectionTypeOK
    <2>2. u \in Threads /\ changes[u] \in Nat
      BY Handlers DEF Apply, StatesFit, CorrectionTypeOK
    <2>3. t # u
      BY <2>1, <2>2
    <2>4. t \in Overtakes(u)
      BY <1>1, <2>1, <2>3 DEF Overtakes
    <2> QED
      BY <2>1, <2>4 DEF Forked
  <1> QED
    BY <1>2, <1>3

LEMMA TwiceAlwaysForked ==
    ASSUME TimelineInvariant, StatesFit, StatesFit', JobsFit, FixesStand,
           [CorrectionNext]_correctionVars, LateIsForked, TwiceIsForked,
           \A t \in Threads : Once(t)'
    PROVE  TwiceIsForked'
  <1>1. ASSUME NEW a \in DOMAIN facts', NEW b \in DOMAIN facts', a # b,
               facts'[a].fixes # Null, facts'[a].fixes = facts'[b].fixes,
               a \in DOMAIN facts
        PROVE  \E t \in Threads : plan'[t].target = facts'[a].fixes /\ Forked(t)'
    <2>1. facts'[a].fixes = facts[a].fixes
      BY <1>1 DEF FixesStand
    <2>2. CASE b \in DOMAIN facts
      <3>1. facts'[b].fixes = facts[b].fixes
        BY <2>2 DEF FixesStand
      <3>. PICK t \in Threads : plan[t].target = facts[a].fixes /\ Forked(t)
        BY <1>1, <2>1, <2>2, <3>1 DEF TwiceIsForked
      <3> QED
        BY <2>1, ForkedStays
    <2>3. CASE b \notin DOMAIN facts
      <3>. PICK h \in Writers : Apply(h) /\ facts'[b].fixes = plan[loop[h].thread].target
        BY <1>1, <2>3, NewFixIsApplied
      <3>. PICK u : u = loop[h].thread
        OBVIOUS
      <3>1. /\ plan' = plan /\ changes'[u] = changes[u] + 1
            /\ u \in Threads /\ changes[u] \in Nat
        BY Handlers DEF Apply, StatesFit, CorrectionTypeOK
      <3>2. CASE changes[u] = 0
        <4>1. Forked(u)
          BY <1>1, <2>1, <3>1, <3>2 DEF LateIsForked
        <4> QED
          BY <1>1, <3>1, <4>1, ForkedStays
      <3>3. CASE changes[u] # 0
        <4>1. ~(changes'[u] <= 1)
          BY <3>1, <3>3
        <4>2. marks'[u] # {}
          BY <3>1, <4>1 DEF Once
        <4> QED
          BY <1>1, <3>1, <4>2 DEF Forked
      <3> QED
        BY <3>2, <3>3
    <2> QED
      BY <2>2, <2>3
  <1>2. \A a, b \in DOMAIN facts' :
           a # b /\ facts'[a].fixes # Null /\ facts'[a].fixes = facts'[b].fixes
           => a \in DOMAIN facts \/ b \in DOMAIN facts
    BY NewFixIsApplied
  <1> QED
    BY <1>1, <1>2 DEF TwiceIsForked

-----------------------------------------------------------------------------
\* The theorems

LEMMA InitFits == CorrectionInit => CorrectionsFit
  <1> SUFFICES ASSUME CorrectionInit PROVE CorrectionsFit
    OBVIOUS
  <1> USE DEF CorrectionInit, CheckpointInit
  <1>1. /\ \A t \in Threads : checkpoints[t] = <<>> /\ plan[t] = Unplanned
        /\ \A t \in Threads : changes[t] = 0 /\ marks[t] = {}
        /\ \A h \in Writers : loop[h] = Off /\ saving[h] = {} /\ job[h] = Idle
        /\ facts = <<>>
    BY DEF Init
  <1>2. \A t \in Threads : DOMAIN checkpoints[t] = {} /\ Saved(t) = {}
    BY <1>1 DEF Saved
  <1>3. CorrectionTypeOK
    BY DEF CorrectionTypeOK, CheckpointTypeOK, Marks
  <1>4. StatesFit
    BY <1>1, <1>2, <1>3 DEF StatesFit, RowsFit, SavesFit, LoopsFit, LatestExists,
                            HasLatest, UnplannedAreNew
  <1>5. RacesMarked /\ JobsFit
    BY <1>1 DEF RacesMarked, JobsFit
  <1>6. \A t \in Threads : RunningOn(t) = {}
    BY <1>1 DEF RunningOn
  <1>7. \A t \in Threads : Once(t)
    BY <1>1, <1>6 DEF Once
  <1>8. \A t \in Threads : OneAnswer(t)
    BY <1>2, <1>6 DEF OneAnswer
  <1>9. DOMAIN facts = {}
    BY <1>1
  <1>10. CorrectedEnded /\ LateIsForked /\ TwiceIsForked
    BY <1>9 DEF CorrectedEnded, LateIsForked, TwiceIsForked
  <1> QED
    BY <1>4, <1>5, <1>7, <1>8, <1>10 DEF CorrectionsFit

LEMMA NextFits ==
    TimelineInvariant /\ [Next]_vars /\ CorrectionsFit
        /\ [CorrectionNext]_correctionVars => CorrectionsFit'
  <1> SUFFICES ASSUME TimelineInvariant, [Next]_vars, CorrectionsFit,
                      [CorrectionNext]_correctionVars
               PROVE  CorrectionsFit'
    OBVIOUS
  <1> USE DEF CorrectionsFit
  <1>1. StatesFit' /\ RacesMarked' /\ JobsFit' /\ FixesStand
    BY AlwaysFit, RacesStayMarked, JobsAlwaysFit, FixesAreCorrections
  <1>2. \A t \in Threads : Once(t)'
    BY <1>1, OnceAlways
  <1>3. \A t \in Threads : OneAnswer(t)'
    BY <1>1, AnswerAlways
  <1>4. CorrectedEnded' /\ LateIsForked' /\ TwiceIsForked'
    BY <1>1, <1>2, CorrectedAlwaysEnded, LateAlwaysForked, TwiceAlwaysForked
  <1> QED
    BY <1>1, <1>2, <1>3, <1>4

\* Handlers, checkpoints, what is still being saved and what was read from the
\* timeline fit together in every reachable state, cuts and races included.
THEOREM InvariantOfCorrections == CorrectionSpec => []CorrectionsFit
  <1>1. CorrectionSpec => Spec
    BY TimelineBeside
  <1>2. CorrectionSpec => []TimelineInvariant /\ [][Next]_vars
    BY <1>1, InvariantOfTimeline, PTL DEF Spec
  <1>3. CorrectionSpec => CorrectionInit /\ [][CorrectionNext]_correctionVars
    BY DEF CorrectionSpec
  <1> QED
    BY <1>2, <1>3, InitFits, NextFits, PTL

\* The states are well typed, and what is saved of a correction that one handler
\* at a time worked on never holds two answers: an answer given after one was
\* recorded changes nothing, however often the thread is resumed or cut.
THEOREM FirstAnswerStands == CorrectionSpec => []CorrectionInvariant
  <1>1. CorrectionsFit => CorrectionInvariant
    BY DEF CorrectionsFit, CorrectionInvariant, StatesFit, OneAnswer,
           FirstAnswerHolds, Said
  <1> QED
    BY <1>1, InvariantOfCorrections, PTL

\* A correction changes memory once, however often it is resumed, unless two
\* handlers ran on it at once or one was cut after its transaction and before
\* anything saved said so.
THEOREM CorrectionsApplyOnce == CorrectionSpec => []AppliedOnce
  <1>1. CorrectionsFit => AppliedOnce
    <2> SUFFICES ASSUME CorrectionsFit, NEW t \in Threads, changes[t] > 1
                 PROVE  marks[t] \intersect {"torn", "raced"} # {}
      BY DEF AppliedOnce
    <2>1. changes[t] \in Nat /\ ~(changes[t] <= 1)
      BY DEF CorrectionsFit, StatesFit, CorrectionTypeOK
    <2> QED
      BY <2>1 DEF CorrectionsFit, Once
  <1> QED
    BY <1>1, InvariantOfCorrections, PTL

\* Two facts that are believed and correct the same fact are the work of a
\* correction that was raced, torn or overtaken by another, or of one that
\* named its fact without a look at whether it was believed.
THEOREM ReplacementsAreSingle == CorrectionSpec => []OneReplacement
  <1>1. CorrectionsFit => OneReplacement
    BY DEF CorrectionsFit, TwiceIsForked, OneReplacement
  <1> QED
    BY <1>1, InvariantOfCorrections, PTL
=============================================================================
