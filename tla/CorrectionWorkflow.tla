------------------------- MODULE CorrectionWorkflow -------------------------
(***************************************************************************)
(* Corrections: identify the remembered statement, plan, ask when the plan *)
(* is not sure, apply.  The question pauses the graph on a checkpoint; an  *)
(* answer resumes it, in this process or in a later one, and what applying *)
(* does to memory is BeliefTimeline's correct or supersede.                *)
(*                                                                         *)
(* A handler is one call of run or resume.  It may be cut anywhere, by a   *)
(* cancellation or by the death of its process (which cuts every handler,  *)
(* here one after the other); the id of its thread is known to nobody      *)
(* before run returns, so the checkpoints of a run count from then on.     *)
(* What the model may answer is unconstrained: the fact it picks is chosen *)
(* already when the candidates are read.                                   *)
(***************************************************************************)
EXTENDS BeliefTimeline

CONSTANTS
    Threads,         \* corrections
    MaxCheckpoints   \* bound on the checkpoints of all threads

ASSUME CorrectionAssumption == MaxCheckpoints \in Nat

VARIABLES
    checkpoints, saving,
    plan,       \* what a thread's state says of the fact to correct
    loop,       \* where each handler is
    changes,    \* how often a thread changed memory (history)
    marks       \* what went wrong around a thread (history)

correctionVars == <<vars, checkpoints, saving, plan, loop, changes, marks>>

Changing == {"correct", "supersede"}

INSTANCE Checkpoints WITH
    Handlers <- Writers,
    Nodes <- {"confirm", "apply", "end"},
    Outcomes <- Changing \union {"done"}

Unplanned == [target |-> Null]
Plans == [target : Ids, named : BOOLEAN]

Off == [at |-> "off"]
Loops == [at : {"plan", "doubt", "confirm", "apply", "exit"}, thread : Threads,
          on : Nat,                          \* the checkpoint its task is of
          op : Changing \union {None}, did : BOOLEAN]

\* torn: cut after its change, before anything saved says so.
\* raced: two handlers at once.  stale: its fact changed under it.
Marks == {"torn", "raced", "stale"}

CorrectionTypeOK ==
    /\ CheckpointTypeOK
    /\ plan \in [Threads -> Plans \union {Unplanned}]
    /\ loop \in [Writers -> Loops \union {Off}]
    /\ changes \in [Threads -> Nat]
    /\ marks \in [Threads -> SUBSET Marks]

CorrectionInit ==
    /\ Init
    /\ CheckpointInit
    /\ plan = [t \in Threads |-> Unplanned]
    /\ loop = [h \in Writers |-> Off]
    /\ changes = [t \in Threads |-> 0]
    /\ marks = [t \in Threads |-> {}]

Room ==
    Cardinality(UNION {{t} \X DOMAIN checkpoints[t] : t \in Threads})
        < MaxCheckpoints

Loop(at, t, on, op, did) ==
    [at |-> at, thread |-> t, on |-> on, op |-> op, did |-> did]

Moves(h, to) == loop' = [loop EXCEPT ![h] = to]

-----------------------------------------------------------------------------
\* Fact.is_active: believed, and followed by no other.
IsBelieved(id) == facts[id].retracted = Null
IsActive(id) == IsBelieved(id) /\ facts[id].next = Null

\* Variant: whatever retrieval finds.
AnyFact(id) == TRUE

\* What _identify keeps of the retrieved facts.
IsCandidate(id) == IsActive(id)

\* _identify: the named fact as it is, or the active ones that were retrieved;
\* more than one of them leaves the plan in doubt, whatever it says.
Identify(h, t) ==
    /\ loop[h] = Off /\ plan[t] = Unplanned
    /\ \E id \in DOMAIN facts : \E named, many \in BOOLEAN :
          /\ named \/ IsCandidate(id)
          /\ many => ~named /\ \E other \in DOMAIN facts \ {id} : IsCandidate(other)
          /\ plan' = [plan EXCEPT ![t] = [target |-> id, named |-> named]]
          /\ Moves(h, Loop(IF many THEN "doubt" ELSE "plan", t, 0, None, FALSE))
    /\ UNCHANGED <<vars, checkpoints, saving, changes, marks>>

\* A clear and confident plan about the only candidate is applied.
PlanSurely(h) ==
    /\ loop[h].at = "plan"
    /\ \E op \in Changing : Moves(h, Loop("apply", loop[h].thread, 0, op, FALSE))
    /\ UNCHANGED <<vars, checkpoints, saving, plan, changes, marks>>

\* Any other, and no plan at all, pauses the graph on its question.
Ask(h) ==
    /\ loop[h].at \in {"plan", "doubt"} /\ Room
    /\ Pause(loop[h].thread, "confirm", None)
    /\ Moves(h, Off)
    /\ UNCHANGED <<vars, plan, changes, marks>>

\* What a user may reply.
Replies == {"wrong", "changed", "supersede", "perhaps"}

\* What _confirm takes a reply for.
Meaning(reply) ==
    IF reply \in {"changed", "supersede"} THEN "supersede" ELSE "correct"

\* Variant: the task runs again although its outcome is stored.
ConfirmAgain(row, reply) == Meaning(reply)

\* The operation a resumed confirm yields.
Confirmed(row, reply) == IF row.wrote = None THEN Meaning(reply) ELSE row.wrote

\* Nothing is left to run.
IsApplied(row) ==
    \/ row.node = "end"
    \/ row.node = "apply" /\ row.wrote = "done"

RunningOn(t) == {h \in Writers : loop[h] # Off /\ loop[h].thread = t}

\* resume: the graph goes on from the newest checkpoint that is saved, and an
\* applied correction is only reported again.
Resume(h, t) ==
    /\ loop[h] = Off
    /\ Latest(t) # 0
    /\ LET row == checkpoints[t][Latest(t)] IN
          /\ ~IsApplied(row)
          /\ \E reply \in Replies :
                Moves(h, IF row.node = "confirm"
                         THEN Loop("confirm", t, Latest(t),
                                   Confirmed(row, reply), FALSE)
                         ELSE Loop("apply", t, Latest(t), row.value, FALSE))
    /\ marks' = [marks EXCEPT ![t] =
                    IF RunningOn(t) = {} THEN @ ELSE @ \union {"raced"}]
    /\ UNCHANGED <<vars, checkpoints, saving, plan, changes>>

Confirm(h) ==
    /\ loop[h].at = "confirm" /\ Room
    /\ LET t == loop[h].thread IN
          /\ Superstep(h, t, loop[h].on, loop[h].op, "apply", loop[h].op)
          /\ Moves(h, Loop("apply", t, Len(checkpoints[t]) + 1, loop[h].op, FALSE))
    /\ UNCHANGED <<vars, plan, changes, marks>>

\* What MemoryService reads first.
ReadTarget(h) ==
    /\ ReadFact(h)
    /\ job'[h].op = loop[h].op /\ job'[h].id = plan[loop[h].thread].target

\* _apply up to the call that reads the fact.
BeginApply(h) ==
    /\ loop[h].at = "apply"
    /\ ReadTarget(h)
    /\ UNCHANGED <<checkpoints, saving, plan, loop, changes, marks>>

\* The threads still to change the fact that t changes.
Overtakes(t) ==
    {u \in Threads \ {t} : changes[u] = 0 /\ plan[u].target = plan[t].target}

\* The transaction of the operation, and the end of the superstep.
Apply(h) ==
    /\ loop[h].at = "apply" /\ Room
    /\ Correct(h) \/ Supersede(h)
    /\ LET t == loop[h].thread IN
          /\ IF loop[h].on = 0 THEN Pause(t, "end", None)
             ELSE Superstep(h, t, loop[h].on, "done", "end", None)
          /\ changes' = [changes EXCEPT ![t] = @ + 1]
          /\ marks' = [u \in Threads |->
                IF u \in Overtakes(t) THEN marks[u] \union {"stale"}
                ELSE marks[u]]
          /\ Moves(h, [loop[h] EXCEPT !.at = "exit", !.did = TRUE])
    /\ UNCHANGED plan

\* _apply raises: the graph keeps the checkpoint it was on.
ApplyFails(h) ==
    /\ loop[h].at = "apply"
    /\ RollBack(h)
    /\ Moves(h, [loop[h] EXCEPT !.at = "exit"])
    /\ UNCHANGED <<checkpoints, saving, plan, changes, marks>>

SaveInBackground(h) ==
    /\ Save(h)
    /\ UNCHANGED <<vars, plan, loop, changes, marks>>

Return(h) ==
    /\ loop[h].at = "exit"
    /\ AllSaved(h)
    /\ Moves(h, Off)
    /\ LoseSaves(h)
    /\ UNCHANGED <<vars, plan, changes, marks>>

\* What is saved of the thread tells that its change was made.
ChangeIsSaved(t) == Latest(t) # 0 /\ IsApplied(checkpoints[t][Latest(t)])

Cut(h) ==
    /\ loop[h] # Off
    /\ LET t == loop[h].thread IN
          marks' = [marks EXCEPT ![t] =
              IF loop[h].did /\ ~ChangeIsSaved(t) THEN @ \union {"torn"} ELSE @]
    /\ Moves(h, Off)
    /\ LoseSaves(h)
    /\ IF job[h] = Idle THEN UNCHANGED vars ELSE RollBack(h)
    /\ UNCHANGED <<plan, changes>>

\* The extraction pipeline and the clock go on beside the corrections.
Elsewhere ==
    /\ \/ Tick
       \/ \E s \in Sources : BeginCommit(s) \/ CommitFact(s) \/ AbandonCommit(s)
    /\ UNCHANGED <<checkpoints, saving, plan, loop, changes, marks>>

CorrectionNext ==
    \/ Elsewhere
    \/ \E h \in Writers :
          \/ \E t \in Threads : Identify(h, t) \/ Resume(h, t)
          \/ PlanSurely(h) \/ Ask(h) \/ Confirm(h) \/ BeginApply(h)
          \/ Apply(h) \/ ApplyFails(h) \/ SaveInBackground(h)
          \/ Return(h) \/ Cut(h)

CorrectionSpec == CorrectionInit /\ [][CorrectionNext]_correctionVars

-----------------------------------------------------------------------------
\* A correction is applied once, however often it is resumed: twice only when
\* two handlers ran at once, or when one was cut after its transaction and
\* before anything saved said so.
AppliedOnce ==
    \A t \in Threads :
        changes[t] > 1 => marks[t] \intersect {"torn", "raced"} # {}

\* What is saved of a thread that one handler at a time worked on never holds
\* two answers: an answer given after one was recorded changes nothing.
FirstAnswerHolds ==
    \A t \in Threads :
        "raced" \notin marks[t] =>
            \A i, j \in Saved(t) :
                LET said(k) == {checkpoints[t][k].wrote, checkpoints[t][k].value}
                                  \intersect Changing
                IN \A a \in said(i), b \in said(j) : a = b

\* Two believed facts correct the same fact only when a correction was applied
\* to a fact that had changed since it was identified, to one named without a
\* look at whether it is believed, or more than once.
Forked(t) == plan[t].target # Null /\ (plan[t].named \/ marks[t] # {})

OneReplacement ==
    \A a, b \in DOMAIN facts :
        a # b /\ facts[a].fixes # Null /\ facts[a].fixes = facts[b].fixes
            /\ IsBelieved(a) /\ IsBelieved(b)
        => \E t \in Threads : plan[t].target = facts[a].fixes /\ Forked(t)

\* Handlers, checkpoints and what they say of each thread fit together.
CorrectionInvariant == CorrectionTypeOK /\ FirstAnswerHolds
=============================================================================
