---------------------------- MODULE Checkpoints ----------------------------
(***************************************************************************)
(* What a paused workflow leaves in the database: the checkpoints of each  *)
(* thread and the outcomes of the tasks that ran on them, behind           *)
(* PostgresCheckpointSaver.                                                *)
(*                                                                         *)
(* A superstep of the graph hands its task's outcome and the next          *)
(* checkpoint to saves that run in the background, behind the supersteps   *)
(* that follow.  A handler's checkpoints are saved in order, the outcomes  *)
(* in any order, and what is not saved when the handler is cut is lost.    *)
(* A checkpoint is its place in the order of the checkpoint ids, which     *)
(* grow with time; a task runs at most once on a checkpoint whose outcome  *)
(* is stored.                                                              *)
(***************************************************************************)
EXTENDS Naturals, Sequences, FiniteSets

CONSTANTS
    Threads,     \* thread ids
    Handlers,    \* callers that run or resume a graph
    Nodes,       \* what a checkpoint may have to run next
    Outcomes     \* what the state of a checkpoint and a task's writes say

VARIABLES
    checkpoints, \* each thread's checkpoints, by checkpoint id
    saving       \* each handler's saves still in the background

None == "none"

Checkpoint == [node : Nodes, value : Outcomes \union {None}, saved : BOOLEAN,
               wrote : Outcomes \union {None}]
Saves == [thread : Threads, at : Nat, what : {"checkpoint", "writes"},
          value : Outcomes \union {None}]

CheckpointTypeOK ==
    /\ checkpoints \in [Threads -> Seq(Checkpoint)]
    /\ saving \in [Handlers -> SUBSET Saves]

CheckpointInit ==
    /\ checkpoints = [t \in Threads |-> <<>>]
    /\ saving = [h \in Handlers |-> {}]

NewCheckpoint(node, value, saved) ==
    [node |-> node, value |-> value, saved |-> saved, wrote |-> None]

Saved(t) == {i \in DOMAIN checkpoints[t] : checkpoints[t][i].saved}

\* get without an id: the newest checkpoint of the thread, or nothing.
Latest(t) ==
    IF Saved(t) = {} THEN 0
    ELSE CHOOSE i \in Saved(t) : \A j \in Saved(t) : j <= i

\* A run that pauses or ends returns after its saves: its checkpoint is there.
Pause(t, node, value) ==
    /\ checkpoints' = [checkpoints EXCEPT
                          ![t] = Append(@, NewCheckpoint(node, value, TRUE))]
    /\ UNCHANGED saving

\* The task of checkpoint at ended with outcome, and node is next.
Superstep(h, t, at, outcome, node, value) ==
    /\ checkpoints' = [checkpoints EXCEPT
                          ![t] = Append(@, NewCheckpoint(node, value, FALSE))]
    /\ saving' = [saving EXCEPT ![h] = @ \union
          {[thread |-> t, at |-> at, what |-> "writes", value |-> outcome],
           [thread |-> t, at |-> Len(checkpoints[t]) + 1,
            what |-> "checkpoint", value |-> None]}]

\* put_writes: an ordinary write is inserted when there is none.
Written(row, value) == [row EXCEPT !.wrote = IF @ = None THEN value ELSE @]

\* A checkpoint is saved after the ones its handler handed over before.
Due(h, s) ==
    s.what = "checkpoint" =>
        \A r \in saving[h] : r.what = "checkpoint" => s.at <= r.at

Save(h) ==
    \E s \in saving[h] :
        /\ Due(h, s)
        /\ saving' = [saving EXCEPT ![h] = @ \ {s}]
        /\ checkpoints' = [checkpoints EXCEPT ![s.thread][s.at] =
              IF s.what = "checkpoint" THEN [@ EXCEPT !.saved = TRUE]
              ELSE Written(@, s.value)]

\* Variant: a handler leaves its saves behind.
SavedOrNot(h) == TRUE

\* ainvoke returns, or raises, when nothing is left in the background.
AllSaved(h) == saving[h] = {}

LoseSaves(h) ==
    /\ saving' = [saving EXCEPT ![h] = {}]
    /\ UNCHANGED checkpoints
=============================================================================
