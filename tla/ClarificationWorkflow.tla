----------------------- MODULE ClarificationWorkflow -----------------------
(***************************************************************************)
(* Clarifications: a question about an ambiguous name pauses the graph; an *)
(* answer resumes it, in this process or in a later one, and what applying *)
(* does to entities is EntityResolution's merge.                           *)
(*                                                                         *)
(* Handlers and their cuts are those of CorrectionWorkflow: a handler is   *)
(* one call of run or resume.  The caller of run decides what to ask; the  *)
(* options are names, not rows, so the answer is looked up again when it   *)
(* comes, among rows that may have been created or merged since.           *)
(***************************************************************************)
EXTENDS EntityResolution

CONSTANTS
    Threads,         \* questions
    MaxCheckpoints   \* bound on the checkpoints of all threads

\* No name is one of the words for an outcome that is not an answer.
ASSUME ClarificationAssumption ==
    /\ MaxCheckpoints \in Nat
    /\ Names \intersect {"none", "done"} = {}

VARIABLES
    checkpoints, saving,
    options,    \* the names each question offers, none before it is asked
    loop,       \* where each handler is
    merges,     \* how many rows a question's answer has absorbed (history)
    marks       \* what went wrong around a thread (history)

clarificationVars ==
    <<vars, checkpoints, saving, options, loop, merges, marks>>

\* A reply that declines, an empty one or an index out of range; any other is
\* a name, offered or not, or the index of one.
Decline == "decline"
Replies == Names \union {Decline}

INSTANCE Checkpoints WITH
    Handlers <- Mergers,
    Nodes <- {"ask", "apply", "end"},
    Outcomes <- Replies \union {"done"}

Off == [at |-> "off"]
Loops == [at : {"ask", "apply", "merge", "exit"}, thread : Threads,
          on : Nat,                            \* the checkpoint its task is of
          said : Replies, keep : Ids \union {Nobody}, did : BOOLEAN]

\* torn: cut after its merge, before anything saved says so.
\* raced: two handlers at once.
Marks == {"torn", "raced"}

ClarificationTypeOK ==
    /\ CheckpointTypeOK
    /\ options \in [Threads -> SUBSET Names]
    /\ loop \in [Mergers -> Loops \union {Off}]
    /\ merges \in [Threads -> Nat]
    /\ marks \in [Threads -> SUBSET Marks]

ClarificationInit ==
    /\ Init
    /\ CheckpointInit
    /\ options = [t \in Threads |-> {}]
    /\ loop = [h \in Mergers |-> Off]
    /\ merges = [t \in Threads |-> 0]
    /\ marks = [t \in Threads |-> {}]

Room ==
    Cardinality(UNION {{t} \X DOMAIN checkpoints[t] : t \in Threads})
        < MaxCheckpoints

Loop(at, t, on, said) ==
    [at |-> at, thread |-> t, on |-> on, said |-> said, keep |-> Nobody,
     did |-> FALSE]

Moves(h, to) == loop' = [loop EXCEPT ![h] = to]

-----------------------------------------------------------------------------
\* run: the graph pauses in its first node, and nothing else happens.
Ask(h, t) ==
    /\ loop[h] = Off /\ options[t] = {} /\ Room
    /\ \E offered \in SUBSET (Names \ SelfNames) :
          offered # {} /\ options' = [options EXCEPT ![t] = offered]
    /\ Pause(t, "ask", None)
    /\ UNCHANGED <<vars, loop, merges, marks>>

\* What a resumed ask yields.
Answered(row, reply) == IF row.wrote = None THEN reply ELSE row.wrote

\* Nothing is left to run.
IsSettled(row) ==
    \/ row.node = "end"
    \/ row.node = "apply" /\ row.wrote = "done"

RunningOn(t) == {h \in Mergers : loop[h] # Off /\ loop[h].thread = t}

\* resume: the graph goes on from the newest checkpoint that is saved.
Resume(h, t) ==
    /\ loop[h] = Off
    /\ Latest(t) # 0
    /\ LET row == checkpoints[t][Latest(t)] IN
          /\ ~IsSettled(row)
          /\ \E reply \in Replies :
                Moves(h, IF row.node = "ask"
                         THEN Loop("ask", t, Latest(t), Answered(row, reply))
                         ELSE Loop("apply", t, Latest(t), row.value))
    /\ marks' = [marks EXCEPT ![t] =
                    IF RunningOn(t) = {} THEN @ ELSE @ \union {"raced"}]
    /\ UNCHANGED <<vars, checkpoints, saving, options, merges>>

\* The superstep of ask ends.
TakeAnswer(h) ==
    /\ loop[h].at = "ask" /\ Room
    /\ LET t == loop[h].thread
           said == loop[h].said
       IN  /\ Superstep(h, t, loop[h].on, said, "apply", said)
           /\ Moves(h, Loop("apply", t, Len(checkpoints[t]) + 1, said))
    /\ UNCHANGED <<vars, options, merges, marks>>

\* The superstep of apply ends.
EndApply(h, did) ==
    /\ Superstep(h, loop[h].thread, loop[h].on, "done", "end", None)
    /\ Moves(h, [loop[h] EXCEPT !.at = "exit", !.did = did])

\* find_by_name of the option, or of what was typed.
Found(said) == IF said = Decline THEN {} ELSE Answers(said)

\* A decline, and an answer that matches nothing.
Abandon(h) ==
    /\ loop[h].at = "apply" /\ Room
    /\ Found(loop[h].said) = {}
    /\ EndApply(h, FALSE)
    /\ UNCHANGED <<vars, options, merges, marks>>

\* _match: the first row found, in whatever order the rows come.
Match(h) ==
    /\ loop[h].at = "apply"
    /\ \E i \in Found(loop[h].said) :
          Moves(h, [loop[h] EXCEPT !.at = "merge", !.keep = i])
    /\ UNCHANGED <<vars, checkpoints, saving, options, merges, marks>>

\* Variant: any row that carries one of the names.
AnyAbsorbable(h) ==
    {i \in Live : i # loop[h].keep /\ NameOf(i) \in options[loop[h].thread]}

\* list_provisional: the live provisional rows, whichever question they were
\* flagged for, that carry one of the offered names.
Absorbable(h) ==
    {i \in unsure \intersect Live :
        i # loop[h].keep /\ NameOf(i) \in options[loop[h].thread]}

NothingToMerge(h) ==
    /\ loop[h].at = "merge" /\ merge[h] = Idle /\ Room
    /\ Absorbable(h) = {}
    /\ EndApply(h, FALSE)
    /\ UNCHANGED <<vars, options, merges, marks>>

\* merge reads both rows.
ReadRows(h) ==
    /\ ReadBoth(h)
    /\ merge'[h].keep = loop[h].keep /\ merge'[h].absorb \in Absorbable(h)

BeginMerge(h) ==
    /\ loop[h].at = "merge"
    /\ ReadRows(h)
    /\ UNCHANGED <<checkpoints, saving, options, loop, merges, marks>>

MergeAliases(h) ==
    /\ CarryAliases(h)
    /\ UNCHANGED <<checkpoints, saving, options, loop, merges, marks>>

EndMerge(h) ==
    /\ loop[h].at = "merge" /\ Room
    /\ Absorb(h)
    /\ merges' = [merges EXCEPT ![loop[h].thread] = @ + 1]
    /\ EndApply(h, TRUE)
    /\ UNCHANGED <<options, marks>>

\* What a merge that does not end leaves behind: its aliases, perhaps.
DropsMerge(h) ==
    IF merge[h] = Idle THEN UNCHANGED vars
    ELSE RefuseAbsorb(h) \/ AbandonMerge(h)

\* _apply raises: a row is gone, the rows are related, the store fails.  The
\* graph keeps the checkpoint it was on, and with it the answer.
ApplyFails(h) ==
    /\ loop[h].at \in {"apply", "merge"}
    /\ DropsMerge(h)
    /\ Moves(h, [loop[h] EXCEPT !.at = "exit"])
    /\ UNCHANGED <<checkpoints, saving, options, merges, marks>>

SaveInBackground(h) ==
    /\ Save(h)
    /\ UNCHANGED <<vars, options, loop, merges, marks>>

Return(h) ==
    /\ loop[h].at = "exit"
    /\ AllSaved(h)
    /\ Moves(h, Off)
    /\ LoseSaves(h)
    /\ UNCHANGED <<vars, options, merges, marks>>

\* What is saved of the thread tells that its answer was acted on.
EndIsSaved(t) == Latest(t) # 0 /\ IsSettled(checkpoints[t][Latest(t)])

Cut(h) ==
    /\ loop[h] # Off
    /\ LET t == loop[h].thread IN
          marks' = [marks EXCEPT ![t] =
              IF loop[h].did /\ ~EndIsSaved(t) THEN @ \union {"torn"} ELSE @]
    /\ Moves(h, Off)
    /\ LoseSaves(h)
    /\ DropsMerge(h)
    /\ UNCHANGED <<options, merges>>

\* Extraction goes on beside the questions.
Elsewhere ==
    /\ \E c \in Commits :
          BeginCommit(c) \/ Resolve(c) \/ LandCommit(c) \/ LoseCommit(c)
    /\ UNCHANGED <<checkpoints, saving, options, loop, merges, marks>>

ClarificationNext ==
    \/ Elsewhere
    \/ \E h \in Mergers :
          \/ \E t \in Threads : Ask(h, t) \/ Resume(h, t)
          \/ TakeAnswer(h) \/ Abandon(h) \/ Match(h) \/ NothingToMerge(h)
          \/ BeginMerge(h) \/ MergeAliases(h) \/ EndMerge(h)
          \/ ApplyFails(h) \/ SaveInBackground(h) \/ Return(h) \/ Cut(h)

ClarificationSpec == ClarificationInit /\ [][ClarificationNext]_clarificationVars

-----------------------------------------------------------------------------
\* One question folds away one row, however often it is answered: two only
\* when two handlers ran at once, or when one was cut after its merge and
\* before anything saved said so.
AbsorbedOnce ==
    \A t \in Threads : merges[t] > 1 => marks[t] # {}

\* Once the answer that is saved of a question declines, no answer of it
\* merges anything, a later one that names a person neither: unless two
\* handlers ran on it at once, each with an answer of its own, or one was cut
\* after its merge and before anything saved said so.
NoMeansNo ==
    \A t \in Threads :
        /\ marks[t] = {}
        /\ \E i \in Saved(t) :
              Decline \in {checkpoints[t][i].wrote, checkpoints[t][i].value}
        => merges[t] = 0

\* A row that was created without doubt is never folded into another one: what
\* a clarification absorbs was flagged as ambiguous when it was created.
OnlyDoubtfulAbsorbed == \A i \in known : into[i] # Nobody => i \in unsure

\* What was absorbed is what was doubtful, wherever handlers and their
\* checkpoints stand, and what had not been declined, where neither a race nor
\* such a cut befell the question.
AbsorbedAsAgreed == ClarificationTypeOK /\ NoMeansNo /\ OnlyDoubtfulAbsorbed
=============================================================================
