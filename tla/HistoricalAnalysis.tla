------------------------- MODULE HistoricalAnalysis -------------------------
(***************************************************************************)
(* Questions about the past: HistoricalAnalysisWorkflow over               *)
(* TimelineService, beside the writers of BeliefTimeline.                  *)
(*                                                                         *)
(* A question about one instant is one read, of the world axis (facts) or  *)
(* of the belief axis (belief_history).  A question about a period is      *)
(* three reads, each on a connection of its own, and a writer's            *)
(* transaction may land between them.  A read returns so many rows and no  *)
(* more: of facts the most salient, which here are any, since the salience *)
(* of a fact is left out; of beliefs those that began last.  What the user *)
(* asked and what the model made of it are unconstrained, and so is the    *)
(* instant a phrase is resolved to, which TimeResolver computes; a phrase  *)
(* that it leaves unresolved stands for the instant the question is        *)
(* answered.                                                               *)
(***************************************************************************)
EXTENDS BeliefTimeline, TimeResolver

CONSTANTS
    Readers,       \* questions at work
    Asked,         \* the two instants a question may name, the second or none
    StateLimit,    \* rows of facts a read of a diff returns at most (200)
    BeliefLimit    \* rows of belief_history a read returns at most (50)

ASSUME HistoryAssumption ==
    /\ Asked \subseteq Times \X (Times \union {Null})
    /\ StateLimit \in Nat /\ BeliefLimit \in Nat

VARIABLES
    reader       \* where each question is and what it has read

historyVars == <<vars, reader>>

Waiting == [at |-> "waiting"]

Questions == [at : {"world", "belief", "start", "end", "corrected"},
              start : Times, end : Times,
              first : SUBSET Ids,         \* read as true at the start
              last : SUBSET Ids,          \* read as true at the end
              touched : SUBSET Ids]       \* written since (history)

HistoryTypeOK == reader \in [Readers -> Questions \union {Waiting}]

HistoryInit == Init /\ reader = [r \in Readers |-> Waiting]

\* facts_valid_at, before its limit: what was true then, as is believed now.
StateAt(when) ==
    {id \in DOMAIN facts :
        /\ facts[id].retracted = Null
        /\ facts[id].from = Null \/ facts[id].from <= when
        /\ facts[id].to = Null \/ facts[id].to > when}

\* What a read of the state at an instant may return.
StatesRead(when) ==
    {read \in SUBSET StateAt(when) :
        \/ read = StateAt(when) /\ Cardinality(read) <= StateLimit
        \/ Cardinality(read) = StateLimit}

\* believed_at, before its limit: the windows that cover the instant.
HeldAt(when) ==
    {b \in beliefs : b.since <= when /\ (b.until = Null \/ b.until > when)}

\* A read returns them all while they are within its limit, and otherwise those
\* that began last; the answer is what they are about.
WithinLimit(when) == Cardinality(HeldAt(when)) <= BeliefLimit
BelievedAt(when) == {b.memory : b \in HeldAt(when)}

\* transitions_between, of the corrections.
CorrectedIn(start, end) ==
    {b.memory : b \in {c \in beliefs : /\ c.cause = "corrected"
                                       /\ start < c.until /\ c.until <= end}}

\* Variant: a corrected fact is compared like any other.
CeasedWithCorrected(q) == q.first \ q.last

\* The buckets of TimelineDiff, as the last read fills them.
Became(q) == q.last \ q.first
Corrected(q) == CorrectedIn(q.start, q.end)
Ceased(q) == (q.first \ q.last) \ Corrected(q)

\* _compute_diff puts the bounds in order.
InOrder(a, b) == IF b < a THEN <<b, a>> ELSE <<a, b>>

\* _interpret, _resolve_time and _route.  The end of the period is now when
\* none was given or resolved, and a range beats the axis.
Interpret(r) ==
    /\ reader[r] = Waiting
    /\ \E at \in {"world", "belief", "start"} : \E asked \in Asked :
          LET until == IF asked[2] = Null THEN now ELSE asked[2]
              period == IF at = "start" THEN InOrder(asked[1], until)
                        ELSE <<asked[1], asked[1]>>
          IN  reader' = [reader EXCEPT ![r] =
                 [at |-> at, start |-> period[1], end |-> period[2],
                  first |-> {}, last |-> {}, touched |-> {}]]
    /\ UNCHANGED vars

\* One instant, one read: the answer.
ReadInstant(r) ==
    /\ reader[r].at \in {"world", "belief"}
    /\ reader' = [reader EXCEPT ![r] = Waiting]
    /\ UNCHANGED vars

\* diff: the two states, and then the corrections.
ReadStart(r) ==
    /\ reader[r].at = "start"
    /\ \E read \in StatesRead(reader[r].start) :
          reader' = [reader EXCEPT ![r].first = read, ![r].at = "end"]
    /\ UNCHANGED vars

ReadEnd(r) ==
    /\ reader[r].at = "end"
    /\ \E read \in StatesRead(reader[r].end) :
          reader' = [reader EXCEPT ![r].last = read, ![r].at = "corrected"]
    /\ UNCHANGED vars

ReadCorrections(r) ==
    /\ reader[r].at = "corrected"
    /\ reader' = [reader EXCEPT ![r] = Waiting]
    /\ UNCHANGED vars

Written ==
    {id \in DOMAIN facts' : id \notin DOMAIN facts \/ facts'[id] # facts[id]}

\* A step of the timeline beside the questions.
Elsewhere ==
    /\ Next
    /\ reader' = [r \in Readers |->
          IF reader[r].at \in {"end", "corrected"}
          THEN [reader[r] EXCEPT !.touched = @ \union Written] ELSE reader[r]]

HistoryNext ==
    \/ Elsewhere
    \/ \E r \in Readers :
          \/ Interpret(r) \/ ReadInstant(r)
          \/ ReadStart(r) \/ ReadEnd(r) \/ ReadCorrections(r)

HistorySpec == HistoryInit /\ [][HistoryNext]_historyVars

-----------------------------------------------------------------------------
\* The fact began, or ended, in the world inside the period.
Began(id, q) ==
    facts[id].from # Null /\ q.start < facts[id].from /\ facts[id].from <= q.end
Ended(id, q) ==
    facts[id].to # Null /\ q.start < facts[id].to /\ facts[id].to <= q.end

\* The read returned as many rows as it may, so there may have been others.
Full(read) == Cardinality(read) >= StateLimit

\* Of a fact nobody wrote to while the question was at work, a diff says that
\* it became true, or ceased to be, exactly when the world changed so inside
\* the period, but for what a read that reached its limit left out: beyond it
\* a fact is told as begun because the first read had no room for it, or as
\* ceased because the second had none.
ChangesAreOfTheWorld(q) ==
    \A id \in DOMAIN facts \ q.touched :
        /\ id \in Became(q) =>
              id \in StateAt(q.end) /\ (Began(id, q) \/ Full(q.first))
        /\ Began(id, q) /\ id \in StateAt(q.end) =>
              id \in Became(q) \/ Full(q.last)
        /\ id \in Ceased(q) =>
              id \in StateAt(q.start) /\ (Ended(id, q) \/ Full(q.last))
        /\ Ended(id, q) /\ id \in StateAt(q.start) =>
              id \in Ceased(q) \/ Full(q.first)

\* Wherever between the reads a correction landed, a fact that a diff tells as
\* ceased and that has a replacement was replaced outside the period: the trail
\* has that correction, and not inside.
CorrectionsAreNotChanges(q) ==
    \A id \in Ceased(q) : \A other \in DOMAIN facts :
        facts[other].fixes = id =>
            \E b \in beliefs :
                /\ b.memory = id /\ b.cause = "corrected" /\ b.next = other
                /\ facts[other].asserted <= b.until
                /\ ~(q.start < b.until /\ b.until <= q.end)

\* Both, of every question whose two states have been read.
DiffsTellChanges ==
    \A r \in Readers : reader[r].at = "corrected" =>
        ChangesAreOfTheWorld(reader[r]) /\ CorrectionsAreNotChanges(reader[r])

\* Every write under way read the clock after the instant.
Settled(when) ==
    /\ when < now
    /\ \A s \in Sources : commit[s] # Null => when < commit[s]
    /\ \A w \in Writers : job[w] # Idle => when < job[w].stamp

\* A write of a fact that was not believed at the instant although its row was
\* asserted by then: it had been retracted, or the trail of the fact begins
\* where the clock was read for the trail, after it was read for the row.
ActsOnRetracted(w) == facts[job[w].id].retracted # Null
ActsBeforeTrail(w, when) ==
    /\ facts[job[w].id].asserted <= when
    /\ \A b \in beliefs : b.memory = job[w].id => when < b.since

\* What was believed at an instant, once every write under way is later, is
\* answered the same for ever while the answer stays within its limit: no
\* write that is read, dated or lands later changes it, except one of a fact
\* that was not believed then although asserted.
PastBeliefsStand ==
    [][\A when \in Times :
          \/ ~Settled(when)
          \/ ~WithinLimit(when) \/ ~WithinLimit(when)'
          \/ BelievedAt(when)' = BelievedAt(when)
          \/ \E w \in Writers :
                Ends(w) /\ (ActsOnRetracted(w) \/ ActsBeforeTrail(w, when))]_historyVars

\* The instants a question is answered for are those its phrases denote: on
\* whatever day it is asked, the periods of a unit tile the time line around
\* that day, and a weekday is the nearest one on its side.
PhrasesDenotePeriods ==
    \A r \in Readers : reader[r] # Waiting => PeriodsTile /\ WeekdaysAreNear

\* What a question has read fits what it was asked.
HistoryInvariant == HistoryTypeOK /\ DiffsTellChanges
=============================================================================
