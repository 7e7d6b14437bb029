--------------------------- MODULE BeliefTimeline ---------------------------
(***************************************************************************)
(* The two time axes of a fact and the trail of what was believed: the     *)
(* facts and belief_history tables under MemoryService.commit, correct,    *)
(* supersede and retract.                                                  *)
(*                                                                         *)
(* Each of the last three reads the fact on a connection of its own, reads *)
(* the clock for the rows it will write, and then writes in one            *)
(* transaction; BeliefHistoryService reads the clock again for the trail,  *)
(* with the row locked.  Writers to one fact are serialised by that lock   *)
(* (a writer that changes nothing of the row, because it is retracted      *)
(* already, may be taken to come first), so what a transaction writes      *)
(* becomes visible in one step, dated by clocks that were read before it;  *)
(* the read is an earlier step, and what it returned may be stale.  No     *)
(* writer looks at whether the fact is still believed: candidates are read *)
(* from the active facts, but detection, a model call or a user's answer   *)
(* may come between.                                                       *)
(*                                                                         *)
(* A fact is its position in the sequence facts and stands for its         *)
(* statement too; a commit inserts one.  Rows of the trail that are equal  *)
(* in every column kept here are one row.  Both axes are measured in the   *)
(* same few instants, the clock never goes back, and 0 is NULL.            *)
(***************************************************************************)
EXTENDS Naturals, Sequences, FiniteSets

CONSTANTS
    Writers,     \* concurrent callers of correct, supersede and retract
    Sources,     \* episodes facts are committed from
    Phrases,     \* what the time phrase of a new fact may resolve to
    MaxFacts,    \* bound on the rows of facts
    MaxNew,      \* bound on the rows when a commit inserts another
    MaxTime      \* bound on the clock

Null  == 0
Times == 1..MaxTime
Ids   == 1..MaxFacts

\* facts_world_time_ordered, facts_unknown_granularity_has_no_dates
ChecksPass(row) ==
    /\ row.from # Null /\ row.to # Null => row.from <= row.to
    /\ row.undated => row.from = Null /\ row.to = Null

ASSUME TimelineAssumption ==
    /\ MaxFacts \in Nat /\ MaxNew \in 0..MaxFacts
    /\ MaxTime \in Nat \ {0}
    /\ Phrases \subseteq [from : Times \union {Null}, undated : BOOLEAN]
    /\ \A p \in Phrases : p.undated => p.from = Null

VARIABLES
    now,        \* the clock
    facts,      \* the facts table, by insertion order
    beliefs,    \* the belief_history table
    commit,     \* when the commit of an episode read the clock
    job         \* what each writer has read and is about to write

vars == <<now, facts, beliefs, commit, job>>

Rows == [from : Times \union {Null}, to : Times \union {Null},
         asserted : Times, retracted : Times \union {Null},
         undated : BOOLEAN,               \* temporal_granularity = 'unknown'
         next : Ids \union {Null},        \* superseded_by
         prev : Ids \union {Null},        \* supersedes
         fixes : Ids \union {Null},       \* corrected_from
         sources : SUBSET Sources]        \* provenance rows

Causes == {"asserted", "corrected", "superseded", "retracted"}

Windows == [memory : Ids, cause : Causes,
            since : Times, until : Times \union {Null},
            from : Times \union {Null}, to : Times \union {Null},
            next : Ids \union {Null}]

Operations == {"correct", "supersede", "retract"}
Idle == [op |-> "idle"]
Jobs == [op : Operations, id : Ids, original : Rows,
         stamp : Times,                   \* the clock after the read
         effective : Times \union {Null}]

\* The types, the CHECK constraints of both tables, and belief rows that are
\* about facts that exist.
TypeOK ==
    /\ now \in Times
    /\ facts \in Seq(Rows) /\ Len(facts) <= MaxFacts
    /\ \A id \in DOMAIN facts : ChecksPass(facts[id])
    /\ beliefs \subseteq Windows
    /\ \A b \in beliefs : /\ b.memory \in DOMAIN facts
                          /\ b.until = Null \/ b.since <= b.until
    /\ commit \in [Sources -> Times \union {Null}]
    /\ job \in [Writers -> Jobs \union {Idle}]

Init ==
    /\ now = 1
    /\ facts = <<>>
    /\ beliefs = {}
    /\ commit = [s \in Sources |-> Null]
    /\ job = [w \in Writers |-> Idle]

Window(id, cause, since, until, from, to, next) ==
    [memory |-> id, cause |-> cause, since |-> since, until |-> until,
     from |-> from, to |-> to, next |-> next]

\* Variant: a belief is as old as the validity it is about.
BelievedSinceTrue(id, since, from, to) ==
    Window(id, "asserted", IF from = Null THEN since ELSE from, Null, from, to, Null)

Asserted(id, since, from, to) ==
    Window(id, "asserted", since, Null, from, to, Null)

\* Variants: close_open_transition without its guard, or forgotten.
CloseAll(id, at) ==
    {IF b.memory = id THEN [b EXCEPT !.until = at] ELSE b : b \in beliefs}
CloseNone(id, at) == beliefs

\* close_open_transition: the windows of id still open end at the instant.
CloseOpen(id, at) ==
    {IF b.memory = id /\ b.until = Null THEN [b EXCEPT !.until = at] ELSE b :
        b \in beliefs}

\* When a writer's service may have read the clock for the trail: after the
\* writer did, and not before a window it ends (belief_history_window_ordered).
TrailTimes(w) ==
    {at \in Times :
        /\ job[w].stamp <= at /\ at <= now
        /\ \A b \in beliefs : b.memory = job[w].id /\ b.until = Null => b.since <= at}

NewId == Len(facts) + 1
Finished(w) == job' = [job EXCEPT ![w] = Idle]

-----------------------------------------------------------------------------
\* commit: the clock is read once, inside the transaction ...
BeginCommit(s) ==
    /\ commit[s] = Null /\ Len(facts) < MaxNew
    /\ commit' = [commit EXCEPT ![s] = now]
    /\ UNCHANGED <<now, facts, beliefs, job>>

\* ... and the fact and the belief in it are seen when that ends.  The validity
\* starts where the resolved phrase does, when there is one, and has no end.
CommitFact(s) ==
    /\ commit[s] # Null /\ Len(facts) < MaxNew
    /\ \E p \in Phrases :
          /\ facts' = Append(facts,
                [from |-> p.from, to |-> Null, undated |-> p.undated,
                 asserted |-> commit[s], retracted |-> Null, next |-> Null,
                 prev |-> Null, fixes |-> Null, sources |-> {s}])
          /\ beliefs' = beliefs \union {Asserted(NewId, commit[s], p.from, Null)}
    /\ commit' = [commit EXCEPT ![s] = Null]
    /\ UNCHANGED <<now, job>>

AbandonCommit(s) ==
    /\ commit[s] # Null
    /\ commit' = [commit EXCEPT ![s] = Null]
    /\ UNCHANGED <<now, facts, beliefs, job>>

\* get_fact, with no condition on the row, and the clock.
ReadFact(w) ==
    /\ job[w] = Idle
    /\ \E op \in Operations : \E id \in DOMAIN facts :
          \E t \in IF op = "supersede" THEN Times ELSE {Null} :
             /\ op # "retract" => Len(facts) < MaxFacts
             /\ job' = [job EXCEPT ![w] = [op |-> op, id |-> id,
                                           original |-> facts[id],
                                           stamp |-> now, effective |-> t]]
    /\ UNCHANGED <<now, facts, beliefs, commit>>

EndBelief(row, stamp) ==
    [row EXCEPT !.retracted = IF row.retracted = Null THEN stamp ELSE @]

\* Variant: the period the mistake referred to is ended instead.
EndValidityInstead(row, stamp) ==
    [row EXCEPT !.to = IF row.from = Null THEN stamp ELSE row.from]

\* The original as a correction leaves it.
Mistaken(row, stamp) == EndBelief(row, stamp)

\* The replacement has the original's validity, phrase and provenance.
Correct(w) ==
    /\ job[w].op = "correct"
    /\ Len(facts) < MaxFacts
    /\ \E at \in TrailTimes(w) :
       LET id == job[w].id
           original == job[w].original
           stamp == job[w].stamp
           replacement == [original EXCEPT
                              !.asserted = stamp, !.retracted = Null,
                              !.next = Null, !.prev = Null, !.fixes = id]
       IN  /\ facts' = Append([facts EXCEPT ![id] = Mistaken(@, stamp)],
                              replacement)
           /\ beliefs' = CloseOpen(id, at) \union
                {Window(id, "corrected", original.asserted, at,
                        original.from, original.to, NewId),
                 Asserted(NewId, at, original.from, original.to)}
    /\ Finished(w)
    /\ UNCHANGED <<now, commit>>

\* Variant: the old state is bounded by the moment it is noticed.
BoundedNow(row, effective) == [row EXCEPT !.to = now, !.next = NewId]

\* end_validity and link_supersession, neither guarded.
Bounded(row, effective) == [row EXCEPT !.to = effective, !.next = NewId]

Reopened(id, at, original, effective) ==
    {Asserted(id, at, original.from, effective)}

\* Variant: the table orders the dates and ignores the granularity.
AcceptsDated(row) == row.from # Null /\ row.to # Null => row.from <= row.to

\* What the database accepts of an updated row.
Accepts(row) == ChecksPass(row)

Supersede(w) ==
    /\ job[w].op = "supersede"
    /\ Len(facts) < MaxFacts
    /\ \E at \in TrailTimes(w) :
       LET id == job[w].id
           original == job[w].original
           effective == job[w].effective
           replacement == [from |-> effective, to |-> Null,
                           asserted |-> job[w].stamp,
                           retracted |-> Null, undated |-> FALSE, next |-> Null,
                           prev |-> id, fixes |-> Null,
                           sources |-> original.sources]
       IN  /\ Accepts(Bounded(facts[id], effective))
           /\ facts' = Append([facts EXCEPT ![id] = Bounded(@, effective)],
                              replacement)
           /\ beliefs' = CloseOpen(id, at)
                \union Reopened(id, at, original, effective)
                \union {Window(id, "superseded", original.asserted, at,
                               original.from, effective, NewId),
                        Asserted(NewId, at, effective, Null)}
    /\ Finished(w)
    /\ UNCHANGED <<now, commit>>

Retract(w) ==
    /\ job[w].op = "retract"
    /\ \E at \in TrailTimes(w) :
       LET id == job[w].id
           original == job[w].original
       IN  /\ facts' = [facts EXCEPT ![id] = EndBelief(@, job[w].stamp)]
           /\ beliefs' = CloseOpen(id, at) \union
                {Window(id, "retracted", original.asserted, at,
                        original.from, original.to, Null)}
    /\ Finished(w)
    /\ UNCHANGED <<now, commit>>

\* A violated check, a lost connection, a cancelled task: nothing is written.
RollBack(w) ==
    /\ job[w] # Idle
    /\ Finished(w)
    /\ UNCHANGED <<now, facts, beliefs, commit>>

Tick ==
    /\ now < MaxTime
    /\ now' = now + 1
    /\ UNCHANGED <<facts, beliefs, commit, job>>

Next ==
    \/ Tick
    \/ \E s \in Sources : BeginCommit(s) \/ CommitFact(s) \/ AbandonCommit(s)
    \/ \E w \in Writers : \/ ReadFact(w) \/ Correct(w) \/ Supersede(w)
                          \/ Retract(w) \/ RollBack(w)

Spec == Init /\ [][Next]_vars

-----------------------------------------------------------------------------
Open(id) == {b \in beliefs : b.memory = id /\ b.until = Null}

\* The write of w ends.
Ends(w) == job[w] # Idle /\ job'[w] = Idle

\* The trail only grows: a step may add rows and may end an open window, at an
\* instant within the life of the write that ends it, and never moves, reopens
\* or drops a window that has ended.
TrailGrows ==
    \A b \in beliefs :
        \/ b \in beliefs'
        \/ /\ b.until = Null
           /\ \E w \in Writers : \E at \in Times :
                 /\ Ends(w) /\ job[w].stamp <= at /\ at <= now
                 /\ [b EXCEPT !.until = at] \in beliefs'

\* A memory has at most one belief that is still held, whichever writers
\* raced on it and however stale what they had read.
OneOpenWindow == \A id \in DOMAIN facts : Cardinality(Open(id)) <= 1

\* A fact that was never retracted is still believed: some window is open.
BelievedHasWindow ==
    \A id \in DOMAIN facts : facts[id].retracted = Null => Open(id) # {}

\* The belief still held about a fact gives it the world validity its row has.
WindowMatchesFact ==
    \A id \in DOMAIN facts : \A b \in Open(id) :
        b.from = facts[id].from /\ b.to = facts[id].to

\* When the system stopped believing a fact is never rewritten, by a repeated
\* correction or a late retraction either.
RetractionsStand ==
    \A id \in DOMAIN facts :
        facts[id].retracted # Null => facts'[id].retracted = facts[id].retracted

\* An operation moves its own axis of its own fact: the belief in a fact that
\* exists ends only by a correction or a retraction of it, and its validity
\* changes only by a supersession of it.
AxesSeparate ==
    [][\A id \in DOMAIN facts :
          /\ facts'[id].retracted # facts[id].retracted =>
                \E w \in Writers : /\ Ends(w) /\ job[w].id = id
                                   /\ job[w].op \in {"correct", "retract"}
          /\ <<facts'[id].from, facts'[id].to>> # <<facts[id].from, facts[id].to>> =>
                \E w \in Writers : /\ Ends(w) /\ job[w].id = id
                                   /\ job[w].op = "supersede"]_vars

\* A superseded fact ends in the world exactly where the fact it points to
\* begins, and that fact points back, after any number of supersessions.
SupersessionMeets ==
    \A id \in DOMAIN facts :
        LET next == facts[id].next IN
        next # Null => /\ facts[next].prev = id
                       /\ facts[id].to = facts[next].from

\* What is on the trail and what the row says agree about what is believed: at
\* most one belief of a fact is held, one is unless it was retracted, and its
\* world validity is the row's, whatever writers did from stale reads.
BeliefsAgree == OneOpenWindow /\ BelievedHasWindow /\ WindowMatchesFact

\* What was once recorded of the past is never rewritten, neither a window that
\* has ended nor the date at which belief in a fact did.
PastIsKept == [][TrailGrows /\ RetractionsStand]_vars
=============================================================================
