---------------------------- MODULE HistoryProofs ----------------------------
(***************************************************************************)
(* Theorems about HistoricalAnalysis, for any number of questions, writers *)
(* and facts, and about the calendar their phrases are resolved by, for    *)
(* every day.                                                              *)
(***************************************************************************)
EXTENDS HistoricalAnalysis, BeliefTimelineProofs

-----------------------------------------------------------------------------
\* What a past instant is answered from

\* The window covers the instant.
Covers(b, t) == b.since <= t /\ (b.until = Null \/ b.until > t)

\* The birth of a fact is read as it is.
BirthsAreRead ==
    \A w \in Writers : job[w] # Idle =>
        job[w].original.asserted = facts[job[w].id].asserted

\* No belief in a fact begins before the fact is born.
WindowsFollowBirths ==
    \A b \in beliefs : facts[b.memory].asserted <= b.since

\* A fact that was never retracted has been believed ever since its trail began.
BelievedSince ==
    \A id \in DOMAIN facts : facts[id].retracted = Null =>
        \A t \in Nat : \A b \in beliefs :
            t <= now /\ b.memory = id /\ b.since <= t =>
                \E c \in beliefs : c.memory = id /\ Covers(c, t)

TrailInvariant ==
    TimelineInvariant /\ BirthsAreRead /\ WindowsFollowBirths /\ BelievedSince

\* believed_at, with its windows named.
LEMMA BelievedAtMeans ==
    /\ \A t : BelievedAt(t) = {b.memory : b \in {c \in beliefs : Covers(c, t)}}
    /\ \A t : BelievedAt(t)' = {b.memory : b \in {c \in beliefs' : Covers(c, t)}}
  BY DEF BelievedAt, HeldAt, Covers

\* What a write does to the two tables: it ends what was held about its fact,
\* and adds windows of that fact and of a fact it inserts, which begin where it
\* ends those; but for one that begins with the fact it read and ends there.
WroteAt(w, at) ==
    LET id == job[w].id IN
    /\ job[w] # Idle /\ id \in DOMAIN facts /\ id \in Ids
    /\ MayEnd(id, at) /\ at \in Nat /\ at # Null
    /\ job[w].stamp \in Nat /\ job[w].stamp <= at /\ at <= now
    /\ job[w].original.asserted \in Nat /\ job[w].original.asserted <= at
    /\ CloseOpen(id, at) \subseteq beliefs'
    /\ \A c \in beliefs' :
          \/ c \in CloseOpen(id, at)
          \/ c.since = at /\ (c.memory = id \/ c.memory = NewId)
          \/ c.memory = id /\ c.since = job[w].original.asserted
    /\ DOMAIN facts \subseteq DOMAIN facts'
    /\ \A i \in DOMAIN facts : facts'[i].asserted = facts[i].asserted
    /\ NewId \in DOMAIN facts' => facts'[NewId].asserted = job[w].stamp

LEMMA WritesDo ==
    ASSUME TimelineInvariant, NEW w \in Writers,
           Correct(w) \/ Supersede(w) \/ Retract(w)
    PROVE  \E at \in TrailTimes(w) : WroteAt(w, at)
  <1>1. /\ job[w] # Idle /\ job[w].id \in DOMAIN facts /\ job[w].id \in Ids
        /\ job[w].stamp \in Times /\ job[w].stamp \in Nat
        /\ job[w].original.asserted \in Nat
        /\ \A i \in DOMAIN facts : facts[i] \in Rows
        /\ NewId \notin DOMAIN facts
    BY WriteEnds, BusyWriter, NewIdFree, NullIsNone DEF Ends, TimelineInvariant
  <1>2. \A at \in TrailTimes(w) :
           /\ MayEnd(job[w].id, at) /\ at \in Nat /\ at # Null
           /\ job[w].stamp <= at /\ at <= now /\ job[w].original.asserted <= at
    BY <1>1, TrailIsLater DEF TimelineInvariant
  <1>3. CASE Correct(w)
    <2>1. PICK at \in TrailTimes(w) : CorrectedWell(w, at)
      BY <1>3, CorrectEffect
    <2>2. \A i \in DOMAIN facts : facts'[i].asserted = facts[i].asserted
      BY <1>1, <2>1, EndBeliefDoes DEF CorrectedWell
    <2>3. \A c \in beliefs' :
             \/ c \in CloseOpen(job[w].id, at)
             \/ c.since = at /\ (c.memory = job[w].id \/ c.memory = NewId)
             \/ c.memory = job[w].id /\ c.since = job[w].original.asserted
      BY <2>1 DEF CorrectedWell, Window, Asserted
    <2>4. /\ CloseOpen(job[w].id, at) \subseteq beliefs'
          /\ DOMAIN facts \subseteq DOMAIN facts'
          /\ NewId \in DOMAIN facts' => facts'[NewId].asserted = job[w].stamp
      BY <2>1 DEF CorrectedWell
    <2> QED
      BY <1>1, <1>2, <2>1, <2>2, <2>3, <2>4 DEF WroteAt
  <1>4. CASE Supersede(w)
    <2>1. PICK at \in TrailTimes(w) : SupersededWell(w, at)
      BY <1>4, SupersedeEffect
    <2>2. \A i \in DOMAIN facts : facts'[i].asserted = facts[i].asserted
      BY <1>1, <2>1, BoundedDoes DEF SupersededWell
    <2>3. \A c \in beliefs' :
             \/ c \in CloseOpen(job[w].id, at)
             \/ c.since = at /\ (c.memory = job[w].id \/ c.memory = NewId)
             \/ c.memory = job[w].id /\ c.since = job[w].original.asserted
      BY <2>1 DEF SupersededWell, Window, Asserted
    <2>4. /\ CloseOpen(job[w].id, at) \subseteq beliefs'
          /\ DOMAIN facts \subseteq DOMAIN facts'
          /\ NewId \in DOMAIN facts' => facts'[NewId].asserted = job[w].stamp
      BY <2>1 DEF SupersededWell
    <2> QED
      BY <1>1, <1>2, <2>1, <2>2, <2>3, <2>4 DEF WroteAt
  <1>5. CASE Retract(w)
    <2>1. PICK at \in TrailTimes(w) : RetractedWell(w, at)
      BY <1>5, RetractEffect
    <2>2. \A i \in DOMAIN facts : facts'[i].asserted = facts[i].asserted
      BY <1>1, <2>1, EndBeliefDoes DEF RetractedWell
    <2>3. \A c \in beliefs' :
             \/ c \in CloseOpen(job[w].id, at)
             \/ c.memory = job[w].id /\ c.since = job[w].original.asserted
      BY <2>1 DEF RetractedWell, Window
    <2>4. /\ CloseOpen(job[w].id, at) \subseteq beliefs'
          /\ DOMAIN facts \subseteq DOMAIN facts'
          /\ NewId \in DOMAIN facts' => facts'[NewId].asserted = job[w].stamp
      BY <1>1, <2>1 DEF RetractedWell
    <2> QED
      BY <1>1, <1>2, <2>1, <2>2, <2>3, <2>4 DEF WroteAt
  <1> QED
    BY <1>3, <1>4, <1>5

\* A window as a writer leaves it was there, beginning as it does, and covers
\* no instant it did not cover.
LEMMA ClosingAddsNothing ==
    ASSUME TimelineInvariant, NEW id, NEW at, NEW c \in CloseOpen(id, at)
    PROVE  \E b \in beliefs :
              /\ b.memory = c.memory /\ b.since = c.since /\ b.cause = c.cause
              /\ b.next = c.next
              /\ c.until = b.until \/ (b.until = Null /\ c.until = at)
              /\ \A t : Covers(c, t) => Covers(b, t)
  <1>1. PICK b \in beliefs :
           c = IF b.memory = id /\ b.until = Null THEN [b EXCEPT !.until = at] ELSE b
    BY DEF CloseOpen
  <1>2. b \in Windows
    BY DEF TimelineInvariant, TypeOK
  <1>3. /\ c.memory = b.memory /\ c.since = b.since /\ c.cause = b.cause
        /\ c.next = b.next
        /\ c.until = b.until \/ (b.until = Null /\ c.until = at)
    BY <1>1, <1>2 DEF Windows
  <1>4. \A t : Covers(c, t) => Covers(b, t)
    BY <1>3 DEF Covers
  <1> QED
    BY <1>3, <1>4

\* The other steps insert at most one fact, with the belief in it, and only a
\* tick moves the clock.
LEMMA OtherSteps ==
    ASSUME TimelineInvariant, [Next]_vars,
           ~ \E w \in Writers : Correct(w) \/ Supersede(w) \/ Retract(w)
    PROVE  \/ UNCHANGED <<facts, beliefs>>
           \/ \E s \in Sources :
                 /\ commit[s] \in Times /\ commit[s] # Null /\ now' = now
                 /\ DOMAIN facts' = DOMAIN facts \union {NewId}
                 /\ \A id \in DOMAIN facts : facts'[id] = facts[id]
                 /\ facts'[NewId].asserted = commit[s]
                 /\ \E c \in beliefs' :
                       /\ beliefs' = beliefs \union {c}
                       /\ c.memory = NewId /\ c.since = commit[s] /\ c.until = Null
                       /\ c.cause = "asserted"
  <1>1. ASSUME NEW s \in Sources, CommitFact(s)
        PROVE  /\ commit[s] \in Times /\ commit[s] # Null /\ now' = now
               /\ DOMAIN facts' = DOMAIN facts \union {NewId}
               /\ \A id \in DOMAIN facts : facts'[id] = facts[id]
               /\ facts'[NewId].asserted = commit[s]
               /\ \E c \in beliefs' :
                     /\ beliefs' = beliefs \union {c}
                     /\ c.memory = NewId /\ c.since = commit[s] /\ c.until = Null
                     /\ c.cause = "asserted"
    <2>1. /\ DOMAIN facts' = DOMAIN facts \union {NewId}
          /\ \A id \in DOMAIN facts : facts'[id] = facts[id]
          /\ facts'[NewId].asserted = commit[s]
      BY <1>1, CommitEffect
    <2>2. commit[s] \in Times /\ commit[s] # Null /\ now' = now
      BY <1>1 DEF CommitFact, TimelineInvariant, TypeOK
    <2>3. PICK p \in Phrases : beliefs' = beliefs \union {Asserted(NewId, commit[s], p.from, Null)}
      BY <1>1 DEF CommitFact
    <2>4. PICK c : c = Asserted(NewId, commit[s], p.from, Null)
      OBVIOUS
    <2>5. /\ c.memory = NewId /\ c.since = commit[s] /\ c.until = Null
          /\ c.cause = "asserted"
      BY <2>4 DEF Asserted, Window
    <2>6. beliefs' = beliefs \union {c}
      BY <2>3, <2>4
    <2> QED
      BY <2>1, <2>2, <2>5, <2>6
  <1> QED
    BY <1>1 DEF Next, vars, Tick, BeginCommit, AbandonCommit, ReadFact, RollBack

\* Rows are never removed, a birth is never rewritten, and only a tick, which
\* leaves both tables alone, moves the clock, by one.
LEMMA BirthsStand ==
    ASSUME TimelineInvariant, [Next]_vars
    PROVE  /\ \A id \in DOMAIN facts :
                 id \in DOMAIN facts' /\ facts'[id].asserted = facts[id].asserted
           /\ now \in Nat /\ now # Null
           /\ now' = now \/ (now' = now + 1 /\ UNCHANGED <<facts, beliefs>>)
  <1>1. now \in Nat /\ now # Null
    BY NullIsNone DEF TimelineInvariant, TypeOK
  <1>2. now' = now \/ (now' = now + 1 /\ UNCHANGED <<facts, beliefs>>)
    BY DEF Next, vars, Tick, BeginCommit, CommitFact, AbandonCommit, ReadFact,
           Correct, Supersede, Retract, RollBack
  <1>3. ASSUME NEW w \in Writers, Correct(w) \/ Supersede(w) \/ Retract(w),
               NEW id \in DOMAIN facts
        PROVE  id \in DOMAIN facts' /\ facts'[id].asserted = facts[id].asserted
    BY <1>3, WritesDo DEF WroteAt
  <1> QED
    BY <1>1, <1>2, <1>3, OtherSteps

\* A belief that covered an instant before every write under way goes on
\* covering it.
LEMMA CoverageStands ==
    ASSUME TimelineInvariant, [Next]_vars, NEW t \in Nat, Settled(t),
           NEW b \in beliefs, Covers(b, t)
    PROVE  \E c \in beliefs' : c.memory = b.memory /\ Covers(c, t)
  <1>1. b \in Windows
    BY DEF TimelineInvariant, TypeOK
  <1>2. CASE b \in beliefs'
    BY <1>2
  <1>3. ASSUME NEW w \in Writers, NEW at \in Times, Ends(w), job[w].stamp <= at,
               [b EXCEPT !.until = at] \in beliefs'
        PROVE  \E c \in beliefs' : c.memory = b.memory /\ Covers(c, t)
    <2>1. t < job[w].stamp /\ job[w].stamp \in Nat /\ at \in Nat
      BY <1>3, BusyWriter, NullIsNone DEF Settled, Ends, TimelineInvariant
    <2>2. t < at
      BY <1>3, <2>1
    <2>3. LET c == [b EXCEPT !.until = at] IN
          c.memory = b.memory /\ c.since = b.since /\ c.until = at
      BY <1>1 DEF Windows
    <2> QED
      BY <1>3, <2>2, <2>3 DEF Covers
  <1> QED
    BY <1>2, <1>3, TrailOnlyGrows DEF TrailGrows

\* A writer goes on reading births as they are.
LEMMA BirthsAreReadStep ==
    ASSUME TimelineInvariant, BirthsAreRead, [Next]_vars
    PROVE  BirthsAreRead'
  <1> SUFFICES ASSUME NEW w \in Writers, job'[w] # Idle
               PROVE  job'[w].original.asserted = facts'[job'[w].id].asserted
    BY DEF BirthsAreRead
  <1>1. CASE job'[w] = job[w]
    <2>1. job[w].id \in DOMAIN facts
      BY <1>1, BusyWriter DEF TimelineInvariant
    <2> QED
      BY <1>1, <2>1, BirthsStand DEF BirthsAreRead
  <1>2. CASE ReadFact(w)
    <2>1. PICK op \in Operations, id \in DOMAIN facts, t \in Times \union {Null} :
             job' = [job EXCEPT ![w] = [op |-> op, id |-> id,
                                        original |-> facts[id],
                                        stamp |-> now, effective |-> t]]
      BY <1>2 DEF ReadFact
    <2>2. job'[w].original = facts[id] /\ job'[w].id = id /\ facts' = facts
      BY <1>2, <2>1 DEF ReadFact, TimelineInvariant, TypeOK
    <2> QED
      BY <2>2
  <1>3. CASE ~ReadFact(w) /\ job'[w] # job[w]
    <2>1. \A v \in Writers :
             /\ ReadFact(v) => v # w /\ job'[w] = job[w]
             /\ Finished(v) => job'[w] = Idle \/ job'[w] = job[w]
      BY <1>3 DEF ReadFact, Finished, TimelineInvariant, TypeOK
    <2> QED
      BY <1>3, <2>1 DEF Next, vars, Tick, BeginCommit, CommitFact, AbandonCommit,
                        Correct, Supersede, Retract, RollBack
  <1> QED
    BY <1>1, <1>2, <1>3

\* No step adds a window that begins before its fact.
LEMMA WindowsFollowStep ==
    ASSUME TimelineInvariant, BirthsAreRead, WindowsFollowBirths, [Next]_vars
    PROVE  WindowsFollowBirths'
  <1> SUFFICES ASSUME NEW c \in beliefs'
               PROVE  facts'[c.memory].asserted <= c.since
    BY DEF WindowsFollowBirths
  <1>1. \A b \in beliefs : /\ b.memory \in DOMAIN facts
                           /\ facts'[b.memory].asserted <= b.since
    BY BirthsStand DEF TimelineInvariant, TypeOK, WindowsFollowBirths
  <1>2. CASE c \in beliefs
    BY <1>1, <1>2
  <1>3. ASSUME NEW w \in Writers, Correct(w) \/ Supersede(w) \/ Retract(w)
        PROVE  facts'[c.memory].asserted <= c.since
    <2>1. PICK at \in TrailTimes(w) : WroteAt(w, at)
      BY <1>3, WritesDo
    <2>2. facts'[job[w].id].asserted = job[w].original.asserted
      BY <2>1 DEF WroteAt, BirthsAreRead
    <2>3. CASE c \in CloseOpen(job[w].id, at)
      BY <1>1, <2>3, ClosingAddsNothing
    <2>4. CASE c.memory = job[w].id /\ c.since = job[w].original.asserted
      <3>1. \A n \in Nat : n <= n
        OBVIOUS
      <3> QED
        BY <2>1, <2>2, <2>4, <3>1 DEF WroteAt
    <2>5. CASE c.since = at /\ c.memory = job[w].id
      BY <2>1, <2>2, <2>5 DEF WroteAt
    <2>6. CASE c.since = at /\ c.memory = NewId
      <3>1. NewId \in DOMAIN facts'
        BY <2>6, NextKeeps DEF TimelineInvariant, TypeOK
      <3> QED
        BY <2>1, <2>6, <3>1 DEF WroteAt
    <2> QED
      BY <2>1, <2>3, <2>4, <2>5, <2>6 DEF WroteAt
  <1>4. ASSUME NEW s \in Sources, commit[s] \in Times, c.since = commit[s],
               facts'[c.memory].asserted = commit[s]
        PROVE  facts'[c.memory].asserted <= c.since
    <2>1. \A n \in Nat : n <= n
      OBVIOUS
    <2>2. commit[s] \in Nat
      BY <1>4, NullIsNone
    <2> QED
      BY <1>4, <2>1, <2>2
  <1>5. CASE ~ \E w \in Writers : Correct(w) \/ Supersede(w) \/ Retract(w)
    <2>1. CASE UNCHANGED <<facts, beliefs>>
      BY <1>2, <2>1
    <2>2. ASSUME NEW s \in Sources, commit[s] \in Times, NEW d \in beliefs',
                 beliefs' = beliefs \union {d}, d.memory = NewId, d.since = commit[s],
                 facts'[NewId].asserted = commit[s]
          PROVE  facts'[c.memory].asserted <= c.since
      BY <1>2, <1>4, <2>2
    <2> QED
      BY <1>5, <2>1, <2>2, OtherSteps
  <1> QED
    BY <1>3, <1>5

\* A fact not retracted goes on having been believed since its trail began.
LEMMA BelievedSinceStep ==
    ASSUME TrailInvariant, [Next]_vars
    PROVE  BelievedSince'
  <1> USE DEF TrailInvariant
  <1>1. TimelineInvariant' /\ now' \in Nat
    BY NextKeeps, NullIsNone DEF TimelineInvariant, TypeOK
  <1> SUFFICES ASSUME NEW id \in DOMAIN facts', facts'[id].retracted = Null,
                      NEW t \in Nat, NEW b \in beliefs',
                      t <= now', b.memory = id, b.since <= t
               PROVE  \E c \in beliefs' : c.memory = id /\ Covers(c, t)
    BY DEF BelievedSince
  <1>2. CASE t = now'
    <2>1. PICK c \in Held' : c.memory = id
      BY <1>1 DEF TimelineInvariant, BelievedIsHeld
    <2>2. c \in beliefs' /\ c.until = Null /\ c.since <= now'
      BY <1>1 DEF Held, TimelineInvariant, Past
    <2> QED
      BY <1>2, <2>1, <2>2 DEF Covers
  <1>3. CASE t < now'
    <2>0. t <= now
      BY <1>1, <1>3, BirthsStand
    <2>1. id \in DOMAIN facts => facts[id].retracted = Null
      <3>1. ASSUME id \in DOMAIN facts, facts[id].retracted # Null
            PROVE  facts'[id].retracted = facts[id].retracted
        BY <3>1, QuietSteps, WritersLeave
      <3> QED
        BY <3>1
    <2>2. ASSUME NEW a \in beliefs, a.memory = id, a.since <= t
          PROVE  \E c \in beliefs : c.memory = id /\ Covers(c, t)
      <3>1. id \in DOMAIN facts
        BY <2>2 DEF TimelineInvariant, TypeOK
      <3> QED
        BY <2>0, <2>1, <2>2, <3>1 DEF BelievedSince
    <2>3. CASE UNCHANGED <<facts, beliefs>>
      BY <2>2, <2>3
    <2>4. ASSUME NEW s \in Sources, NEW c \in beliefs',
                 beliefs' = beliefs \union {c}, c.until = Null
          PROVE  \E d \in beliefs' : d.memory = id /\ Covers(d, t)
      <3>1. CASE b = c
        BY <2>4, <3>1 DEF Covers
      <3>2. CASE b \in beliefs
        BY <2>2, <2>4, <3>2
      <3> QED
        BY <2>4, <3>1, <3>2
    <2>5. ASSUME NEW w \in Writers, Correct(w) \/ Supersede(w) \/ Retract(w)
          PROVE  \E c \in beliefs' : c.memory = id /\ Covers(c, t)
      <3>1. PICK at \in TrailTimes(w) : WroteAt(w, at)
        BY <2>5, WritesDo
      <3>2. CASE id # job[w].id /\ id \in DOMAIN facts
        <4>1. b \in CloseOpen(job[w].id, at)
          BY <3>1, <3>2, NewIdFree DEF WroteAt, TimelineInvariant
        <4>2. PICK a \in beliefs : a.memory = id /\ a.since <= t
          BY <4>1, ClosingAddsNothing
        <4>3. PICK c \in beliefs : c.memory = id /\ Covers(c, t)
          BY <2>2, <4>2
        <4>4. c \in CloseOpen(job[w].id, at)
          BY <3>2, <4>3 DEF CloseOpen
        <4> QED
          BY <3>1, <4>3, <4>4 DEF WroteAt
      <3>3. CASE id \notin DOMAIN facts
        <4>1. PICK c \in Held' : c.memory = id
          BY <1>1 DEF TimelineInvariant, BelievedIsHeld
        <4>2. /\ c \in beliefs' /\ c.until = Null
              /\ \A d \in beliefs : d.memory # id
          BY <3>3, <4>1 DEF Held, TimelineInvariant, TypeOK
        <4>3. b \notin CloseOpen(job[w].id, at) /\ c \notin CloseOpen(job[w].id, at)
          BY <4>1, <4>2, ClosingAddsNothing
        <4>4. b.since = at /\ c.since = at
          BY <3>1, <3>3, <4>1, <4>2, <4>3 DEF WroteAt
        <4> QED
          BY <4>1, <4>2, <4>4 DEF Covers
      <3>4. CASE id = job[w].id /\ Supersede(w)
        <4>1. PICK then \in TrailTimes(w) : SupersededWell(w, then)
          BY <3>4, SupersedeEffect
        <4>2. job[w] # Idle
          BY <3>1 DEF WroteAt
        <4>3. /\ then \in Nat /\ then # Null /\ job[w].original.asserted \in Nat
              /\ job[w].original.asserted <= then
          BY <4>2, TrailIsLater, BusyWriter, NullIsNone DEF TimelineInvariant
        <4> DEFINE ended == Window(id, "superseded", job[w].original.asserted, then,
                                   facts[id].from, job[w].effective, NewId)
                   reopened == Asserted(id, then, facts[id].from, job[w].effective)
        <4>4. ended \in beliefs' /\ reopened \in beliefs'
          BY <3>4, <4>1 DEF SupersededWell
        <4>5. /\ ended.memory = id /\ ended.since = job[w].original.asserted
              /\ ended.until = then
              /\ reopened.memory = id /\ reopened.since = then /\ reopened.until = Null
          BY DEF Asserted, Window
        <4> HIDE DEF ended, reopened
        <4>6. facts'[id].asserted <= b.since
          BY WindowsFollowStep DEF WindowsFollowBirths
        <4>7. facts'[id].asserted = job[w].original.asserted
          BY <3>1, <3>4 DEF WroteAt, BirthsAreRead
        <4>8. b.since \in Nat
          BY <1>1, NullIsNone DEF TimelineInvariant, TypeOK, Windows
        <4>9. job[w].original.asserted <= t
          BY <4>3, <4>6, <4>7, <4>8
        <4> QED
          BY <4>3, <4>4, <4>5, <4>9 DEF Covers
      <3>5. CASE id = job[w].id /\ ~Supersede(w)
        <4>1. job[w].stamp \in Times /\ id \in DOMAIN facts /\ facts[id] \in Rows
          BY <3>1, <3>5, BusyWriter DEF WroteAt, TimelineInvariant
        <4>2. facts'[id] = EndBelief(facts[id], job[w].stamp)
          BY <2>5, <3>5, CorrectEffect, RetractEffect DEF CorrectedWell, RetractedWell
        <4> QED
          BY <4>1, <4>2, EndBeliefDoes
      <3> QED
        BY <3>1, <3>2, <3>3, <3>4, <3>5 DEF WroteAt
    <2> QED
      BY <2>3, <2>4, <2>5, OtherSteps
  <1> QED
    BY <1>1, <1>2, <1>3

\* The four together are inductive.
LEMMA TrailStep ==
    ASSUME TrailInvariant, [Next]_vars
    PROVE  TrailInvariant'
  BY NextKeeps, BirthsAreReadStep, WindowsFollowStep, BelievedSinceStep DEF TrailInvariant

\* Nothing is believed, and nobody is at work, at first.
LEMMA InitTrail == Init => TrailInvariant
  <1> SUFFICES ASSUME Init PROVE TrailInvariant
    OBVIOUS
  <1>1. TimelineInvariant
    BY InitInvariant
  <1>2. BirthsAreRead /\ WindowsFollowBirths /\ BelievedSince
    BY DEF Init, BirthsAreRead, WindowsFollowBirths, BelievedSince
  <1> QED
    BY <1>1, <1>2 DEF TrailInvariant

\* A question leaves the timeline alone: what is proved of it holds beside them.
LEMMA TimelineBeside == HistorySpec => Spec
  <1>1. HistoryInit => Init
    BY DEF HistoryInit
  <1>2. [HistoryNext]_historyVars => [Next]_vars
    BY DEF HistoryNext, historyVars, Elsewhere, Interpret, ReadInstant, ReadStart,
           ReadEnd, ReadCorrections
  <1> QED
    BY <1>1, <1>2, PTL DEF HistorySpec, Spec

-----------------------------------------------------------------------------
\* What a past instant was answered is answered again

\* No step of the timeline adds to what was believed at an instant before every
\* write under way, but a write of a fact that was not believed then although
\* asserted.
LEMMA NothingIsAddedToThePast ==
    ASSUME TrailInvariant, [Next]_vars, NEW t \in Nat, Settled(t),
           ~ \E w \in Writers : Ends(w) /\ (ActsOnRetracted(w) \/ ActsBeforeTrail(w, t)),
           NEW c \in beliefs', Covers(c, t)
    PROVE  \E b \in beliefs : b.memory = c.memory /\ Covers(b, t)
  <1> USE DEF TrailInvariant
  <1>1. now \in Nat /\ t < now
    BY BirthsStand DEF Settled
  <1>2. CASE c \in beliefs
    BY <1>2
  <1>3. ASSUME NEW s \in Sources, commit[s] \in Times, commit[s] # Null,
               c.since = commit[s]
        PROVE  FALSE
    <2>1. commit[s] \in Nat /\ t < commit[s]
      BY <1>3, NullIsNone DEF Settled
    <2> QED
      BY <1>3, <2>1 DEF Covers
  <1>4. ASSUME NEW w \in Writers, Correct(w) \/ Supersede(w) \/ Retract(w)
        PROVE  \E b \in beliefs : b.memory = c.memory /\ Covers(b, t)
    <2>1. PICK at \in TrailTimes(w) : WroteAt(w, at)
      BY <1>4, WritesDo
    <2>2. Ends(w)
      BY <1>4, WriteEnds
    <2>3. t < job[w].stamp
      BY <2>2 DEF Settled, Ends
    <2>4. t < at
      BY <2>1, <2>3 DEF WroteAt
    <2>5. CASE c \in CloseOpen(job[w].id, at)
      BY <2>5, ClosingAddsNothing
    <2>6. CASE c.since = at
      BY <2>1, <2>4, <2>6 DEF Covers, WroteAt
    <2>7. CASE c.memory = job[w].id /\ c.since = job[w].original.asserted
      <3>1. job[w].id \in DOMAIN facts /\ facts[job[w].id].asserted <= t
        BY <2>1, <2>7 DEF WroteAt, BirthsAreRead, Covers
      <3>2. facts[job[w].id].retracted = Null
        BY <2>2 DEF ActsOnRetracted
      <3>3. PICK b \in beliefs : b.memory = job[w].id /\ ~(t < b.since)
        BY <2>2, <3>1 DEF ActsBeforeTrail
      <3>4. b.since \in Nat
        BY NullIsNone DEF TimelineInvariant, TypeOK, Windows
      <3>5. b.since <= t /\ t <= now
        BY <1>1, <3>3, <3>4
      <3> QED
        BY <2>7, <3>1, <3>2, <3>3, <3>5 DEF BelievedSince
    <2> QED
      BY <2>1, <2>5, <2>6, <2>7 DEF WroteAt
  <1> QED
    BY <1>2, <1>3, <1>4, OtherSteps

\* However questions and writers interleave, and however stale what a writer
\* read: what was believed at an instant, once every write under way is later,
\* is answered the same for ever while it stays within the limit of the read,
\* unless a writer acts on a fact that was not believed then although asserted.
THEOREM PastBeliefsAreFixed == HistorySpec => PastBeliefsStand
  <1>1. ASSUME TrailInvariant, [Next]_vars, NEW when \in Times, Settled(when),
               ~ \E w \in Writers :
                   Ends(w) /\ (ActsOnRetracted(w) \/ ActsBeforeTrail(w, when))
        PROVE  BelievedAt(when)' = BelievedAt(when)
    <2>1. when \in Nat
      BY NullIsNone
    <2>2. \A b \in beliefs : Covers(b, when) =>
             \E c \in beliefs' : c.memory = b.memory /\ Covers(c, when)
      BY <1>1, <2>1, CoverageStands DEF TrailInvariant
    <2>3. \A c \in beliefs' : Covers(c, when) =>
             \E b \in beliefs : b.memory = c.memory /\ Covers(b, when)
      BY <1>1, <2>1, NothingIsAddedToThePast
    <2>4. /\ BelievedAt(when) = {b.memory : b \in {c \in beliefs : Covers(c, when)}}
          /\ BelievedAt(when)' = {b.memory : b \in {c \in beliefs' : Covers(c, when)}}
      BY BelievedAtMeans
    <2>5. {b.memory : b \in {c \in beliefs : Covers(c, when)}}
             = {b.memory : b \in {c \in beliefs' : Covers(c, when)}}
      BY <2>2, <2>3
    <2> QED
      BY <2>4, <2>5
  <1>2. TrailInvariant /\ [Next]_vars =>
           [\A when \in Times :
              \/ ~Settled(when)
              \/ ~WithinLimit(when) \/ ~WithinLimit(when)'
              \/ BelievedAt(when)' = BelievedAt(when)
              \/ \E w \in Writers :
                    Ends(w) /\ (ActsOnRetracted(w) \/ ActsBeforeTrail(w, when))]_historyVars
    BY <1>1
  <1> QED
    BY <1>2, InitTrail, TrailStep, TimelineBeside, PTL DEF Spec, PastBeliefsStand

-----------------------------------------------------------------------------
\* What a question has read fits what it was asked

\* The trail says that belief in the fact ended because the other corrected it,
\* no earlier than the other was asserted.
CorrectedBy(id, other) ==
    \E b \in beliefs :
        /\ b.memory = id /\ b.cause = "corrected" /\ b.next = other
        /\ facts[other].asserted <= b.until

\* A correction is over when it is recorded, it is of a fact that is no longer
\* believed, and it is on the trail of what it corrects from the moment the
\* replacement is born.
CorrectionsOnTrail ==
    /\ \A b \in beliefs : b.cause = "corrected" =>
          b.until # Null /\ facts[b.memory].retracted # Null
    /\ \A id \in DOMAIN facts : facts[id].fixes # Null =>
          CorrectedBy(facts[id].fixes, id)

\* Of the facts nobody wrote to since, what was read of a state is in the state,
\* and is all of it unless the read returned as many rows as it may.
SameUntouched(read, state, touched) ==
    read \ touched \subseteq state /\ (Full(read) \/ state \ touched \subseteq read)

ReadsFit ==
    \A r \in Readers :
        LET q == reader[r] IN
        q # Waiting =>
            /\ q.start <= q.end
            /\ q.at \in {"end", "corrected"} =>
                  SameUntouched(q.first, StateAt(q.start), q.touched)
            /\ q.at = "corrected" =>
                  SameUntouched(q.last, StateAt(q.end), q.touched)

HistoryFits == HistoryTypeOK /\ CorrectionsOnTrail /\ ReadsFit

\* What a step of the timeline writes on the trail of corrections: nothing,
\* unless it corrects a fact.
LEMMA CorrectionsWritten ==
    ASSUME TimelineInvariant, [Next]_vars, NEW b \in beliefs', b.cause = "corrected"
    PROVE  \/ \E c \in beliefs : /\ c.memory = b.memory /\ c.cause = "corrected"
                                 /\ c.until = b.until \/ c.until = Null
           \/ \E w \in Writers : Correct(w) /\ b.memory = job[w].id /\ b.until # Null
  <1>1. ASSUME NEW id, NEW at, b \in CloseOpen(id, at)
        PROVE  \E c \in beliefs : /\ c.memory = b.memory /\ c.cause = "corrected"
                                  /\ c.until = b.until \/ c.until = Null
    BY <1>1, ClosingAddsNothing
  <1>2. CASE b \in beliefs
    BY <1>2
  <1>3. ASSUME NEW w \in Writers, Correct(w)
        PROVE  \/ \E at : b \in CloseOpen(job[w].id, at)
               \/ b.memory = job[w].id /\ b.until # Null
    <2>1. PICK at \in TrailTimes(w) : CorrectedWell(w, at)
      BY <1>3, CorrectEffect
    <2>2. at # Null
      BY <1>3, WritesDo, TrailIsLater, WriteEnds DEF Ends, TimelineInvariant
    <2> QED
      BY <2>1, <2>2 DEF CorrectedWell, Asserted, Window
  <1>4. ASSUME NEW w \in Writers, Supersede(w) \/ Retract(w)
        PROVE  \E at : b \in CloseOpen(job[w].id, at)
    <2>1. CASE Supersede(w)
      <3>1. PICK at \in TrailTimes(w) : SupersededWell(w, at)
        BY <2>1, SupersedeEffect
      <3> QED
        BY <3>1 DEF SupersededWell, Asserted, Window
    <2>2. CASE Retract(w)
      <3>1. PICK at \in TrailTimes(w) : RetractedWell(w, at)
        BY <2>2, RetractEffect
      <3> QED
        BY <3>1 DEF RetractedWell, Window
    <2> QED
      BY <1>4, <2>1, <2>2
  <1> QED
    BY <1>1, <1>2, <1>3, <1>4, OtherSteps

\* A correction stays on the trail, where it is found when it is looked for.
LEMMA CorrectionsStay ==
    ASSUME TimelineInvariant, CorrectionsOnTrail, [Next]_vars
    PROVE  CorrectionsOnTrail'
  <1>1. FixesStand /\ TrailGrows
    BY FixesAreCorrections, TrailOnlyGrows
  <1>2. \A b \in beliefs : b.memory \in DOMAIN facts
    BY DEF TimelineInvariant, TypeOK
  <1>3. ASSUME NEW w \in Writers, Correct(w)
        PROVE  \E at \in TrailTimes(w) :
                  CorrectedWell(w, at) /\ facts'[job[w].id].retracted # Null
    <2>1. PICK at \in TrailTimes(w) : CorrectedWell(w, at)
      BY <1>3, CorrectEffect
    <2>2. facts[job[w].id] \in Rows /\ job[w].stamp \in Times
      BY <1>3, WriteEnds, BusyWriter DEF Ends, TimelineInvariant
    <2> QED
      BY <2>1, <2>2, EndBeliefDoes DEF CorrectedWell
  <1>4. ASSUME NEW b \in beliefs', b.cause = "corrected"
        PROVE  b.until # Null /\ facts'[b.memory].retracted # Null
    <2>1. ASSUME NEW c \in beliefs, c.memory = b.memory, c.cause = "corrected",
                 c.until = b.until \/ c.until = Null
          PROVE  b.until # Null /\ facts'[b.memory].retracted # Null
      BY <1>1, <1>2, <2>1 DEF CorrectionsOnTrail, FixesStand
    <2> QED
      BY <1>3, <1>4, <2>1, CorrectionsWritten
  <1>5. ASSUME NEW id \in DOMAIN facts', facts'[id].fixes # Null
        PROVE  \E b \in beliefs' : /\ b.memory = facts'[id].fixes
                                   /\ b.cause = "corrected" /\ b.next = id
                                   /\ facts'[id].asserted <= b.until
    <2>1. CASE id \in DOMAIN facts
      <3>1. /\ facts'[id].fixes = facts[id].fixes
            /\ facts'[id].asserted = facts[id].asserted
        BY <1>1, <2>1, BirthsStand DEF FixesStand
      <3>2. PICK b \in beliefs : /\ b.memory = facts[id].fixes
                                 /\ b.cause = "corrected" /\ b.next = id
                                 /\ facts[id].asserted <= b.until
        BY <1>5, <2>1, <3>1 DEF CorrectionsOnTrail, CorrectedBy
      <3>3. b.until # Null
        BY <3>2 DEF CorrectionsOnTrail
      <3>4. b \in beliefs'
        BY <1>1, <3>3 DEF TrailGrows
      <3> QED
        BY <3>1, <3>2, <3>4
    <2>2. CASE id \notin DOMAIN facts
      <3>1. PICK w \in Writers : Correct(w) /\ facts'[id].fixes = job[w].id /\ id = NewId
        BY <1>1, <1>5, <2>2 DEF FixesStand
      <3>2. PICK at \in TrailTimes(w) : CorrectedWell(w, at)
        BY <1>3, <3>1
      <3>3. facts'[id].asserted = job[w].stamp /\ job[w].stamp <= at
        BY <3>1, <3>2 DEF CorrectedWell, TrailTimes
      <3> DEFINE made == Window(job[w].id, "corrected", job[w].original.asserted, at,
                                job[w].original.from, job[w].original.to, NewId)
      <3>4. made \in beliefs'
        BY <3>2 DEF CorrectedWell
      <3>5. /\ made.memory = job[w].id /\ made.cause = "corrected"
            /\ made.until = at /\ made.next = NewId
        BY DEF Window
      <3> HIDE DEF made
      <3> QED
        BY <3>1, <3>3, <3>4, <3>5
    <2> QED
      BY <2>1, <2>2
  <1> QED
    BY <1>4, <1>5 DEF CorrectionsOnTrail, CorrectedBy

\* A state that was read stays the state, but for what is written since.
LEMMA UntouchedStands ==
    ASSUME TimelineInvariant, [Next]_vars, NEW t, NEW read, NEW touched,
           SameUntouched(read, StateAt(t), touched)
    PROVE  SameUntouched(read, StateAt(t)', touched \union Written)
  <1>1. \A id \in DOMAIN facts : id \in DOMAIN facts'
    BY FixesAreCorrections DEF FixesStand
  <1>2. \A id : id \notin Written =>
           /\ id \in DOMAIN facts <=> id \in DOMAIN facts'
           /\ id \in DOMAIN facts => facts'[id] = facts[id]
    BY <1>1 DEF Written
  <1>3. \A id : id \notin Written => (id \in StateAt(t)' <=> id \in StateAt(t))
    BY <1>2 DEF StateAt
  <1> QED
    BY <1>3 DEF SameUntouched

\* A step of the timeline leaves each question where it is, and notes beside
\* one that is reading what it wrote.
LEMMA ElsewhereFits ==
    ASSUME TimelineInvariant, HistoryFits, Elsewhere
    PROVE  HistoryFits'
  <1> USE DEF HistoryFits
  <1>1. [Next]_vars /\ TimelineInvariant' /\ CorrectionsOnTrail'
    BY NextKeeps, CorrectionsStay DEF Elsewhere
  <1>2. Written \subseteq Ids
    <2>1. Len(facts') \in Nat /\ DOMAIN facts' = 1..Len(facts')
      BY <1>1, LenProperties DEF TimelineInvariant, TypeOK
    <2>2. Len(facts') <= MaxFacts
      BY <1>1 DEF TimelineInvariant, TypeOK
    <2> QED
      BY <2>1, <2>2, TimelineAssumption DEF Written, Ids
  <1>3. ASSUME NEW r \in Readers
        PROVE  /\ reader'[r] \in Questions \union {Waiting}
               /\ reader'[r] # Waiting => reader[r] # Waiting
               /\ reader[r] # Waiting =>
                    /\ reader'[r].at = reader[r].at
                    /\ reader'[r].start = reader[r].start
                    /\ reader'[r].end = reader[r].end
                    /\ reader'[r].first = reader[r].first
                    /\ reader'[r].last = reader[r].last
                    /\ reader[r].at \in {"end", "corrected"} =>
                         reader'[r].touched = reader[r].touched \union Written
    <2>1. PICK q : q = reader[r]
      OBVIOUS
    <2>2. q \in Questions \union {Waiting}
      BY <2>1 DEF HistoryTypeOK
    <2>3. reader'[r] = IF q.at \in {"end", "corrected"}
                       THEN [q EXCEPT !.touched = q.touched \union Written] ELSE q
      BY <2>1 DEF Elsewhere
    <2>4. CASE q = Waiting
      BY <2>1, <2>3, <2>4 DEF Waiting
    <2>5. CASE q \in Questions
      <3>1. q.touched \in SUBSET Ids /\ q.touched \union Written \in SUBSET Ids
        BY <1>2, <2>5 DEF Questions
      <3>2. PICK next : next = reader'[r]
        OBVIOUS
      <3>3. PICK touched \in SUBSET Ids : touched = q.touched \union Written
        BY <3>1
      <3>4. next = IF q.at \in {"end", "corrected"}
                   THEN [q EXCEPT !.touched = touched] ELSE q
        BY <2>3, <3>2, <3>3
      <3>5. /\ next \in Questions
            /\ next.at = q.at /\ next.start = q.start /\ next.end = q.end
            /\ next.first = q.first /\ next.last = q.last
            /\ q.at \in {"end", "corrected"} => next.touched = touched
        BY <2>5, <3>4 DEF Questions
      <3>6. q # Waiting
        BY <2>5 DEF Questions, Waiting
      <3> QED
        BY <2>1, <3>2, <3>3, <3>5, <3>6
    <2> QED
      BY <2>2, <2>4, <2>5
  <1>4. HistoryTypeOK'
    <2>1. reader' = [r \in Readers |-> reader'[r]]
      BY DEF Elsewhere
    <2> QED
      BY <1>3, <2>1 DEF HistoryTypeOK
  <1>5. ReadsFit'
    <2> SUFFICES ASSUME NEW r \in Readers, reader'[r] # Waiting
                 PROVE  /\ reader'[r].start <= reader'[r].end
                        /\ reader'[r].at \in {"end", "corrected"} =>
                             SameUntouched(reader'[r].first, StateAt(reader[r].start)',
                                           reader'[r].touched)
                        /\ reader'[r].at = "corrected" =>
                             SameUntouched(reader'[r].last, StateAt(reader[r].end)',
                                           reader'[r].touched)
      BY DEF ReadsFit
    <2> QED
      BY <1>1, <1>3, UntouchedStands DEF ReadsFit
  <1> QED
    BY <1>1, <1>4, <1>5

\* What a read of one question leaves: the others as they were, the timeline
\* as it was, so that a state read then is the state still.
LEMMA QuestionFits ==
    ASSUME TimelineInvariant, HistoryFits, UNCHANGED vars,
           NEW r \in Readers, NEW next \in Questions \union {Waiting},
           reader' = [reader EXCEPT ![r] = next],
           next # Waiting =>
               /\ next.start <= next.end
               /\ next.at \in {"end", "corrected"} =>
                     SameUntouched(next.first, StateAt(next.start), next.touched)
               /\ next.at = "corrected" =>
                     SameUntouched(next.last, StateAt(next.end), next.touched)
    PROVE  HistoryFits'
  <1> USE DEF HistoryFits
  <1>1. reader \in [Readers -> Questions \union {Waiting}]
    BY DEF HistoryTypeOK
  <1>2. /\ reader'[r] = next
        /\ \A other \in Readers \ {r} : reader'[other] = reader[other]
    BY <1>1
  <1>3. HistoryTypeOK'
    BY <1>1 DEF HistoryTypeOK
  <1>4. CorrectionsOnTrail'
    BY DEF CorrectionsOnTrail, CorrectedBy, vars
  <1>5. \A t : StateAt(t)' = StateAt(t)
    BY DEF StateAt, vars
  <1>6. ReadsFit'
    <2> SUFFICES ASSUME NEW other \in Readers, reader'[other] # Waiting
                 PROVE  /\ reader'[other].start <= reader'[other].end
                        /\ reader'[other].at \in {"end", "corrected"} =>
                             SameUntouched(reader'[other].first,
                                           StateAt(reader[other].start)',
                                           reader'[other].touched)
                        /\ reader'[other].at = "corrected" =>
                             SameUntouched(reader'[other].last,
                                           StateAt(reader[other].end)',
                                           reader'[other].touched)
      BY DEF ReadsFit
    <2>1. CASE other = r
      BY <1>2, <1>5, <2>1
    <2>2. CASE other # r
      BY <1>2, <1>5, <2>2 DEF ReadsFit
    <2> QED
      BY <2>1, <2>2
  <1> QED
    BY <1>3, <1>4, <1>6

\* What is read of a state is in it, and all of it unless the read is full, and
\* it only has facts that exist.
LEMMA ReadIsOfState ==
    ASSUME TimelineInvariant, NEW t, NEW read \in StatesRead(t)
    PROVE  read \in SUBSET Ids /\ SameUntouched(read, StateAt(t), {})
  <1>1. read \subseteq StateAt(t) /\ StateAt(t) \subseteq Ids
    BY NewIdFree DEF StatesRead, StateAt, TimelineInvariant
  <1>2. read = StateAt(t) \/ Cardinality(read) = StateLimit
    BY DEF StatesRead
  <1>3. Cardinality(read) = StateLimit => Full(read)
    BY HistoryAssumption DEF Full
  <1> QED
    BY <1>1, <1>2, <1>3 DEF SameUntouched

\* Whatever question is asked or answered, and whatever is written meanwhile.
LEMMA HistoryStep ==
    ASSUME TimelineInvariant, HistoryFits, [HistoryNext]_historyVars
    PROVE  HistoryFits'
  <1> USE DEF HistoryFits
  <1>1. /\ reader \in [Readers -> Questions \union {Waiting}] /\ ReadsFit
        /\ now \in Times /\ Times \subseteq Nat
    BY NullIsNone DEF HistoryTypeOK, TimelineInvariant, TypeOK
  <1>2. CASE UNCHANGED historyVars
    BY <1>2 DEF historyVars, vars, HistoryTypeOK, CorrectionsOnTrail, CorrectedBy,
                ReadsFit, SameUntouched, Full, StateAt
  <1>3. CASE Elsewhere
    BY <1>3, ElsewhereFits
  <1>4. ASSUME NEW r \in Readers, Interpret(r)
        PROVE  HistoryFits'
    <2>1. PICK at \in {"world", "belief", "start"}, start \in Times, end \in Times :
             /\ start <= end
             /\ reader' = [reader EXCEPT ![r] =
                   [at |-> at, start |-> start, end |-> end,
                    first |-> {}, last |-> {}, touched |-> {}]]
      <3>1. PICK at \in {"world", "belief", "start"}, asked \in Asked :
               LET until == IF asked[2] = Null THEN now ELSE asked[2]
                   period == IF at = "start" THEN InOrder(asked[1], until)
                             ELSE <<asked[1], asked[1]>>
               IN  reader' = [reader EXCEPT ![r] =
                      [at |-> at, start |-> period[1], end |-> period[2],
                       first |-> {}, last |-> {}, touched |-> {}]]
        BY <1>4 DEF Interpret
      <3>7. asked[1] \in Times /\ asked[2] \in Times \union {Null}
        BY <3>1, HistoryAssumption
      <3>8. PICK when \in Times : when = asked[1]
        BY <3>7
      <3>2. PICK last \in Times : last = IF asked[2] = Null THEN now ELSE asked[2]
        BY <1>1, <3>7
      <3>3. PICK period : period = IF at = "start" THEN InOrder(when, last)
                                   ELSE <<when, when>>
        OBVIOUS
      <3>4. period[1] \in Times /\ period[2] \in Times /\ period[1] <= period[2]
        BY <1>1, <3>3 DEF InOrder
      <3>5. PICK start \in Times, end \in Times : start = period[1] /\ end = period[2]
        BY <3>4
      <3>6. reader' = [reader EXCEPT ![r] =
                  [at |-> at, start |-> start, end |-> end,
                   first |-> {}, last |-> {}, touched |-> {}]]
        BY <3>1, <3>2, <3>3, <3>5, <3>8
      <3> QED
        BY <3>4, <3>5, <3>6
    <2> DEFINE next == [at |-> at, start |-> start, end |-> end,
                        first |-> {}, last |-> {}, touched |-> {}]
    <2>2. /\ next \in Questions /\ next.start <= next.end
          /\ next.at \notin {"end", "corrected"}
      BY <2>1 DEF Questions
    <2>3. UNCHANGED vars /\ reader' = [reader EXCEPT ![r] = next]
      BY <1>4, <2>1 DEF Interpret
    <2> HIDE DEF next
    <2> QED
      BY <2>2, <2>3, QuestionFits
  <1>5. ASSUME NEW r \in Readers, ReadInstant(r) \/ ReadCorrections(r)
        PROVE  HistoryFits'
    BY <1>5, QuestionFits DEF ReadInstant, ReadCorrections
  <1>6. ASSUME NEW r \in Readers, ReadStart(r)
        PROVE  HistoryFits'
    <2>1. PICK q : q = reader[r]
      OBVIOUS
    <2>2. q \in Questions
      BY <1>1, <1>6, <2>1 DEF ReadStart, Waiting
    <2>3. PICK read \in StatesRead(q.start) :
             reader' = [reader EXCEPT ![r].first = read, ![r].at = "end"]
      BY <1>6, <2>1 DEF ReadStart
    <2>8. read \in SUBSET Ids /\ SameUntouched(read, StateAt(q.start), {})
      BY <2>3, ReadIsOfState
    <2>4. PICK next : next = [q EXCEPT !.first = read, !.at = "end"]
      OBVIOUS
    <2>5. UNCHANGED vars /\ reader' = [reader EXCEPT ![r] = next]
      BY <1>1, <1>6, <2>1, <2>3, <2>4 DEF ReadStart
    <2>6. /\ next \in Questions /\ next.at = "end"
          /\ next.start = q.start /\ next.end = q.end /\ next.first = read
      BY <2>2, <2>4, <2>8 DEF Questions
    <2>7. q.start <= q.end
      BY <1>1, <2>1, <2>2 DEF ReadsFit, Questions, Waiting
    <2> QED
      BY <2>5, <2>6, <2>7, <2>8, QuestionFits DEF SameUntouched
  <1>7. ASSUME NEW r \in Readers, ReadEnd(r)
        PROVE  HistoryFits'
    <2>1. PICK q : q = reader[r]
      OBVIOUS
    <2>2. q \in Questions /\ q.at = "end"
      BY <1>1, <1>7, <2>1 DEF ReadEnd, Waiting
    <2>3. PICK read \in StatesRead(q.end) :
             reader' = [reader EXCEPT ![r].last = read, ![r].at = "corrected"]
      BY <1>7, <2>1 DEF ReadEnd
    <2>8. read \in SUBSET Ids /\ SameUntouched(read, StateAt(q.end), {})
      BY <2>3, ReadIsOfState
    <2>4. PICK next : next = [q EXCEPT !.last = read, !.at = "corrected"]
      OBVIOUS
    <2>5. UNCHANGED vars /\ reader' = [reader EXCEPT ![r] = next]
      BY <1>1, <1>7, <2>1, <2>3, <2>4 DEF ReadEnd
    <2>6. /\ next \in Questions /\ next.at = "corrected"
          /\ next.start = q.start /\ next.end = q.end /\ next.last = read
          /\ next.first = q.first /\ next.touched = q.touched
      BY <2>2, <2>4, <2>8 DEF Questions
    <2>7. q.start <= q.end /\ SameUntouched(q.first, StateAt(q.start), q.touched)
      BY <1>1, <2>1, <2>2 DEF ReadsFit, Questions, Waiting
    <2> QED
      BY <2>5, <2>6, <2>7, <2>8, QuestionFits DEF SameUntouched
  <1> QED
    BY <1>2, <1>3, <1>4, <1>5, <1>6, <1>7 DEF HistoryNext

\* What was read in three parts makes an answer that is about the world.
LEMMA FitsTellsTheWorld ==
    ASSUME TimelineInvariant, HistoryFits
    PROVE  DiffsTellChanges
  <1> SUFFICES ASSUME NEW r \in Readers, reader[r].at = "corrected"
               PROVE  /\ ChangesAreOfTheWorld(reader[r])
                      /\ CorrectionsAreNotChanges(reader[r])
    BY DEF DiffsTellChanges
  <1>1. PICK q : q = reader[r]
    OBVIOUS
  <1>2. /\ q \in Questions /\ q.start \in Nat /\ q.end \in Nat /\ q.start <= q.end
        /\ SameUntouched(q.first, StateAt(q.start), q.touched)
        /\ SameUntouched(q.last, StateAt(q.end), q.touched)
    <2>1. q # Waiting /\ q \in Questions \union {Waiting}
      BY <1>1 DEF HistoryFits, HistoryTypeOK, Waiting
    <2>2. q \in Questions /\ q.start \in Nat /\ q.end \in Nat
      BY <2>1, NullIsNone DEF Questions
    <2> QED
      BY <1>1, <2>1, <2>2 DEF HistoryFits, ReadsFit
  <1>3. \A id \in DOMAIN facts :
           facts[id].from \in Nat /\ facts[id].to \in Nat
    <2>1. \A id \in DOMAIN facts : facts[id] \in Rows
      BY NewIdFree DEF TimelineInvariant
    <2>2. Null \in Nat
      BY DEF Null
    <2> QED
      BY <2>1, <2>2, NullIsNone DEF Rows
  <1>4. \A id \in Corrected(q) : id \in DOMAIN facts /\ facts[id].retracted # Null
    BY DEF Corrected, CorrectedIn, HistoryFits, CorrectionsOnTrail, TimelineInvariant,
           TypeOK
  <1>5. ChangesAreOfTheWorld(q)
    <2> SUFFICES ASSUME NEW id \in DOMAIN facts, id \notin q.touched
                 PROVE  /\ id \in Became(q) =>
                             id \in StateAt(q.end) /\ (Began(id, q) \/ Full(q.first))
                        /\ Began(id, q) /\ id \in StateAt(q.end) =>
                             id \in Became(q) \/ Full(q.last)
                        /\ id \in Ceased(q) =>
                             id \in StateAt(q.start) /\ (Ended(id, q) \/ Full(q.last))
                        /\ Ended(id, q) /\ id \in StateAt(q.start) =>
                             id \in Ceased(q) \/ Full(q.first)
      BY DEF ChangesAreOfTheWorld
    <2>1. /\ id \in q.first => id \in StateAt(q.start)
          /\ id \in StateAt(q.start) => id \in q.first \/ Full(q.first)
          /\ id \in q.last => id \in StateAt(q.end)
          /\ id \in StateAt(q.end) => id \in q.last \/ Full(q.last)
      BY <1>2 DEF SameUntouched
    <2>2. id \in StateAt(q.end) =>
             (id \notin StateAt(q.start) <=> Began(id, q))
      BY <1>2, <1>3 DEF Began, StateAt, Null
    <2>3. id \in StateAt(q.start) =>
             (id \notin StateAt(q.end) <=> Ended(id, q))
      BY <1>2, <1>3 DEF Ended, StateAt, Null
    <2>4. id \in StateAt(q.start) => id \notin Corrected(q)
      BY <1>4 DEF StateAt
    <2> QED
      BY <2>1, <2>2, <2>3, <2>4 DEF Became, Ceased
  <1>6. CorrectionsAreNotChanges(q)
    <2> SUFFICES ASSUME NEW id \in Ceased(q), NEW other \in DOMAIN facts,
                        facts[other].fixes = id
                 PROVE  \E b \in beliefs :
                          /\ b.memory = id /\ b.cause = "corrected" /\ b.next = other
                          /\ facts[other].asserted <= b.until
                          /\ ~(q.start < b.until /\ b.until <= q.end)
      BY DEF CorrectionsAreNotChanges
    <2>1. id \in Ids /\ id # Null /\ id \notin Corrected(q)
      BY <1>2, NullIsNone DEF Ceased, Questions
    <2>2. PICK b \in beliefs :
             /\ b.memory = id /\ b.cause = "corrected" /\ b.next = other
             /\ facts[other].asserted <= b.until
      BY <2>1 DEF HistoryFits, CorrectionsOnTrail, CorrectedBy
    <2>3. ~(q.start < b.until /\ b.until <= q.end)
      BY <2>1, <2>2 DEF Corrected, CorrectedIn
    <2> QED
      BY <2>2, <2>3
  <1> QED
    BY <1>1, <1>5, <1>6

\* The invariant under any number of questions and writers: of every
\* fact not written to since, what a question has read is what is true, all of
\* it unless the read is full, and what was corrected is on the trail.
THEOREM InvariantOfHistory == HistorySpec => [](TimelineInvariant /\ HistoryFits)
  <1>1. HistoryInit => TimelineInvariant /\ HistoryFits
    <2> SUFFICES ASSUME HistoryInit PROVE TimelineInvariant /\ HistoryFits
      OBVIOUS
    <2>1. TimelineInvariant /\ DOMAIN facts = {} /\ beliefs = {}
      BY InitInvariant DEF HistoryInit, Init
    <2> QED
      BY <2>1 DEF HistoryInit, HistoryFits, HistoryTypeOK, CorrectionsOnTrail, ReadsFit
  <1>2. /\ TimelineInvariant /\ HistoryFits /\ [HistoryNext]_historyVars
        => (TimelineInvariant /\ HistoryFits)'
    <2>1. [HistoryNext]_historyVars => [Next]_vars
      BY DEF HistoryNext, historyVars, Elsewhere, Interpret, ReadInstant, ReadStart,
             ReadEnd, ReadCorrections
    <2> QED
      BY <2>1, NextKeeps, HistoryStep
  <1> QED
    BY <1>1, <1>2, PTL DEF HistorySpec

\* A diff of two instants reports of a fact nobody wrote to meanwhile what
\* changed in the world inside the period, and nothing else unless a read was
\* full; and it never reports a correction the trail has inside the period as a
\* change of the world, wherever between its three reads the writes land.
THEOREM DiffsTellTheWorld == HistorySpec => []HistoryInvariant
  <1>1. TimelineInvariant /\ HistoryFits => HistoryInvariant
    BY FitsTellsTheWorld DEF HistoryFits, HistoryInvariant
  <1> QED
    BY InvariantOfHistory, <1>1, PTL

-----------------------------------------------------------------------------
\* The calendar

\* Months are counted from the year 0, and split as add_months splits them.
LEMMA MonthsSplit ==
    ASSUME NEW n \in Int
    PROVE  /\ n \div 12 \in Int /\ n % 12 \in 0..11
           /\ 12 * (n \div 12) + (n % 12) = n
  OBVIOUS

LEMMA MonthsJoin ==
    ASSUME NEW y \in Int, NEW k \in 0..11
    PROVE  (y * 12 + k) \div 12 = y /\ (y * 12 + k) % 12 = k
  OBVIOUS

\* A year is as long as its months.
LEMMA YearsAreLong ==
    ASSUME NEW y \in Int
    PROVE  /\ DaysBeforeYear(y) \in Int
           /\ DaysBeforeYear(y + 1) = DaysBeforeYear(y) + (IF Leap(y) THEN 366 ELSE 365)
  <1>1. y \div 4 - (y - 1) \div 4 = IF y % 4 = 0 THEN 1 ELSE 0
    OBVIOUS
  <1>2. y \div 100 - (y - 1) \div 100 = IF y % 100 = 0 THEN 1 ELSE 0
    OBVIOUS
  <1>3. y \div 400 - (y - 1) \div 400 = IF y % 400 = 0 THEN 1 ELSE 0
    OBVIOUS
  <1>4. /\ y % 100 = 0 => y % 4 = 0
        /\ y % 400 = 0 => y % 100 = 0
    OBVIOUS
  <1> QED
    BY <1>1, <1>2, <1>3, <1>4 DEF DaysBeforeYear, Leap

LEMMA MonthsAreLong ==
    ASSUME NEW y \in Int, NEW m \in 1..12
    PROVE  /\ DaysBeforeMonth(y, m) \in Int /\ MonthDays(y, m) \in 28..31
           /\ IF m = 12 THEN DaysBeforeMonth(y, m) + MonthDays(y, m)
                                = IF Leap(y) THEN 366 ELSE 365
              ELSE DaysBeforeMonth(y, m + 1) = DaysBeforeMonth(y, m) + MonthDays(y, m)
  BY DEF DaysBeforeMonth, MonthDays

\* The month a date is in, and the day the month of a number begins.
MonthOf(date) == 12 * date.y + date.m - 1
FirstOf(n) == DayNumber(Date(n \div 12, (n % 12) + 1, 1))

\* A month begins when the one before ends.
LEMMA MonthsFollow ==
    ASSUME NEW n \in Int
    PROVE  /\ FirstOf(n) \in Int
           /\ FirstOf(n + 1) = FirstOf(n) + MonthDays(n \div 12, (n % 12) + 1)
           /\ MonthDays(n \div 12, (n % 12) + 1) \in 28..31
  <1>1. PICK y \in Int, k \in 0..11 : y = n \div 12 /\ k = n % 12 /\ n = y * 12 + k
    BY MonthsSplit
  <1>2. k + 1 \in 1..12
    OBVIOUS
  <1>3. FirstOf(n) = DaysBeforeYear(y) + DaysBeforeMonth(y, k + 1) + 1
    BY <1>1 DEF FirstOf, DayNumber, Date
  <1>4. /\ DaysBeforeYear(y) \in Int /\ DaysBeforeMonth(y, k + 1) \in Int
        /\ MonthDays(y, k + 1) \in 28..31
    BY <1>2, YearsAreLong, MonthsAreLong
  <1>5. CASE k = 11
    <2>1. (n + 1) \div 12 = y + 1 /\ (n + 1) % 12 = 0
      BY <1>1, <1>5
    <2>2. FirstOf(n + 1) = DaysBeforeYear(y + 1) + DaysBeforeMonth(y + 1, 1) + 1
      BY <2>1 DEF FirstOf, DayNumber, Date
    <2>3. DaysBeforeMonth(y + 1, 1) = 0
      BY DEF DaysBeforeMonth
    <2>4. DaysBeforeMonth(y, 12) + MonthDays(y, 12) = IF Leap(y) THEN 366 ELSE 365
      BY MonthsAreLong
    <2>5. DaysBeforeYear(y + 1) = DaysBeforeYear(y) + (IF Leap(y) THEN 366 ELSE 365)
      BY YearsAreLong
    <2>6. DaysBeforeYear(y + 1)
             = DaysBeforeYear(y) + DaysBeforeMonth(y, k + 1) + MonthDays(y, k + 1)
      BY <1>4, <1>5, <2>4, <2>5
    <2> QED
      BY <1>1, <1>3, <1>4, <2>2, <2>3, <2>6
  <1>6. CASE k # 11
    <2>1. (n + 1) \div 12 = y /\ (n + 1) % 12 = k + 1 /\ k + 1 \in 1..11
      BY <1>1, <1>6
    <2>2. FirstOf(n + 1) = DaysBeforeYear(y) + DaysBeforeMonth(y, (k + 1) + 1) + 1
      BY <2>1 DEF FirstOf, DayNumber, Date
    <2>3. DaysBeforeMonth(y, (k + 1) + 1)
             = DaysBeforeMonth(y, k + 1) + MonthDays(y, k + 1)
      <3>1. PICK m \in 1..12 : m = k + 1 /\ m # 12
        BY <2>1
      <3>2. DaysBeforeMonth(y, m + 1) = DaysBeforeMonth(y, m) + MonthDays(y, m)
        BY <3>1, MonthsAreLong
      <3> QED
        BY <3>1, <3>2
    <2> QED
      BY <1>1, <1>3, <1>4, <2>2, <2>3
  <1> QED
    BY <1>5, <1>6

\* add_months, from the first of a month.
LEMMA AddingMonths ==
    ASSUME NEW n \in Int, NEW months \in Int
    PROVE  DayNumber(AddMonths(Date(n \div 12, (n % 12) + 1, 1), months))
              = FirstOf(n + months)
  <1>1. PICK date : date = Date(n \div 12, (n % 12) + 1, 1)
    OBVIOUS
  <1>2. date.y * 12 + date.m - 1 + months = n + months /\ date.d = 1
    BY <1>1, MonthsSplit DEF Date
  <1>3. PICK total \in Int : total = n + months
    OBVIOUS
  <1>4. 1 <= MonthDays(total \div 12, (total % 12) + 1)
    <2>1. PICK days \in 28..31 : days = MonthDays(total \div 12, (total % 12) + 1)
      BY MonthsFollow
    <2> QED
      BY <2>1
  <1>5. AddMonths(date, months) = Date(total \div 12, (total % 12) + 1, 1)
    BY <1>2, <1>3, <1>4 DEF AddMonths
  <1> QED
    BY <1>1, <1>3, <1>5 DEF FirstOf

\* The month that add_months reaches, from any day of one.
LEMMA MonthReached ==
    ASSUME NEW date \in Dates, NEW months \in Int
    PROVE  /\ MonthOf(date) \in Int
           /\ AddMonths(date, months).y = (MonthOf(date) + months) \div 12
           /\ AddMonths(date, months).m = ((MonthOf(date) + months) % 12) + 1
  <1>1. PICK y \in Years, m \in 1..12 : \E d \in 1..MonthDays(y, m) : date = Date(y, m, d)
    BY DEF Dates
  <1>2. date.y = y /\ date.m = m
    BY <1>1 DEF Date
  <1>3. y \in Int
    BY CalendarAssumption
  <1>4. date.y * 12 + date.m - 1 + months = MonthOf(date) + months /\ MonthOf(date) \in Int
    BY <1>2, <1>3 DEF MonthOf
  <1> QED
    BY <1>4 DEF AddMonths, Date

\* Where a date lies in its month.
LEMMA DateInMonth ==
    ASSUME NEW date \in Dates
    PROVE  /\ date.y \in Int /\ date.m \in 1..12
           /\ MonthOf(date) \in Int
           /\ MonthOf(date) \div 12 = date.y /\ MonthOf(date) % 12 = date.m - 1
           /\ DayNumber(date) \in Int
           /\ FirstOf(MonthOf(date)) <= DayNumber(date)
           /\ DayNumber(date) < FirstOf(MonthOf(date) + 1)
  <1>1. PICK y \in Years, m \in 1..12 : \E d \in 1..MonthDays(y, m) : date = Date(y, m, d)
    BY DEF Dates
  <1>2. PICK d \in 1..MonthDays(y, m) : date = Date(y, m, d)
    BY <1>1
  <1>3. date.y = y /\ date.m = m /\ date.d = d
    BY <1>2 DEF Date
  <1>4. y \in Int
    BY CalendarAssumption
  <1>5. MonthDays(y, m) \in 28..31
    BY <1>4, MonthsAreLong
  <1>6. d \in 1..MonthDays(y, m)
    BY <1>2
  <1>7. PICK n \in Int : n = MonthOf(date)
    BY <1>3, <1>4 DEF MonthOf
  <1>8. n = y * 12 + (m - 1) /\ m - 1 \in 0..11
    BY <1>3, <1>4, <1>7 DEF MonthOf
  <1>9. n \div 12 = y /\ n % 12 = m - 1
    BY <1>4, <1>8, MonthsJoin
  <1>10. FirstOf(n) = DaysBeforeYear(y) + DaysBeforeMonth(y, m) + 1
    BY <1>9 DEF FirstOf, DayNumber, Date
  <1>11. FirstOf(n + 1) = FirstOf(n) + MonthDays(y, m) /\ FirstOf(n) \in Int
    <2>1. n \div 12 = y /\ (n % 12) + 1 = m
      BY <1>9
    <2> QED
      BY <2>1, MonthsFollow
  <1>12. DayNumber(date) = DaysBeforeYear(y) + DaysBeforeMonth(y, m) + d
    BY <1>3 DEF DayNumber
  <1>13. DaysBeforeYear(y) \in Int /\ DaysBeforeMonth(y, m) \in Int
    BY <1>4, YearsAreLong, MonthsAreLong
  <1>14. /\ DayNumber(date) \in Int /\ FirstOf(n) <= DayNumber(date)
         /\ DayNumber(date) < FirstOf(n) + MonthDays(y, m)
    BY <1>5, <1>6, <1>10, <1>12, <1>13
  <1> QED
    BY <1>3, <1>4, <1>7, <1>9, <1>11, <1>14

-----------------------------------------------------------------------------
\* The periods of a unit

\* The day on which the period that is steps from a date's own begins.
Begins(date, steps, unit) ==
    CASE unit = "day" -> DayNumber(date) + steps
      [] unit = "week" -> DayNumber(date) - Weekday(DayNumber(date)) + 7 * steps
      [] unit = "month" -> FirstOf(MonthOf(date) + steps)
      [] unit = "quarter" -> FirstOf(3 * (MonthOf(date) \div 3) + 3 * steps)
      [] unit = "year" -> FirstOf(12 * date.y + 12 * steps)

\* _shift and _window give the days from one beginning to the next.
LEMMA ShiftedIs ==
    ASSUME NEW date \in Dates, NEW steps \in Int, NEW unit \in Units
    PROVE  Shifted(date, steps, unit)
              = <<Begins(date, steps, unit), Begins(date, steps + 1, unit)>>
  <1>1. PICK day \in Int : day = DayNumber(date)
    BY DateInMonth
  <1>2. PICK n \in Int : n = MonthOf(date)
    BY DateInMonth
  <1>3. PICK y \in Int, k \in 0..11 : y = date.y /\ n = 12 * y + k
    BY <1>2, DateInMonth, MonthsSplit
  <1>4. CASE unit = "day"
    <2>1. Shifted(date, steps, unit) = <<day + steps, day + steps + 1>>
      BY <1>1, <1>4 DEF Shifted, DayWindow
    <2>2. Begins(date, steps, unit) = day + steps
            /\ Begins(date, steps + 1, unit) = day + (steps + 1)
      BY <1>1, <1>4 DEF Begins
    <2>3. day + (steps + 1) = day + steps + 1
      OBVIOUS
    <2> QED
      BY <2>1, <2>2, <2>3
  <1>5. CASE unit = "week"
    <2>1. PICK weekday \in 0..6 : weekday = Weekday(day)
      BY DEF Weekday
    <2>2. Weekday(day + 7 * steps) = weekday
      <3>1. \A a, b \in Int : (a + 7 * b) % 7 = a % 7
        OBVIOUS
      <3>2. day + 7 * steps - 1 = (day - 1) + 7 * steps
        OBVIOUS
      <3> QED
        BY <2>1, <3>1, <3>2 DEF Weekday
    <2>3. Shifted(date, steps, unit)
             = <<day + 7 * steps - weekday, day + 7 * steps - weekday + 7>>
      BY <1>1, <1>5, <2>2 DEF Shifted, WeekWindow
    <2>4. Begins(date, steps, unit) = day - weekday + 7 * steps
            /\ Begins(date, steps + 1, unit) = day - weekday + 7 * (steps + 1)
      BY <1>1, <1>5, <2>1 DEF Begins
    <2>5. /\ day + 7 * steps - weekday = day - weekday + 7 * steps
          /\ day + 7 * steps - weekday + 7 = day - weekday + 7 * (steps + 1)
      OBVIOUS
    <2> QED
      BY <2>3, <2>4, <2>5
  <1>6. CASE unit = "month"
    <2>1. PICK t : t = n + steps
      OBVIOUS
    <2>2. PICK target : target = AddMonths(date, steps)
      OBVIOUS
    <2>3. t \in Int /\ target.y = t \div 12 /\ target.m = (t % 12) + 1
      BY <1>2, <2>1, <2>2, MonthReached
    <2>4. Shifted(date, steps, unit) = MonthsFrom(Date(target.y, target.m, 1), 1)
      BY <1>6, <2>2 DEF Shifted
    <2>5. MonthsFrom(Date(t \div 12, (t % 12) + 1, 1), 1) = <<FirstOf(t), FirstOf(t + 1)>>
      BY <2>3, AddingMonths DEF MonthsFrom, FirstOf
    <2>6. Begins(date, steps, unit) = FirstOf(n + steps)
            /\ Begins(date, steps + 1, unit) = FirstOf(n + (steps + 1))
      BY <1>2, <1>6 DEF Begins
    <2>7. n + (steps + 1) = t + 1
      BY <2>1
    <2> QED
      BY <2>1, <2>3, <2>4, <2>5, <2>6, <2>7
  <1>7. CASE unit = "quarter"
    <2>1. PICK t \in Int : t = n + 3 * steps
      OBVIOUS
    <2>2. PICK target : target = AddMonths(date, 3 * steps)
      OBVIOUS
    <2>3. target.y = t \div 12 /\ target.m = (t % 12) + 1
      <3>1. 3 * steps \in Int
        OBVIOUS
      <3> QED
        BY <1>2, <2>1, <2>2, <3>1, MonthReached
    <2>4. PICK q \in Int : q = 3 * (t \div 3)
      OBVIOUS
    <2>5. Shifted(date, steps, unit)
             = MonthsFrom(Date(target.y, 3 * (QuarterOf(target) - 1) + 1, 1), 3)
      BY <1>7, <2>2 DEF Shifted
    <2>6. target.y = q \div 12 /\ 3 * (QuarterOf(target) - 1) + 1 = (q % 12) + 1
      <3>1. PICK a \in Int, b \in 0..11 : a = t \div 12 /\ b = t % 12 /\ t = a * 12 + b
        BY MonthsSplit
      <3>2. t \div 3 = 4 * a + b \div 3 /\ b \div 3 \in 0..3
        BY <3>1
      <3>3. q = a * 12 + 3 * (b \div 3) /\ 3 * (b \div 3) \in 0..11
        BY <2>4, <3>1, <3>2
      <3>4. q \div 12 = a /\ q % 12 = 3 * (b \div 3)
        BY <3>3, MonthsJoin
      <3>5. QuarterOf(target) = b \div 3 + 1
        <4>1. target.m - 1 = b
          BY <2>3, <3>1
        <4> QED
          BY <4>1 DEF QuarterOf
      <3>6. 3 * (QuarterOf(target) - 1) + 1 = 3 * (b \div 3) + 1
        BY <3>2, <3>5
      <3> QED
        BY <2>3, <3>1, <3>4, <3>6
    <2>7. MonthsFrom(Date(q \div 12, (q % 12) + 1, 1), 3) = <<FirstOf(q), FirstOf(q + 3)>>
      <3>1. DayNumber(AddMonths(Date(q \div 12, (q % 12) + 1, 1), 3)) = FirstOf(q + 3)
        BY AddingMonths
      <3> QED
        BY <3>1 DEF MonthsFrom, FirstOf
    <2>8. Begins(date, steps, unit) = FirstOf(3 * (n \div 3) + 3 * steps)
            /\ Begins(date, steps + 1, unit) = FirstOf(3 * (n \div 3) + 3 * (steps + 1))
      BY <1>2, <1>7 DEF Begins
    <2>9. q = 3 * (n \div 3) + 3 * steps /\ q + 3 = 3 * (n \div 3) + 3 * (steps + 1)
      BY <2>1, <2>4
    <2> QED
      BY <2>5, <2>6, <2>7, <2>8, <2>9
  <1>8. CASE unit = "year"
    <2>1. PICK t \in Int : t = n + 12 * steps
      OBVIOUS
    <2>2. PICK target : target = AddMonths(date, 12 * steps)
      OBVIOUS
    <2>3. target.y = t \div 12
      <3>1. 12 * steps \in Int
        OBVIOUS
      <3> QED
        BY <1>2, <2>1, <2>2, <3>1, MonthReached
    <2>4. PICK q \in Int : q = 12 * y + 12 * steps
      OBVIOUS
    <2>5. target.y = q \div 12 /\ q % 12 = 0
      <3>1. t \div 12 = y + steps
        BY <1>3, <2>1
      <3>2. q \div 12 = y + steps /\ q % 12 = 0
        BY <2>4
      <3> QED
        BY <2>3, <3>1, <3>2
    <2>6. Shifted(date, steps, unit) = MonthsFrom(Date(target.y, 1, 1), 12)
      BY <1>8, <2>2 DEF Shifted
    <2>7. MonthsFrom(Date(q \div 12, (q % 12) + 1, 1), 12) = <<FirstOf(q), FirstOf(q + 12)>>
      <3>1. DayNumber(AddMonths(Date(q \div 12, (q % 12) + 1, 1), 12)) = FirstOf(q + 12)
        BY AddingMonths
      <3> QED
        BY <3>1 DEF MonthsFrom, FirstOf
    <2>8. (q % 12) + 1 = 1
      BY <2>5
    <2>9. Begins(date, steps, unit) = FirstOf(12 * y + 12 * steps)
            /\ Begins(date, steps + 1, unit) = FirstOf(12 * y + 12 * (steps + 1))
      BY <1>3, <1>8 DEF Begins
    <2>10. q + 12 = 12 * y + 12 * (steps + 1)
      BY <2>4
    <2> QED
      BY <2>4, <2>5, <2>6, <2>7, <2>8, <2>9, <2>10
  <1> QED
    BY <1>4, <1>5, <1>6, <1>7, <1>8 DEF Units

\* A date lies in its own period of every unit.
LEMMA DateInPeriod ==
    ASSUME NEW date \in Dates, NEW unit \in Units
    PROVE  /\ \A steps \in Int : Begins(date, steps, unit) \in Int
           /\ Begins(date, 0, unit) <= DayNumber(date)
           /\ DayNumber(date) < Begins(date, 1, unit)
  <1>1. PICK day \in Int : day = DayNumber(date)
    BY DateInMonth
  <1>2. PICK n \in Int : n = MonthOf(date)
    BY DateInMonth
  <1>3. PICK y \in Int, k \in 0..11 : y = date.y /\ n = 12 * y + k
    BY <1>2, DateInMonth, MonthsSplit
  <1>4. FirstOf(n) <= day /\ day < FirstOf(n + 1)
    BY <1>1, <1>2, DateInMonth
  <1>5. \A m \in Int : FirstOf(m) \in Int /\ FirstOf(m) < FirstOf(m + 1)
    <2> SUFFICES ASSUME NEW m \in Int
                 PROVE  FirstOf(m) \in Int /\ FirstOf(m) < FirstOf(m + 1)
      OBVIOUS
    <2>1. PICK days \in 28..31 : days = MonthDays(m \div 12, (m % 12) + 1)
      BY MonthsFollow
    <2>2. PICK first \in Int : first = FirstOf(m)
      BY MonthsFollow
    <2>3. FirstOf(m + 1) = first + days
      BY <2>1, <2>2, MonthsFollow
    <2> QED
      BY <2>2, <2>3
  <1>6. CASE unit = "day"
    <2>1. \A steps \in Int : Begins(date, steps, unit) = day + steps
      BY <1>1, <1>6 DEF Begins
    <2> QED
      BY <1>1, <2>1
  <1>7. CASE unit = "week"
    <2>1. PICK weekday \in 0..6 : weekday = Weekday(day)
      BY DEF Weekday
    <2>2. \A steps \in Int : Begins(date, steps, unit) = day - weekday + 7 * steps
      BY <1>1, <1>7, <2>1 DEF Begins
    <2>3. \A steps \in Int : Begins(date, steps, unit) \in Int
      BY <2>2
    <2>4. Begins(date, 0, unit) = day - weekday + 7 * 0
            /\ Begins(date, 1, unit) = day - weekday + 7 * 1
      BY <2>2
    <2>5. day - weekday + 7 * 0 <= day /\ day < day - weekday + 7 * 1
      OBVIOUS
    <2> QED
      BY <1>1, <2>3, <2>4, <2>5
  <1>8. CASE unit = "month"
    <2>1. \A steps \in Int : Begins(date, steps, unit) = FirstOf(n + steps)
      BY <1>2, <1>8 DEF Begins
    <2>2. n + 0 = n
      OBVIOUS
    <2>3. \A steps \in Int : n + steps \in Int
      OBVIOUS
    <2>4. \A steps \in Int : Begins(date, steps, unit) \in Int
      BY <1>5, <2>1, <2>3
    <2>5. Begins(date, 0, unit) = FirstOf(n) /\ Begins(date, 1, unit) = FirstOf(n + 1)
      BY <2>1, <2>2
    <2> QED
      BY <1>1, <1>4, <2>4, <2>5
  <1>9. CASE unit = "quarter"
    <2>1. PICK q \in Int : q = 3 * (n \div 3) /\ q \in n - 2..n
      OBVIOUS
    <2>2. \A steps \in Int : Begins(date, steps, unit) = FirstOf(q + 3 * steps)
      BY <1>2, <1>9, <2>1 DEF Begins
    <2>3. q + 3 * 0 = q /\ q + 3 * 1 = q + 3
      OBVIOUS
    <2>4. FirstOf(q) <= FirstOf(n) /\ FirstOf(n + 1) <= FirstOf(q + 3)
      <3>1. FirstOf(q) < FirstOf(q + 1) /\ FirstOf(q + 1) < FirstOf(q + 1 + 1)
              /\ FirstOf(q + 1 + 1) < FirstOf(q + 1 + 1 + 1)
        BY <1>5
      <3>2. q + 1 + 1 = q + 2 /\ q + 1 + 1 + 1 = q + 3
        OBVIOUS
      <3>3. FirstOf(q) < FirstOf(q + 1) /\ FirstOf(q + 1) < FirstOf(q + 2)
              /\ FirstOf(q + 2) < FirstOf(q + 3)
        BY <3>1, <3>2
      <3>4. FirstOf(q) \in Int /\ FirstOf(q + 1) \in Int /\ FirstOf(q + 2) \in Int
              /\ FirstOf(q + 3) \in Int
        BY <1>5
      <3>5. \/ n = q /\ n + 1 = q + 1
            \/ n = q + 1 /\ n + 1 = q + 2
            \/ n = q + 2 /\ n + 1 = q + 3
        BY <2>1
      <3> QED
        BY <3>3, <3>4, <3>5
    <2>5. FirstOf(q) \in Int /\ FirstOf(n) \in Int /\ FirstOf(n + 1) \in Int
            /\ FirstOf(q + 3) \in Int
      BY <1>5
    <2>6. FirstOf(q) <= day /\ day < FirstOf(q + 3)
      BY <1>4, <2>4, <2>5
    <2> QED
      BY <1>1, <1>5, <2>2, <2>3, <2>6
  <1>10. CASE unit = "year"
    <2>1. \A steps \in Int : Begins(date, steps, unit) = FirstOf(12 * y + 12 * steps)
      BY <1>3, <1>10 DEF Begins
    <2>2. 12 * y + 12 * 0 = 12 * y /\ 12 * y + 12 * 1 = 12 * (y + 1)
      OBVIOUS
    <2>3. ASSUME NEW b \in Int
          PROVE  FirstOf(12 * b) = DaysBeforeYear(b) + 1 /\ DaysBeforeYear(b) \in Int
      <3>1. (12 * b) \div 12 = b /\ (12 * b) % 12 = 0
        OBVIOUS
      <3>2. DaysBeforeMonth(b, 1) = 0
        BY DEF DaysBeforeMonth
      <3>3. FirstOf(12 * b) = DaysBeforeYear(b) + 0 + 1
        BY <3>1, <3>2 DEF FirstOf, DayNumber, Date
      <3> QED
        BY <3>3, YearsAreLong
    <2>4. FirstOf(n) = DaysBeforeYear(y) + DaysBeforeMonth(y, k + 1) + 1
      <3>1. n \div 12 = y /\ n % 12 = k
        BY <1>3
      <3> QED
        BY <3>1 DEF FirstOf, DayNumber, Date
    <2>5. DaysBeforeMonth(y, k + 1) \in Int /\ DaysBeforeMonth(y, k + 1) >= 0
            /\ DaysBeforeMonth(y, k + 1) + MonthDays(y, k + 1)
                  <= (IF Leap(y) THEN 366 ELSE 365)
      BY DEF DaysBeforeMonth, MonthDays
    <2>6. FirstOf(n + 1) = FirstOf(n) + MonthDays(y, k + 1) /\ MonthDays(y, k + 1) \in 28..31
      <3>1. n \div 12 = y /\ (n % 12) + 1 = k + 1
        BY <1>3
      <3> QED
        BY <3>1, MonthsFollow
    <2>7. DaysBeforeYear(y + 1) = DaysBeforeYear(y) + (IF Leap(y) THEN 366 ELSE 365)
            /\ DaysBeforeYear(y) \in Int
      BY YearsAreLong
    <2>8. y + 1 \in Int
      OBVIOUS
    <2>9. FirstOf(12 * y) = DaysBeforeYear(y) + 1
            /\ FirstOf(12 * (y + 1)) = DaysBeforeYear(y + 1) + 1
      BY <2>3, <2>8
    <2>10. FirstOf(12 * y) <= FirstOf(n) /\ FirstOf(n + 1) <= FirstOf(12 * (y + 1))
      BY <2>4, <2>5, <2>6, <2>7, <2>9
    <2>11. FirstOf(12 * y) \in Int /\ FirstOf(n) \in Int /\ FirstOf(n + 1) \in Int
             /\ FirstOf(12 * (y + 1)) \in Int
      BY <1>5
    <2>12. FirstOf(12 * y) <= day /\ day < FirstOf(12 * (y + 1))
      BY <1>4, <2>10, <2>11
    <2>13. \A steps \in Int : 12 * y + 12 * steps \in Int
      OBVIOUS
    <2> QED
      BY <1>1, <1>5, <2>1, <2>2, <2>12, <2>13
  <1> QED
    BY <1>6, <1>7, <1>8, <1>9, <1>10 DEF Units

-----------------------------------------------------------------------------
\* What the phrases name

\* The three ways to name a period by its distance.
LEMMA CountsShift ==
    ASSUME NEW date \in Dates, NEW unit \in Units
    PROVE  /\ \A q \in Nat : /\ ResolveLocal(Ago(q, unit), date) = Shifted(date, -q, unit)
                             /\ ResolveLocal(Ahead(q, unit), date) = Shifted(date, q, unit)
           /\ ResolveLocal(Named("last", unit), date) = Shifted(date, -1, unit)
           /\ ResolveLocal(Named("this", unit), date) = Shifted(date, 0, unit)
           /\ ResolveLocal(Named("next", unit), date) = Shifted(date, 1, unit)
  <1>1. unit # Absent
    BY DEF Units, Absent
  <1>2. ASSUME NEW q \in Nat
        PROVE  /\ ResolveLocal(Ago(q, unit), date) = Shifted(date, -q, unit)
               /\ ResolveLocal(Ahead(q, unit), date) = Shifted(date, q, unit)
    <2>1. q # NoNumber
      BY DEF NoNumber
    <2>2. PICK p : p = Ago(q, unit)
      OBVIOUS
    <2>3. /\ p.weekday = NoNumber /\ p.modifier = Absent /\ p.quantity = q
          /\ p.unit = unit /\ p.direction = "past"
      BY <2>2 DEF Ago, Descriptor
    <2>4. ~NamesWeekday(p) /\ Counts(p)
      BY <1>1, <2>1, <2>3 DEF NamesWeekday, Counts
    <2>5. ResolveLocal(p, date) = Shifted(date, -q, unit)
      BY <2>3, <2>4 DEF ResolveLocal
    <2>6. PICK a : a = Ahead(q, unit)
      OBVIOUS
    <2>7. /\ a.weekday = NoNumber /\ a.modifier = Absent /\ a.quantity = q
          /\ a.unit = unit /\ a.direction = "future"
      BY <2>6 DEF Ahead, Descriptor
    <2>8. ~NamesWeekday(a) /\ Counts(a)
      BY <1>1, <2>1, <2>7 DEF NamesWeekday, Counts
    <2>9. ResolveLocal(a, date) = Shifted(date, q, unit)
      BY <2>7, <2>8 DEF ResolveLocal
    <2> QED
      BY <2>2, <2>5, <2>6, <2>9
  <1>3. ASSUME NEW modifier \in Modifiers
        PROVE  ResolveLocal(Named(modifier, unit), date)
                  = Shifted(date, CASE modifier = "last" -> -1
                                    [] modifier = "this" -> 0
                                    [] modifier = "next" -> 1, unit)
    <2>1. PICK p : p = Named(modifier, unit)
      OBVIOUS
    <2>2. /\ p.weekday = NoNumber /\ p.modifier = modifier /\ p.quantity = NoNumber
          /\ p.unit = unit /\ p.direction = "none"
      BY <2>1 DEF Named, Descriptor
    <2>3. modifier # Absent
      BY DEF Modifiers, Absent
    <2>4. ~NamesWeekday(p) /\ ~Counts(p) /\ NamesUnit(p)
      BY <1>1, <2>2, <2>3 DEF NamesWeekday, Counts, NamesUnit
    <2>5. ResolveLocal(p, date)
             = Shifted(date, CASE modifier = "last" -> -1
                               [] modifier = "this" -> 0
                               [] modifier = "next" -> 1, unit)
      BY <2>2, <2>4 DEF ResolveLocal
    <2> QED
      BY <2>1, <2>5
  <1>4. ResolveLocal(Named("last", unit), date) = Shifted(date, -1, unit)
    BY <1>3 DEF Modifiers
  <1>5. ResolveLocal(Named("this", unit), date) = Shifted(date, 0, unit)
    BY <1>3 DEF Modifiers
  <1>6. ResolveLocal(Named("next", unit), date) = Shifted(date, 1, unit)
    BY <1>3 DEF Modifiers
  <1> QED
    BY <1>2, <1>4, <1>5, <1>6

\* A local period, as instants.
LEMMA ResolvedIs ==
    ASSUME NEW p, NEW date, NEW zone, NEW first, NEW next,
           ResolveLocal(p, date) = <<first, next>>
    PROVE  Resolve(p, date, zone) = <<MidnightUtc(first, zone), MidnightUtc(next, zone)>>
  <1>1. <<first, next>> # Unresolved
    BY DEF Unresolved
  <1>2. <<first, next>>[1] = first /\ <<first, next>>[2] = next
    OBVIOUS
  <1> QED
    BY <1>1, <1>2 DEF Resolve

\* The hours of a local day lie between its midnights, and so does any day
\* between the first of a period and the first of the next.
LEMMA HoursBetweenMidnights ==
    ASSUME NEW zone \in Zones, zone.after - zone.before <= 12,
           NEW first \in Int, NEW day \in Int, NEW next \in Int,
           first <= day, day < next, NEW hour \in {0, 12, 23}
    PROVE  /\ MidnightUtc(first, zone) <= InstantAt(day, hour, zone)
           /\ InstantAt(day, hour, zone) < MidnightUtc(next, zone)
  <1>1. PICK change \in Int, before \in Int, after \in Int :
           change = zone.change /\ before = zone.before /\ after = zone.after
    <2>1. zone.change \in Nat /\ {zone.before, zone.after} \subseteq -14..14
      BY CalendarAssumption
    <2>2. zone.change \in Int /\ zone.before \in Int /\ zone.after \in Int
      BY <2>1
    <2> QED
      BY <2>2
  <1>2. after - before <= 12
    BY <1>1
  <1>3. MidnightUtc(first, zone) = 24 * first - (IF first <= change THEN before ELSE after)
    BY <1>1 DEF MidnightUtc
  <1>4. MidnightUtc(next, zone) = 24 * next - (IF next <= change THEN before ELSE after)
    BY <1>1 DEF MidnightUtc
  <1>5. InstantAt(day, hour, zone)
           = 24 * day + hour - (IF day < change \/ (day = change /\ hour < 2)
                                THEN before ELSE after)
    BY <1>1 DEF InstantAt
  <1>6. 24 * first - (IF first <= change THEN before ELSE after)
           <= 24 * day + hour - (IF day < change \/ (day = change /\ hour < 2)
                                 THEN before ELSE after)
    BY <1>2
  <1>7. 24 * day + hour - (IF day < change \/ (day = change /\ hour < 2)
                           THEN before ELSE after)
           < 24 * next - (IF next <= change THEN before ELSE after)
    BY <1>2
  <1> QED
    BY <1>3, <1>4, <1>5, <1>6, <1>7

\* The periods tile the time line in every zone that never puts its clocks
\* forward by more than half a day.
LEMMA PeriodsDoTile ==
    ASSUME \A zone \in Zones : zone.after - zone.before <= 12
    PROVE  PeriodsTile
  <1>1. SUFFICES ASSUME NEW date \in Dates, NEW zone \in Zones, NEW unit \in Units
        PROVE  /\ \A hour \in {0, 12, 23} :
                     /\ Resolve(Ago(0, unit), date, zone)[1]
                           <= InstantAt(DayNumber(date), hour, zone)
                     /\ InstantAt(DayNumber(date), hour, zone)
                           < Resolve(Ago(0, unit), date, zone)[2]
               /\ \A q \in Quantities :
                     /\ Resolve(Ago(q + 1, unit), date, zone)[2]
                           = Resolve(Ago(q, unit), date, zone)[1]
                     /\ Resolve(Ahead(q + 1, unit), date, zone)[1]
                           = Resolve(Ahead(q, unit), date, zone)[2]
               /\ Resolve(Named("last", unit), date, zone)
                     = Resolve(Ago(1, unit), date, zone)
               /\ Resolve(Named("next", unit), date, zone)
                     = Resolve(Ahead(1, unit), date, zone)
    BY DEF PeriodsTile
  <1> DEFINE Starts(steps) == MidnightUtc(Begins(date, steps, unit), zone)
  <1>2. ASSUME NEW p, NEW steps \in Int, ResolveLocal(p, date) = Shifted(date, steps, unit)
        PROVE  Resolve(p, date, zone) = <<Starts(steps), Starts(steps + 1)>>
    <2>1. ResolveLocal(p, date)
             = <<Begins(date, steps, unit), Begins(date, steps + 1, unit)>>
      BY <1>2, ShiftedIs
    <2> QED
      BY <2>1, ResolvedIs
  <1>3. ASSUME NEW q \in Nat
        PROVE  /\ Resolve(Ago(q, unit), date, zone) = <<Starts(-q), Starts(-q + 1)>>
               /\ Resolve(Ahead(q, unit), date, zone) = <<Starts(q), Starts(q + 1)>>
    <2>1. -q \in Int /\ q \in Int
      OBVIOUS
    <2> QED
      BY <1>2, <2>1, CountsShift
  <1>4. \A hour \in {0, 12, 23} :
           /\ Resolve(Ago(0, unit), date, zone)[1]
                 <= InstantAt(DayNumber(date), hour, zone)
           /\ InstantAt(DayNumber(date), hour, zone)
                 < Resolve(Ago(0, unit), date, zone)[2]
    <2>1. \A n \in Nat : n <= 0 => -n = 0 /\ -n + 1 = 1
      OBVIOUS
    <2>2. PICK none \in Nat : none <= 0 /\ none = 0 /\ -none = 0 /\ -none + 1 = 1
      <3>1. \E none \in Nat : none <= 0
        OBVIOUS
      <3> QED
        BY <2>1, <3>1
    <2>3. Resolve(Ago(none, unit), date, zone) = <<Starts(0), Starts(1)>>
      BY <1>3, <2>2
    <2>4. PICK first \in Int, day \in Int, next \in Int :
             /\ first = Begins(date, 0, unit) /\ day = DayNumber(date)
             /\ next = Begins(date, 1, unit) /\ first <= day /\ day < next
      BY DateInPeriod, DateInMonth
    <2>5. \A hour \in {0, 12, 23} :
             /\ MidnightUtc(first, zone) <= InstantAt(day, hour, zone)
             /\ InstantAt(day, hour, zone) < MidnightUtc(next, zone)
      BY <2>4, HoursBetweenMidnights
    <2> QED
      BY <2>2, <2>3, <2>4, <2>5
  <1>5. ASSUME NEW q \in Quantities
        PROVE  /\ Resolve(Ago(q + 1, unit), date, zone)[2]
                     = Resolve(Ago(q, unit), date, zone)[1]
               /\ Resolve(Ahead(q + 1, unit), date, zone)[1]
                     = Resolve(Ahead(q, unit), date, zone)[2]
    <2>1. q \in Nat /\ q + 1 \in Nat
      BY CalendarAssumption
    <2>2. -(q + 1) + 1 = -q
      BY <2>1
    <2>3. Resolve(Ago(q + 1, unit), date, zone) = <<Starts(-(q + 1)), Starts(-q)>>
      BY <1>3, <2>1, <2>2
    <2>4. Resolve(Ago(q, unit), date, zone) = <<Starts(-q), Starts(-q + 1)>>
      BY <1>3, <2>1
    <2>5. /\ Resolve(Ahead(q + 1, unit), date, zone) = <<Starts(q + 1), Starts(q + 1 + 1)>>
          /\ Resolve(Ahead(q, unit), date, zone) = <<Starts(q), Starts(q + 1)>>
      BY <1>3, <2>1
    <2> HIDE DEF Starts
    <2> QED
      BY <2>3, <2>4, <2>5
  <1>6. Resolve(Named("last", unit), date, zone) = Resolve(Ago(1, unit), date, zone)
    <2>1. 1 \in Nat /\ -1 \in Int
      OBVIOUS
    <2>2. ResolveLocal(Named("last", unit), date) = ResolveLocal(Ago(1, unit), date)
      BY <2>1, CountsShift
    <2> QED
      BY <2>2 DEF Resolve
  <1>7. Resolve(Named("next", unit), date, zone) = Resolve(Ahead(1, unit), date, zone)
    <2>1. 1 \in Nat
      OBVIOUS
    <2>2. ResolveLocal(Named("next", unit), date) = ResolveLocal(Ahead(1, unit), date)
      BY <2>1, CountsShift
    <2> QED
      BY <2>2 DEF Resolve
  <1> QED
    BY <1>4, <1>5, <1>6, <1>7

\* A weekday, named by a modifier, is one day.
LEMMA NamedWeekdayIs ==
    ASSUME NEW date, NEW weekday \in 0..6, NEW modifier \in Modifiers
    PROVE  ResolveLocal(Called(weekday, modifier), date)[1]
              = ResolveWeekday(DayNumber(date), weekday, modifier)
  <1>1. PICK p : p = Called(weekday, modifier)
    OBVIOUS
  <1>2. p.weekday = weekday /\ p.modifier = modifier
    BY <1>1 DEF Called, Descriptor
  <1>3. weekday # NoNumber /\ modifier # Absent
    BY DEF NoNumber, Modifiers, Absent
  <1>4. NamesWeekday(p)
    BY <1>2, <1>3 DEF NamesWeekday
  <1>5. ResolveLocal(p, date)
           = DayWindow(ResolveWeekday(DayNumber(date), weekday, modifier))
    BY <1>2, <1>4 DEF ResolveLocal
  <1> QED
    BY <1>1, <1>5 DEF DayWindow

LEMMA WeekdaysDoLieNear == WeekdaysAreNear
  <1>1. SUFFICES ASSUME NEW date \in Dates, NEW weekday \in 0..6
        PROVE  LET today == DayNumber(date)
                   On(modifier) == ResolveLocal(Called(weekday, modifier), date)[1]
                   week == ResolveLocal(Named("this", "week"), date)
               IN  /\ \A modifier \in Modifiers : Weekday(On(modifier)) = weekday
                   /\ On("last") \in (today - 7)..(today - 1)
                   /\ On("next") \in (today + 1)..(today + 7)
                   /\ week[1] <= On("this") /\ On("this") < week[2]
    BY DEF WeekdaysAreNear
  <1>2. PICK today \in Int : today = DayNumber(date)
    BY DateInMonth
  <1>3. PICK this \in 0..6 : this = Weekday(today) /\ this = (today - 1) % 7
    BY DEF Weekday
  <1>4. PICK back \in 1..7 : /\ back = OrSeven((this - weekday) % 7)
                             /\ (this - back) % 7 = weekday
    BY DEF OrSeven
  <1>5. PICK ahead \in 1..7 : /\ ahead = OrSeven((weekday - this) % 7)
                              /\ (this + ahead) % 7 = weekday
    BY DEF OrSeven
  <1>6. \A n \in Int : Weekday(today + n) = (this + n) % 7
    BY <1>3 DEF Weekday
  <1>7. ResolveLocal(Called(weekday, "last"), date)[1] = today - back
    <2>1. ResolveWeekday(today, weekday, "last") = today - back
      BY <1>3, <1>4 DEF ResolveWeekday
    <2> QED
      BY <1>2, <2>1, NamedWeekdayIs DEF Modifiers
  <1>8. ResolveLocal(Called(weekday, "next"), date)[1] = today + ahead
    <2>1. ResolveWeekday(today, weekday, "next") = today + ahead
      BY <1>3, <1>5 DEF ResolveWeekday
    <2> QED
      BY <1>2, <2>1, NamedWeekdayIs DEF Modifiers
  <1>9. ResolveLocal(Called(weekday, "this"), date)[1] = today - this + weekday
    <2>1. ResolveWeekday(today, weekday, "this") = today - this + weekday
      BY <1>3 DEF ResolveWeekday
    <2> QED
      BY <1>2, <2>1, NamedWeekdayIs DEF Modifiers
  <1>10. ResolveLocal(Named("this", "week"), date) = <<today - this, today - this + 7>>
    <2>1. PICK day \in Int : day = DayNumber(date) + 7 * 0 /\ day = today
      BY <1>2
    <2>2. Shifted(date, 0, "week") = WeekWindow(day)
      BY <2>1 DEF Shifted
    <2>3. WeekWindow(day) = <<today - this, today - this + 7>>
      BY <1>3, <2>1 DEF WeekWindow
    <2> QED
      BY <2>2, <2>3, CountsShift DEF Units
  <1>11. Weekday(today - back) = weekday
    <2>1. today + (-back) = today - back /\ this + (-back) = this - back /\ -back \in Int
      OBVIOUS
    <2> QED
      BY <1>4, <1>6, <2>1
  <1>12. Weekday(today + ahead) = weekday
    BY <1>5, <1>6
  <1>13. Weekday(today - this + weekday) = weekday
    <2>1. PICK n \in Int : n = weekday - this
      OBVIOUS
    <2>2. today + n = today - this + weekday /\ this + n = weekday /\ weekday % 7 = weekday
      BY <2>1
    <2> QED
      BY <1>6, <2>2
  <1>14. \A modifier \in Modifiers :
            Weekday(ResolveLocal(Called(weekday, modifier), date)[1]) = weekday
    BY <1>7, <1>8, <1>9, <1>11, <1>12, <1>13 DEF Modifiers
  <1>15. today - back \in (today - 7)..(today - 1)
           /\ today + ahead \in (today + 1)..(today + 7)
           /\ today - this <= today - this + weekday
           /\ today - this + weekday < today - this + 7
    OBVIOUS
  <1>16. <<today - this, today - this + 7>>[1] = today - this
           /\ <<today - this, today - this + 7>>[2] = today - this + 7
    OBVIOUS
  <1> QED
    BY <1>2, <1>7, <1>8, <1>9, <1>10, <1>14, <1>15, <1>16

\* A phrase of a question denotes the period it names, on any day of any year:
\* the periods of a unit touch, with no gap and no overlap, the one that holds
\* the moment of speaking is zero units away, and a named weekday is the
\* nearest one on its side.  Of a zone it is assumed that its clocks are never
\* put forward by more than twelve hours: where they are, the noon of that day
\* comes before its midnight, and no period of days can hold them both.
THEOREM PhrasesAreAnswered ==
    ASSUME \A zone \in Zones : zone.after - zone.before <= 12
    PROVE  HistorySpec => []PhrasesDenotePeriods
  <1>1. PhrasesDenotePeriods
    BY PeriodsDoTile, WeekdaysDoLieNear DEF PhrasesDenotePeriods
  <1> QED
    BY <1>1, PTL
=============================================================================
