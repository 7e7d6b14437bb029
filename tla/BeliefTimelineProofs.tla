------------------------ MODULE BeliefTimelineProofs ------------------------
(***************************************************************************)
(* Theorems about BeliefTimeline, for every number of writers, facts and   *)
(* instants, and everything a time phrase may resolve to.                  *)
(***************************************************************************)
EXTENDS BeliefTimeline, FiniteSetTheorems, SequenceTheorems, TLAPS

-----------------------------------------------------------------------------
\* The inductive invariant

Held == {b \in beliefs : b.until = Null}
HeldOfOthers(id) == {b \in Held : b.memory # id}

\* What a writer has read of a fact is stale in its ends at most.
ReadsAgree ==
    \A w \in Writers : job[w] # Idle =>
        /\ job[w].id \in DOMAIN facts
        /\ job[w].original.from = facts[job[w].id].from
        /\ job[w].original.asserted <= job[w].stamp
        /\ job[w].stamp <= now
        /\ ChecksPass(job[w].original)

\* Nothing is asserted, and no belief begins, in the future.
Past == /\ \A id \in DOMAIN facts : facts[id].asserted <= now
        /\ \A b \in beliefs : b.since <= now
        /\ \A s \in Sources : commit[s] # Null => commit[s] <= now

\* OneOpenWindow, BelievedHasWindow and WindowMatchesFact, without counting.
HeldOnce == \A a, b \in Held : a.memory = b.memory => a = b
BelievedIsHeld ==
    \A id \in DOMAIN facts : facts[id].retracted = Null =>
        \E b \in Held : b.memory = id
HeldMatchesFact ==
    \A b \in Held : b.from = facts[b.memory].from /\ b.to = facts[b.memory].to

NextExists ==
    \A id \in DOMAIN facts : facts[id].next # Null => facts[id].next \in DOMAIN facts

TimelineInvariant ==
    /\ TypeOK /\ ReadsAgree /\ Past
    /\ HeldOnce /\ BelievedIsHeld /\ HeldMatchesFact
    /\ NextExists /\ SupersessionMeets

-----------------------------------------------------------------------------
\* What the operators do

\* 0 is no instant and no row.
LEMMA NullIsNone ==
    /\ Null \notin Times /\ Null \notin Ids
    /\ Times \subseteq Nat /\ Ids \subseteq Nat
  BY TimelineAssumption DEF Null, Times, Ids

\* end_belief sets the end of the belief once and touches nothing else.
LEMMA EndBeliefDoes ==
    ASSUME NEW stamp \in Times, NEW row \in Rows
    PROVE  LET ended == EndBelief(row, stamp) IN
           /\ ended \in Rows
           /\ ended.retracted # Null
           /\ row.retracted # Null => ended.retracted = row.retracted
           /\ ended.from = row.from /\ ended.to = row.to
           /\ ended.asserted = row.asserted
           /\ ended.undated = row.undated
           /\ ended.next = row.next /\ ended.prev = row.prev
           /\ ended.fixes = row.fixes
  BY NullIsNone DEF EndBelief, Rows

\* end_validity with link_supersession sets the end and the link, no more.
LEMMA BoundedDoes ==
    ASSUME NEW row \in Rows, NEW effective \in Times \union {Null}, NewId \in Ids
    PROVE  LET bounded == Bounded(row, effective) IN
           /\ bounded \in Rows
           /\ bounded.to = effective /\ bounded.next = NewId
           /\ bounded.from = row.from /\ bounded.asserted = row.asserted
           /\ bounded.undated = row.undated
           /\ bounded.retracted = row.retracted /\ bounded.prev = row.prev
           /\ bounded.fixes = row.fixes
  BY DEF Bounded, Rows

\* A fact is inserted under an identifier of its own.
LEMMA InsertDoes ==
    ASSUME NEW table \in Seq(Rows), NEW row \in Rows
    PROVE  LET id == Len(table) + 1 IN
           /\ Append(table, row) \in Seq(Rows)
           /\ Len(Append(table, row)) = id
           /\ DOMAIN Append(table, row) = DOMAIN table \union {id}
           /\ id \notin DOMAIN table
           /\ Append(table, row)[id] = row
           /\ \A i \in DOMAIN table : Append(table, row)[i] = table[i]
  <1>1. /\ Append(table, row) \in Seq(Rows)
        /\ Len(Append(table, row)) = Len(table) + 1
        /\ \A i \in 1..Len(table) : Append(table, row)[i] = table[i]
        /\ Append(table, row)[Len(table) + 1] = row
    BY AppendProperties
  <1>2. /\ Len(table) \in Nat /\ DOMAIN table = 1..Len(table)
        /\ DOMAIN Append(table, row) = 1..(Len(table) + 1)
    BY <1>1, LenProperties
  <1>3. 1..(Len(table) + 1) = (1..Len(table)) \union {Len(table) + 1}
    BY <1>2
  <1> QED
    BY <1>1, <1>2, <1>3

\* An update leaves the other rows alone.
LEMMA UpdateDoes ==
    ASSUME NEW table \in Seq(Rows), NEW id \in DOMAIN table, NEW row \in Rows
    PROVE  LET new == [table EXCEPT ![id] = row] IN
           /\ new \in Seq(Rows) /\ Len(new) = Len(table)
           /\ DOMAIN new = DOMAIN table
           /\ new[id] = row
           /\ \A i \in DOMAIN table : i # id => new[i] = table[i]
  <1>1. DOMAIN table = 1..Len(table)
    BY LenProperties
  <1> QED
    BY <1>1, ExceptSeq

\* The instant may end what is held about id.
MayEnd(id, at) ==
    /\ at \in Times /\ at <= now
    /\ \A b \in beliefs : b.memory = id /\ b.until = Null => b.since <= at

\* close_open_transition ends what was held about id, then, and nothing else.
LEMMA CloseOpenDoes ==
    ASSUME TypeOK, Past, NEW id \in Ids, NEW at, MayEnd(id, at)
    PROVE  /\ CloseOpen(id, at) \subseteq Windows
           /\ \A b \in CloseOpen(id, at) :
                 /\ b.memory \in DOMAIN facts
                 /\ b.since <= now
                 /\ b.until = Null \/ b.since <= b.until
           /\ {b \in CloseOpen(id, at) : b.until = Null} = HeldOfOthers(id)
           /\ \A b \in beliefs :
                 \/ b \in CloseOpen(id, at)
                 \/ b.until = Null /\ [b EXCEPT !.until = at] \in CloseOpen(id, at)
  <1> USE DEF MayEnd
  <1> DEFINE Closed(b) == IF b.memory = id /\ b.until = Null
                          THEN [b EXCEPT !.until = at] ELSE b
  <1>1. CloseOpen(id, at) = {Closed(b) : b \in beliefs}
    BY DEF CloseOpen
  <1>2. ASSUME NEW b \in beliefs
        PROVE  /\ Closed(b) \in Windows
               /\ Closed(b).memory \in DOMAIN facts
               /\ Closed(b).since <= now
               /\ Closed(b).until = Null \/ Closed(b).since <= Closed(b).until
               /\ Closed(b).until = Null
                  => Closed(b) = b /\ b.until = Null /\ b.memory # id
               /\ b.until = Null /\ b.memory # id => Closed(b) = b
               /\ \/ Closed(b) = b
                  \/ b.until = Null /\ [b EXCEPT !.until = at] = Closed(b)
    BY NullIsNone DEF TypeOK, Past, Windows
  <1> HIDE DEF Closed
  <1> QED
    BY <1>1, <1>2 DEF HeldOfOthers, Held

-----------------------------------------------------------------------------
\* What the actions do

\* A busy writer holds a job, whose fact and copy of it have their types.
LEMMA BusyWriter ==
    ASSUME TypeOK, ReadsAgree, NEW w \in Writers, job[w] # Idle
    PROVE  /\ job[w] \in Jobs
           /\ job[w].id \in DOMAIN facts /\ job[w].id \in Ids
           /\ job[w].original \in Rows
           /\ job[w].effective \in Times \union {Null}
           /\ facts[job[w].id] \in Rows
           /\ job[w].stamp \in Times /\ job[w].stamp <= now
           /\ job[w].original.asserted \in Times
           /\ job[w].original.asserted <= job[w].stamp
           /\ job[w].original.asserted <= now
           /\ ChecksPass(job[w].original)
           /\ job[w].original.from = facts[job[w].id].from
  <1>1. job[w] \in Jobs
    BY DEF TypeOK
  <1>2. facts[job[w].id] \in Rows
    BY LenProperties, ElementOfSeq DEF TypeOK, ReadsAgree
  <1>3. /\ job[w].original.asserted \in Nat /\ job[w].stamp \in Nat /\ now \in Nat
        /\ job[w].original.asserted \in Times /\ job[w].stamp \in Times
    BY <1>1, NullIsNone DEF Jobs, Rows, TypeOK
  <1>4. /\ job[w].original.asserted <= job[w].stamp /\ job[w].stamp <= now
    BY DEF ReadsAgree
  <1>5. job[w].original.asserted <= now
    BY <1>3, <1>4
  <1> QED
    BY <1>1, <1>2, <1>3, <1>4, <1>5 DEF Jobs, ReadsAgree

\* The clock of the trail is read between that of the rows and now, and may end
\* what is held about the fact.
LEMMA TrailIsLater ==
    ASSUME TypeOK, ReadsAgree, NEW w \in Writers, job[w] # Idle, NEW at \in TrailTimes(w)
    PROVE  /\ MayEnd(job[w].id, at)
           /\ at \in Times /\ at \in Nat /\ at # Null
           /\ job[w].stamp <= at /\ at <= now
           /\ job[w].original.asserted <= at
  <1>1. /\ at \in Times /\ job[w].stamp <= at /\ at <= now
        /\ \A b \in beliefs : b.memory = job[w].id /\ b.until = Null => b.since <= at
    BY DEF TrailTimes
  <1>2. /\ job[w].original.asserted <= job[w].stamp
        /\ job[w].original.asserted \in Nat /\ job[w].stamp \in Nat /\ at \in Nat
    BY <1>1, BusyWriter, NullIsNone
  <1> QED
    BY <1>1, <1>2, NullIsNone DEF MayEnd

\* Only a busy writer has an operation.
LEMMA OperationIsBusy ==
    ASSUME NEW w \in Writers, job[w].op \in Operations
    PROVE  job[w] # Idle
  BY DEF Idle, Operations

\* Identifiers are positions, and the next one is free.
LEMMA NewIdFree ==
    ASSUME TypeOK
    PROVE  /\ NewId \notin DOMAIN facts
           /\ DOMAIN facts \subseteq Ids
           /\ Len(facts) < MaxFacts => NewId \in Ids
           /\ \A id \in DOMAIN facts : facts[id] \in Rows
  <1>1. Len(facts) \in Nat /\ DOMAIN facts = 1..Len(facts)
    BY LenProperties DEF TypeOK
  <1> QED
    BY <1>1, ElementOfSeq, TimelineAssumption DEF TypeOK, NewId, Ids

\* There is room for what a commit inserts.
LEMMA NewFits ==
    ASSUME NEW n \in Nat, n < MaxNew
    PROVE  n < MaxFacts
  BY TimelineAssumption

\* What every write must leave: rows that pass the checks and were asserted by
\* now, the starts of the old ones as they were, and beliefs about rows there are.
WrittenWell ==
    /\ now' = now
    /\ facts' \in Seq(Rows) /\ Len(facts') <= MaxFacts
    /\ \A id \in DOMAIN facts' : ChecksPass(facts'[id]) /\ facts'[id].asserted <= now
    /\ \A id \in DOMAIN facts :
          id \in DOMAIN facts' /\ facts'[id].from = facts[id].from
    /\ beliefs' \subseteq Windows
    /\ \A b \in beliefs' : /\ b.memory \in DOMAIN facts'
                           /\ b.since <= now
                           /\ b.until = Null \/ b.since <= b.until

\* commit inserts a fact and a belief in it.
LEMMA CommitEffect ==
    ASSUME TimelineInvariant, NEW s \in Sources, CommitFact(s)
    PROVE  /\ WrittenWell
           /\ DOMAIN facts' = DOMAIN facts \union {NewId}
           /\ \A id \in DOMAIN facts : facts'[id] = facts[id]
           /\ facts'[NewId].next = Null /\ facts'[NewId].fixes = Null
           /\ facts'[NewId].asserted = commit[s]
           /\ Held' = Held \union {Asserted(NewId, commit[s], facts'[NewId].from, facts'[NewId].to)}
           /\ Asserted(NewId, commit[s], facts'[NewId].from, facts'[NewId].to) \in Windows
  <1> USE DEF TimelineInvariant
  <1>0. commit[s] \in Times /\ commit[s] # Null /\ commit[s] <= now
    BY DEF CommitFact, TypeOK, Past
  <1>1. PICK p \in Phrases :
           /\ facts' = Append(facts,
                [from |-> p.from, to |-> Null, undated |-> p.undated,
                 asserted |-> commit[s], retracted |-> Null, next |-> Null,
                 prev |-> Null, fixes |-> Null, sources |-> {s}])
           /\ beliefs' = beliefs \union {Asserted(NewId, commit[s], p.from, Null)}
    BY DEF CommitFact
  <1> DEFINE new == [from |-> p.from, to |-> Null, undated |-> p.undated,
                     asserted |-> commit[s], retracted |-> Null, next |-> Null,
                     prev |-> Null, fixes |-> Null, sources |-> {s}]
  <1>2. /\ new \in Rows /\ ChecksPass(new)
        /\ new.from = p.from /\ new.to = Null
        /\ new.next = Null /\ new.fixes = Null /\ new.asserted = commit[s]
        /\ p.from \in Times \union {Null}
    BY <1>0, TimelineAssumption DEF TypeOK, Rows, ChecksPass
  <1> HIDE DEF new
  <1>3. /\ facts' \in Seq(Rows) /\ Len(facts') = NewId
        /\ DOMAIN facts' = DOMAIN facts \union {NewId}
        /\ facts'[NewId] = new
        /\ \A id \in DOMAIN facts : facts'[id] = facts[id]
    BY <1>1, <1>2, InsertDoes DEF TypeOK, NewId, new
  <1>4. /\ NewId \in Ids /\ NewId <= MaxFacts /\ NewId \notin DOMAIN facts
    BY NewIdFree, NewFits, TimelineAssumption DEF CommitFact, Ids
  <1>5. LET b == Asserted(NewId, commit[s], p.from, Null) IN
        /\ b \in Windows
        /\ b.memory = NewId /\ b.since = commit[s] /\ b.until = Null
    BY <1>0, <1>2, <1>4, NullIsNone DEF Asserted, Window, Windows, TypeOK, Causes
  <1>6. now' = now /\ now <= now
    BY NullIsNone DEF CommitFact, TypeOK
  <1>7. WrittenWell
    BY <1>0, <1>1, <1>2, <1>3, <1>4, <1>5, <1>6 DEF WrittenWell, TypeOK, Past
  <1> QED
    BY <1>1, <1>2, <1>3, <1>5, <1>7 DEF Held

\* correct ends the belief in the fact and inserts a replacement, alone believed.
CorrectedWell(w, at) ==
    LET id == job[w].id
        held == Asserted(NewId, at, facts'[NewId].from, facts'[NewId].to) IN
    /\ WrittenWell
    /\ id \in DOMAIN facts /\ id \in Ids
    /\ DOMAIN facts' = DOMAIN facts \union {NewId}
    /\ facts'[id] = EndBelief(facts[id], job[w].stamp)
    /\ \A i \in DOMAIN facts : i # id => facts'[i] = facts[i]
    /\ facts'[NewId].next = Null /\ facts'[NewId].fixes = id
    /\ facts'[NewId].asserted = job[w].stamp
    /\ Held' = HeldOfOthers(id) \union {held}
    /\ held \in Windows
    /\ beliefs' = CloseOpen(id, at) \union
          {Window(id, "corrected", job[w].original.asserted, at,
                  job[w].original.from, job[w].original.to, NewId), held}

LEMMA CorrectEffect ==
    ASSUME TimelineInvariant, NEW w \in Writers, Correct(w)
    PROVE  \E at \in TrailTimes(w) : CorrectedWell(w, at)
  <1> USE DEF TimelineInvariant
  <1> DEFINE id == job[w].id
             original == job[w].original
             stamp == job[w].stamp
             new == [original EXCEPT !.asserted = stamp, !.retracted = Null,
                                     !.next = Null, !.prev = Null, !.fixes = id]
  <1>0. PICK at \in TrailTimes(w) :
           /\ facts' = Append([facts EXCEPT ![id] = EndBelief(facts[id], stamp)], new)
           /\ beliefs' = CloseOpen(id, at) \union
                {Window(id, "corrected", original.asserted, at,
                        original.from, original.to, NewId),
                 Asserted(NewId, at, original.from, original.to)}
    BY DEF Correct, Mistaken
  <1> DEFINE wrong == Window(id, "corrected", original.asserted, at,
                             original.from, original.to, NewId)
             held == Asserted(NewId, at, original.from, original.to)
  <1>1. /\ job[w] # Idle /\ Len(facts) < MaxFacts
        /\ facts' = Append([facts EXCEPT ![id] = EndBelief(facts[id], stamp)], new)
        /\ beliefs' = CloseOpen(id, at) \union {wrong, held}
        /\ now' = now
    BY <1>0, OperationIsBusy DEF Correct, Operations
  <1>2. /\ id \in DOMAIN facts /\ id \in Ids
        /\ original \in Rows /\ facts[id] \in Rows
        /\ original.asserted <= now /\ ChecksPass(original)
        /\ stamp \in Times /\ stamp <= now
    BY <1>1, BusyWriter
  <1>30. /\ MayEnd(id, at) /\ at \in Times /\ at \in Nat /\ at # Null
         /\ at <= now /\ original.asserted <= at
    BY <1>0, <1>1, TrailIsLater
  <1>3. NewId \in Ids /\ NewId <= MaxFacts /\ NewId \notin DOMAIN facts
    BY <1>1, NewIdFree, TimelineAssumption DEF Ids
  <1>4. /\ new \in Rows /\ new.from = original.from /\ new.to = original.to
        /\ new.asserted = stamp /\ new.next = Null /\ new.undated = original.undated
        /\ new.fixes = id
    BY <1>2, NullIsNone DEF Rows, TypeOK
  <1>5. ChecksPass(new)
    BY <1>2, <1>4 DEF ChecksPass
  <1>6. /\ wrong \in Windows /\ wrong.memory = id
        /\ wrong.since = original.asserted /\ wrong.until = at
    <2>1. /\ original.asserted \in Times /\ original.from \in Times \union {Null}
          /\ original.to \in Times \union {Null}
      BY <1>2 DEF Rows
    <2> QED
      BY <2>1, <1>2, <1>3, <1>30, NullIsNone DEF Window, Windows, Causes
  <1>7. /\ held \in Windows /\ held.memory = NewId
        /\ held.since = at /\ held.until = Null
    <2>1. original.from \in Times \union {Null} /\ original.to \in Times \union {Null}
      BY <1>2 DEF Rows
    <2> QED
      BY <2>1, <1>3, <1>30, NullIsNone DEF Asserted, Window, Windows, Causes
  <1> HIDE DEF id, original, stamp, new, wrong, held
  <1>8. /\ EndBelief(facts[id], stamp) \in Rows
        /\ EndBelief(facts[id], stamp).from = facts[id].from
        /\ EndBelief(facts[id], stamp).asserted = facts[id].asserted
        /\ ChecksPass(facts[id]) => ChecksPass(EndBelief(facts[id], stamp))
    BY <1>2, EndBeliefDoes DEF ChecksPass
  <1>9. LET table == [facts EXCEPT ![id] = EndBelief(facts[id], stamp)] IN
        /\ table \in Seq(Rows) /\ Len(table) = Len(facts)
        /\ DOMAIN table = DOMAIN facts /\ table[id] = EndBelief(facts[id], stamp)
        /\ \A i \in DOMAIN facts : i # id => table[i] = facts[i]
    BY <1>2, <1>8, UpdateDoes DEF TypeOK
  <1>10. /\ facts' \in Seq(Rows) /\ Len(facts') = NewId
         /\ DOMAIN facts' = DOMAIN facts \union {NewId}
         /\ facts'[NewId] = new /\ facts'[id] = EndBelief(facts[id], stamp)
         /\ \A i \in DOMAIN facts : i # id => facts'[i] = facts[i]
    BY <1>1, <1>2, <1>4, <1>9, InsertDoes DEF NewId
  <1>11. now \in Nat /\ now # Null
    BY NullIsNone DEF TypeOK
  <1>12. /\ CloseOpen(id, at) \subseteq Windows
         /\ \A b \in CloseOpen(id, at) :
               /\ b.memory \in DOMAIN facts
               /\ b.since <= now
               /\ b.until = Null \/ b.since <= b.until
         /\ {b \in CloseOpen(id, at) : b.until = Null} = HeldOfOthers(id)
    BY <1>2, <1>30, CloseOpenDoes
  <1>13. WrittenWell
    <2>1. \A i \in DOMAIN facts' : ChecksPass(facts'[i]) /\ facts'[i].asserted <= now
      BY <1>2, <1>4, <1>5, <1>8, <1>10, <1>11 DEF TypeOK, Past
    <2>2. \A i \in DOMAIN facts : i \in DOMAIN facts' /\ facts'[i].from = facts[i].from
      BY <1>8, <1>10
    <2>3. /\ beliefs' \subseteq Windows
          /\ \A b \in beliefs' : /\ b.memory \in DOMAIN facts'
                                 /\ b.since <= now
                                 /\ b.until = Null \/ b.since <= b.until
      BY <1>1, <1>2, <1>6, <1>7, <1>10, <1>30, <1>12
    <2> QED
      BY <1>1, <1>3, <1>10, <2>1, <2>2, <2>3 DEF WrittenWell
  <1>14. Held' = HeldOfOthers(id) \union {held}
    BY <1>1, <1>6, <1>7, <1>30, <1>12 DEF Held
  <1>15. held = Asserted(NewId, at, facts'[NewId].from, facts'[NewId].to)
    BY <1>4, <1>10 DEF held
  <1>16. beliefs' = CloseOpen(id, at) \union {wrong, held}
    BY <1>1
  <1>17. CorrectedWell(w, at)
    BY <1>2, <1>4, <1>7, <1>10, <1>13, <1>14, <1>15, <1>16
       DEF CorrectedWell, id, stamp, original, wrong
  <1> QED
    BY <1>17

\* supersede bounds the fact, re-opens the belief in it with its new end, and
\* inserts the fact that follows it.
SupersededWell(w, at) ==
    LET id == job[w].id
        effective == job[w].effective
        reopened == Asserted(id, at, facts[id].from, effective)
        held == Asserted(NewId, at, effective, Null) IN
    /\ WrittenWell
    /\ id \in DOMAIN facts /\ id \in Ids /\ NewId \in Ids
    /\ effective \in Times \union {Null}
    /\ DOMAIN facts' = DOMAIN facts \union {NewId}
    /\ facts'[id] = Bounded(facts[id], effective)
    /\ \A i \in DOMAIN facts : i # id => facts'[i] = facts[i]
    /\ facts'[NewId].next = Null /\ facts'[NewId].prev = id
    /\ facts'[NewId].fixes = Null
    /\ facts'[NewId].from = effective /\ facts'[NewId].to = Null
    /\ facts'[NewId].asserted = job[w].stamp
    /\ Held' = HeldOfOthers(id) \union {reopened, held}
    /\ reopened \in Windows /\ held \in Windows
    /\ beliefs' = CloseOpen(id, at) \union
          {Window(id, "superseded", job[w].original.asserted, at,
                  facts[id].from, effective, NewId), reopened, held}

LEMMA SupersedeEffect ==
    ASSUME TimelineInvariant, NEW w \in Writers, Supersede(w)
    PROVE  \E at \in TrailTimes(w) : SupersededWell(w, at)
  <1> USE DEF TimelineInvariant
  <1> DEFINE id == job[w].id
             original == job[w].original
             effective == job[w].effective
             stamp == job[w].stamp
             bounded == Bounded(facts[id], effective)
             new == [from |-> effective, to |-> Null, asserted |-> stamp,
                     retracted |-> Null, undated |-> FALSE, next |-> Null,
                     prev |-> id, fixes |-> Null, sources |-> original.sources]
  <1>0. PICK at \in TrailTimes(w) :
           /\ ChecksPass(bounded)
           /\ facts' = Append([facts EXCEPT ![id] = bounded], new)
           /\ beliefs' = CloseOpen(id, at)
                \union {Asserted(id, at, original.from, effective)}
                \union {Window(id, "superseded", original.asserted, at,
                               original.from, effective, NewId),
                        Asserted(NewId, at, effective, Null)}
    BY DEF Supersede, Accepts, Reopened
  <1> DEFINE ended == Window(id, "superseded", original.asserted, at,
                             original.from, effective, NewId)
             reopened == Asserted(id, at, original.from, effective)
             held == Asserted(NewId, at, effective, Null)
  <1>1. /\ job[w] # Idle /\ Len(facts) < MaxFacts
        /\ ChecksPass(bounded)
        /\ facts' = Append([facts EXCEPT ![id] = bounded], new)
        /\ beliefs' = CloseOpen(id, at) \union {ended, reopened, held}
        /\ now' = now
    BY <1>0, OperationIsBusy DEF Supersede, Operations
  <1>2. /\ id \in DOMAIN facts /\ id \in Ids
        /\ original \in Rows /\ facts[id] \in Rows
        /\ original.asserted <= now
        /\ effective \in Times \union {Null}
        /\ original.from = facts[id].from
        /\ stamp \in Times /\ stamp <= now
    BY <1>1, BusyWriter
  <1>30. /\ MayEnd(id, at) /\ at \in Times /\ at \in Nat /\ at # Null
         /\ at <= now /\ original.asserted <= at
    BY <1>0, <1>1, TrailIsLater
  <1>3. NewId \in Ids /\ NewId <= MaxFacts /\ NewId \notin DOMAIN facts
    BY <1>1, NewIdFree, TimelineAssumption DEF Ids
  <1>4. /\ new \in Rows /\ new.from = effective /\ new.to = Null
        /\ new.asserted = stamp /\ new.next = Null /\ new.prev = id
        /\ new.fixes = Null /\ ChecksPass(new)
    BY <1>2, NullIsNone DEF Rows, ChecksPass
  <1>5. /\ original.asserted \in Times /\ original.from \in Times \union {Null}
    BY <1>2 DEF Rows
  <1>6. /\ ended \in Windows /\ ended.memory = id
        /\ ended.since = original.asserted /\ ended.until = at
    BY <1>2, <1>3, <1>5, <1>30, NullIsNone DEF Window, Windows, Causes
  <1>7. /\ held \in Windows /\ held.memory = NewId
        /\ held.since = at /\ held.until = Null
    BY <1>2, <1>3, <1>30, NullIsNone DEF Asserted, Window, Windows, Causes
  <1>8. /\ reopened \in Windows /\ reopened.memory = id
        /\ reopened.since = at /\ reopened.until = Null
    BY <1>2, <1>5, <1>30, NullIsNone DEF Asserted, Window, Windows, Causes
  <1> HIDE DEF id, original, effective, stamp, bounded, new, ended, reopened, held
  <1>9. /\ bounded \in Rows /\ bounded.from = facts[id].from
        /\ bounded.asserted = facts[id].asserted
    BY <1>2, <1>3, BoundedDoes DEF bounded
  <1>10. LET table == [facts EXCEPT ![id] = bounded] IN
         /\ table \in Seq(Rows) /\ Len(table) = Len(facts)
         /\ DOMAIN table = DOMAIN facts /\ table[id] = bounded
         /\ \A i \in DOMAIN facts : i # id => table[i] = facts[i]
    BY <1>2, <1>9, UpdateDoes DEF TypeOK
  <1>11. /\ facts' \in Seq(Rows) /\ Len(facts') = NewId
         /\ DOMAIN facts' = DOMAIN facts \union {NewId}
         /\ facts'[NewId] = new /\ facts'[id] = bounded
         /\ \A i \in DOMAIN facts : i # id => facts'[i] = facts[i]
    BY <1>1, <1>2, <1>4, <1>10, InsertDoes DEF NewId
  <1>12. now \in Nat /\ now # Null
    BY NullIsNone DEF TypeOK
  <1>13. /\ CloseOpen(id, at) \subseteq Windows
         /\ \A b \in CloseOpen(id, at) :
               /\ b.memory \in DOMAIN facts
               /\ b.since <= now
               /\ b.until = Null \/ b.since <= b.until
         /\ {b \in CloseOpen(id, at) : b.until = Null} = HeldOfOthers(id)
    BY <1>2, <1>30, CloseOpenDoes
  <1>14. WrittenWell
    <2>1. \A i \in DOMAIN facts' : ChecksPass(facts'[i]) /\ facts'[i].asserted <= now
      BY <1>1, <1>2, <1>4, <1>9, <1>11, <1>12 DEF TypeOK, Past
    <2>2. \A i \in DOMAIN facts : i \in DOMAIN facts' /\ facts'[i].from = facts[i].from
      BY <1>9, <1>11
    <2>3. /\ beliefs' \subseteq Windows
          /\ \A b \in beliefs' : /\ b.memory \in DOMAIN facts'
                                 /\ b.since <= now
                                 /\ b.until = Null \/ b.since <= b.until
      BY <1>1, <1>2, <1>6, <1>7, <1>8, <1>11, <1>30, <1>13
    <2> QED
      BY <1>1, <1>3, <1>11, <2>1, <2>2, <2>3 DEF WrittenWell
  <1>15. Held' = HeldOfOthers(id) \union {reopened, held}
    BY <1>1, <1>6, <1>7, <1>8, <1>30, <1>13 DEF Held
  <1>16. beliefs' = CloseOpen(id, at) \union {ended, reopened, held}
    BY <1>1
  <1>17. /\ reopened = Asserted(id, at, facts[id].from, effective)
         /\ held = Asserted(NewId, at, effective, Null)
         /\ ended = Window(id, "superseded", original.asserted, at,
                           facts[id].from, effective, NewId)
    BY <1>2 DEF reopened, held, ended
  <1>18. SupersededWell(w, at)
    BY <1>2, <1>3, <1>4, <1>7, <1>8, <1>11, <1>14, <1>15, <1>16, <1>17
       DEF SupersededWell, id, effective, bounded, original, stamp
  <1> QED
    BY <1>18

\* retract ends the belief in the fact, and inserts nothing.
RetractedWell(w, at) ==
    LET id == job[w].id IN
    /\ WrittenWell
    /\ id \in DOMAIN facts /\ id \in Ids
    /\ DOMAIN facts' = DOMAIN facts
    /\ facts'[id] = EndBelief(facts[id], job[w].stamp)
    /\ \A i \in DOMAIN facts : i # id => facts'[i] = facts[i]
    /\ Held' = HeldOfOthers(id)
    /\ beliefs' = CloseOpen(id, at) \union
          {Window(id, "retracted", job[w].original.asserted, at,
                  job[w].original.from, job[w].original.to, Null)}

LEMMA RetractEffect ==
    ASSUME TimelineInvariant, NEW w \in Writers, Retract(w)
    PROVE  \E at \in TrailTimes(w) : RetractedWell(w, at)
  <1> USE DEF TimelineInvariant
  <1> DEFINE id == job[w].id
             original == job[w].original
             stamp == job[w].stamp
  <1>0. PICK at \in TrailTimes(w) :
           /\ facts' = [facts EXCEPT ![id] = EndBelief(facts[id], stamp)]
           /\ beliefs' = CloseOpen(id, at) \union
                {Window(id, "retracted", original.asserted, at,
                        original.from, original.to, Null)}
    BY DEF Retract
  <1> DEFINE ended == Window(id, "retracted", original.asserted, at,
                             original.from, original.to, Null)
  <1>1. /\ job[w] # Idle
        /\ facts' = [facts EXCEPT ![id] = EndBelief(facts[id], stamp)]
        /\ beliefs' = CloseOpen(id, at) \union {ended}
        /\ now' = now
    BY <1>0, OperationIsBusy DEF Retract, Operations
  <1>2. /\ id \in DOMAIN facts /\ id \in Ids
        /\ original \in Rows /\ facts[id] \in Rows
        /\ original.asserted <= now
        /\ stamp \in Times /\ stamp <= now
    BY <1>1, BusyWriter
  <1>30. /\ MayEnd(id, at) /\ at \in Times /\ at \in Nat /\ at # Null
         /\ at <= now /\ original.asserted <= at
    BY <1>0, <1>1, TrailIsLater
  <1>3. /\ original.asserted \in Times /\ original.from \in Times \union {Null}
        /\ original.to \in Times \union {Null}
    BY <1>2 DEF Rows
  <1>4. /\ ended \in Windows /\ ended.memory = id
        /\ ended.since = original.asserted /\ ended.until = at
    BY <1>2, <1>3, <1>30, NullIsNone DEF Window, Windows, Causes
  <1> HIDE DEF id, original, stamp, ended
  <1>5. /\ EndBelief(facts[id], stamp) \in Rows
        /\ EndBelief(facts[id], stamp).from = facts[id].from
        /\ EndBelief(facts[id], stamp).asserted = facts[id].asserted
        /\ ChecksPass(facts[id]) => ChecksPass(EndBelief(facts[id], stamp))
    BY <1>2, EndBeliefDoes DEF ChecksPass
  <1>6. /\ facts' \in Seq(Rows) /\ Len(facts') = Len(facts)
        /\ DOMAIN facts' = DOMAIN facts
        /\ facts'[id] = EndBelief(facts[id], stamp)
        /\ \A i \in DOMAIN facts : i # id => facts'[i] = facts[i]
    BY <1>1, <1>2, <1>5, UpdateDoes DEF TypeOK
  <1>7. now \in Nat /\ now # Null
    BY NullIsNone DEF TypeOK
  <1>8. /\ CloseOpen(id, at) \subseteq Windows
        /\ \A b \in CloseOpen(id, at) :
              /\ b.memory \in DOMAIN facts
              /\ b.since <= now
              /\ b.until = Null \/ b.since <= b.until
        /\ {b \in CloseOpen(id, at) : b.until = Null} = HeldOfOthers(id)
    BY <1>2, <1>30, CloseOpenDoes
  <1>9. WrittenWell
    <2>1. \A i \in DOMAIN facts' : ChecksPass(facts'[i]) /\ facts'[i].asserted <= now
      BY <1>2, <1>5, <1>6, <1>7 DEF TypeOK, Past
    <2>2. \A i \in DOMAIN facts : i \in DOMAIN facts' /\ facts'[i].from = facts[i].from
      BY <1>5, <1>6
    <2>3. /\ beliefs' \subseteq Windows
          /\ \A b \in beliefs' : /\ b.memory \in DOMAIN facts'
                                 /\ b.since <= now
                                 /\ b.until = Null \/ b.since <= b.until
      BY <1>1, <1>2, <1>4, <1>6, <1>30, <1>8
    <2> QED
      BY <1>1, <1>6, <2>1, <2>2, <2>3 DEF WrittenWell, TypeOK
  <1>10. Held' = HeldOfOthers(id)
    BY <1>1, <1>4, <1>30, <1>8 DEF Held
  <1>11. RetractedWell(w, at)
    BY <1>1, <1>2, <1>6, <1>9, <1>10 DEF RetractedWell, id, stamp, original, ended
  <1> QED
    BY <1>11

-----------------------------------------------------------------------------
\* The invariant is inductive

\* The empty tables satisfy it.
LEMMA InitInvariant == Init => TimelineInvariant
  <1>1. ASSUME Init PROVE TypeOK
    <2>1. <<>> \in Seq(Rows) /\ Len(<<>>) = 0 /\ DOMAIN <<>> = {}
      BY EmptySeq, LenProperties
    <2>2. Idle \in Jobs \union {Idle}
      OBVIOUS
    <2> QED
      BY <1>1, <2>1, <2>2, TimelineAssumption DEF Init, TypeOK, Times
  <1>2. ASSUME Init PROVE DOMAIN facts = {} /\ Held = {}
    BY <1>2 DEF Init, Held
  <1>3. ASSUME Init
        PROVE  /\ ReadsAgree /\ Past /\ HeldOnce /\ BelievedIsHeld
               /\ HeldMatchesFact /\ NextExists /\ SupersessionMeets
    BY <1>2, <1>3 DEF Init, ReadsAgree, Past, HeldOnce, BelievedIsHeld,
       HeldMatchesFact, NextExists, SupersessionMeets
  <1> QED
    BY <1>1, <1>3 DEF TimelineInvariant

\* A write that ends its writer's job keeps the types, what the other writers
\* have read, and time in order.
LEMMA WriteKeepsTypes ==
    ASSUME TimelineInvariant, WrittenWell,
           job' = job \/ \E w \in Writers : job' = [job EXCEPT ![w] = Idle],
           commit' = commit \/ \E s \in Sources : commit' = [commit EXCEPT ![s] = Null]
    PROVE  TypeOK' /\ ReadsAgree' /\ Past'
  <1> USE DEF TimelineInvariant
  <1>0. /\ commit' \in [Sources -> Times \union {Null}]
        /\ \A s \in Sources : commit'[s] # Null => commit'[s] = commit[s]
    BY DEF TypeOK
  <1>1. /\ job' \in [Writers -> Jobs \union {Idle}]
        /\ \A w \in Writers : job'[w] # Idle => job'[w] = job[w]
    BY DEF TypeOK
  <1>2. TypeOK'
    BY <1>0, <1>1 DEF WrittenWell, TypeOK
  <1>3. ReadsAgree'
    BY <1>1 DEF WrittenWell, ReadsAgree
  <1>4. Past'
    BY <1>0 DEF WrittenWell, Past
  <1> QED
    BY <1>2, <1>3, <1>4

\* A commit keeps the invariant.
LEMMA CommitKeeps ==
    ASSUME TimelineInvariant, NEW s \in Sources, CommitFact(s)
    PROVE  TimelineInvariant'
  <1> USE DEF TimelineInvariant
  <1> DEFINE held == Asserted(NewId, commit[s], facts'[NewId].from, facts'[NewId].to)
  <1>1. /\ WrittenWell
        /\ DOMAIN facts' = DOMAIN facts \union {NewId}
        /\ \A id \in DOMAIN facts : facts'[id] = facts[id]
        /\ facts'[NewId].next = Null
        /\ Held' = Held \union {held}
    BY CommitEffect
  <1>2. /\ held.memory = NewId
        /\ held.from = facts'[NewId].from /\ held.to = facts'[NewId].to
    BY DEF Asserted, Window
  <1>3. NewId \notin DOMAIN facts /\ \A b \in Held : b.memory \in DOMAIN facts
    BY NewIdFree DEF Held, TypeOK
  <1> HIDE DEF held
  <1>4. TypeOK' /\ ReadsAgree' /\ Past'
    BY <1>1, WriteKeepsTypes DEF CommitFact
  <1>5. HeldOnce'
    BY <1>1, <1>2, <1>3 DEF HeldOnce
  <1>6. BelievedIsHeld'
    BY <1>1, <1>2 DEF BelievedIsHeld
  <1>7. HeldMatchesFact'
    BY <1>1, <1>2, <1>3 DEF HeldMatchesFact
  <1>8. NextExists' /\ SupersessionMeets'
    BY <1>1 DEF NextExists, SupersessionMeets
  <1> QED
    BY <1>4, <1>5, <1>6, <1>7, <1>8

\* A correction keeps the invariant.
LEMMA CorrectKeeps ==
    ASSUME TimelineInvariant, NEW w \in Writers, Correct(w)
    PROVE  TimelineInvariant'
  <1> USE DEF TimelineInvariant
  <1>0. PICK at \in TrailTimes(w) : CorrectedWell(w, at)
    BY CorrectEffect
  <1> DEFINE id == job[w].id
             held == Asserted(NewId, at, facts'[NewId].from, facts'[NewId].to)
  <1>1. /\ WrittenWell
        /\ id \in DOMAIN facts
        /\ DOMAIN facts' = DOMAIN facts \union {NewId}
        /\ facts'[id] = EndBelief(facts[id], job[w].stamp) /\ job[w].stamp \in Times
        /\ \A i \in DOMAIN facts : i # id => facts'[i] = facts[i]
        /\ facts'[NewId].next = Null
        /\ Held' = HeldOfOthers(id) \union {held}
    BY <1>0, OperationIsBusy, BusyWriter DEF CorrectedWell, Correct, Operations
  <1>2. /\ held.memory = NewId
        /\ held.from = facts'[NewId].from /\ held.to = facts'[NewId].to
    BY DEF Asserted, Window
  <1>3. NewId \notin DOMAIN facts /\ \A b \in Held : b.memory \in DOMAIN facts
    BY NewIdFree DEF Held, TypeOK
  <1>4. job' = [job EXCEPT ![w] = Idle] /\ commit' = commit
    BY DEF Correct, Finished
  <1> HIDE DEF id, held
  <1>5. /\ facts'[id].retracted # Null
        /\ \A i \in DOMAIN facts : /\ facts'[i].from = facts[i].from
                                   /\ facts'[i].to = facts[i].to
                                   /\ facts'[i].next = facts[i].next
                                   /\ facts'[i].prev = facts[i].prev
    BY <1>1, NewIdFree, EndBeliefDoes DEF TypeOK
  <1>6. TypeOK' /\ ReadsAgree' /\ Past'
    BY <1>1, <1>4, WriteKeepsTypes
  <1>7. HeldOnce'
    BY <1>1, <1>2, <1>3 DEF HeldOnce, HeldOfOthers
  <1>8. BelievedIsHeld'
    BY <1>1, <1>2, <1>5 DEF BelievedIsHeld, HeldOfOthers
  <1>9. HeldMatchesFact'
    BY <1>1, <1>2, <1>3 DEF HeldMatchesFact, HeldOfOthers
  <1>10. NextExists' /\ SupersessionMeets'
    BY <1>1, <1>5 DEF NextExists, SupersessionMeets
  <1> QED
    BY <1>6, <1>7, <1>8, <1>9, <1>10

\* A supersession keeps the invariant.
LEMMA SupersedeKeeps ==
    ASSUME TimelineInvariant, NEW w \in Writers, Supersede(w)
    PROVE  TimelineInvariant'
  <1> USE DEF TimelineInvariant
  <1>0. PICK at \in TrailTimes(w) : SupersededWell(w, at)
    BY SupersedeEffect
  <1> DEFINE id == job[w].id
             effective == job[w].effective
             reopened == Asserted(id, at, facts[id].from, effective)
             held == Asserted(NewId, at, effective, Null)
  <1>1. /\ WrittenWell
        /\ id \in DOMAIN facts
        /\ DOMAIN facts' = DOMAIN facts \union {NewId}
        /\ facts'[id] = Bounded(facts[id], effective)
        /\ \A i \in DOMAIN facts : i # id => facts'[i] = facts[i]
        /\ facts'[NewId].next = Null /\ facts'[NewId].prev = id
        /\ facts'[NewId].from = effective /\ facts'[NewId].to = Null
        /\ Held' = HeldOfOthers(id) \union {reopened, held}
        /\ effective \in Times \union {Null}
    BY <1>0 DEF SupersededWell
  <1>2. /\ held.memory = NewId /\ held.from = effective /\ held.to = Null
        /\ reopened.memory = id /\ reopened.from = facts[id].from
        /\ reopened.to = effective
    BY DEF Asserted, Window
  <1>3. NewId \notin DOMAIN facts /\ \A b \in Held : b.memory \in DOMAIN facts
    BY NewIdFree DEF Held, TypeOK
  <1>4. job' = [job EXCEPT ![w] = Idle] /\ commit' = commit /\ NewId \in Ids
    BY <1>0 DEF Supersede, Finished, SupersededWell
  <1> HIDE DEF id, effective, reopened, held
  <1>5. /\ facts'[id].to = effective /\ facts'[id].next = NewId
        /\ \A i \in DOMAIN facts : /\ facts'[i].from = facts[i].from
                                   /\ facts'[i].prev = facts[i].prev
                                   /\ facts'[i].retracted = facts[i].retracted
    BY <1>1, <1>4, NewIdFree, BoundedDoes
  <1>6. TypeOK' /\ ReadsAgree' /\ Past'
    BY <1>1, <1>4, WriteKeepsTypes
  <1>7. HeldOnce'
    BY <1>1, <1>2, <1>3 DEF HeldOnce, HeldOfOthers
  <1>8. BelievedIsHeld'
    BY <1>1, <1>2, <1>5 DEF BelievedIsHeld, HeldOfOthers
  <1>9. HeldMatchesFact'
    BY <1>1, <1>2, <1>3, <1>5 DEF HeldMatchesFact, HeldOfOthers
  <1>10. NextExists' /\ SupersessionMeets'
    BY <1>1, <1>5 DEF NextExists, SupersessionMeets
  <1> QED
    BY <1>6, <1>7, <1>8, <1>9, <1>10

\* A retraction keeps the invariant.
LEMMA RetractKeeps ==
    ASSUME TimelineInvariant, NEW w \in Writers, Retract(w)
    PROVE  TimelineInvariant'
  <1> USE DEF TimelineInvariant
  <1>0. PICK at \in TrailTimes(w) : RetractedWell(w, at)
    BY RetractEffect
  <1> DEFINE id == job[w].id
  <1>1. /\ WrittenWell
        /\ id \in DOMAIN facts
        /\ DOMAIN facts' = DOMAIN facts
        /\ facts'[id] = EndBelief(facts[id], job[w].stamp) /\ job[w].stamp \in Times
        /\ \A i \in DOMAIN facts : i # id => facts'[i] = facts[i]
        /\ Held' = HeldOfOthers(id)
    BY <1>0, OperationIsBusy, BusyWriter DEF RetractedWell, Retract, Operations
  <1>2. job' = [job EXCEPT ![w] = Idle] /\ commit' = commit
    BY DEF Retract, Finished
  <1> HIDE DEF id
  <1>3. /\ facts'[id].retracted # Null
        /\ \A i \in DOMAIN facts : /\ facts'[i].from = facts[i].from
                                   /\ facts'[i].to = facts[i].to
                                   /\ facts'[i].next = facts[i].next
                                   /\ facts'[i].prev = facts[i].prev
    BY <1>1, NewIdFree, EndBeliefDoes DEF TypeOK
  <1>4. \A b \in Held : b.memory \in DOMAIN facts
    BY DEF Held, TypeOK
  <1>5. TypeOK' /\ ReadsAgree' /\ Past'
    BY <1>1, <1>2, WriteKeepsTypes
  <1>6. HeldOnce'
    BY <1>1 DEF HeldOnce, HeldOfOthers
  <1>7. BelievedIsHeld'
    BY <1>1, <1>3 DEF BelievedIsHeld, HeldOfOthers
  <1>8. HeldMatchesFact'
    BY <1>1, <1>4 DEF HeldMatchesFact, HeldOfOthers
  <1>9. NextExists' /\ SupersessionMeets'
    BY <1>1, <1>3 DEF NextExists, SupersessionMeets
  <1> QED
    BY <1>5, <1>6, <1>7, <1>8, <1>9

\* A step that leaves both tables alone keeps the invariant.
LEMMA QuietKeeps ==
    ASSUME TimelineInvariant, UNCHANGED <<facts, beliefs>>,
           \/ Tick
           \/ \E s \in Sources : BeginCommit(s) \/ AbandonCommit(s)
           \/ \E w \in Writers : ReadFact(w) \/ RollBack(w)
           \/ UNCHANGED vars
    PROVE  TimelineInvariant'
  <1> USE DEF TimelineInvariant
  <1>1. /\ HeldOnce' /\ BelievedIsHeld' /\ HeldMatchesFact'
        /\ NextExists' /\ SupersessionMeets'
    BY DEF Held, HeldOnce, BelievedIsHeld, HeldMatchesFact, NextExists,
           SupersessionMeets
  <1>2. ASSUME UNCHANGED <<now, commit>> PROVE Past'
    BY <1>2 DEF Past
  <1>3. CASE Tick
    <2>1. /\ now \in Nat /\ now' = now + 1 /\ now' \in Times
          /\ job' = job /\ commit' = commit
      BY <1>3, TimelineAssumption, NullIsNone DEF Tick, TypeOK, Times
    <2>2. /\ \A i \in DOMAIN facts : facts[i].asserted \in Nat
          /\ \A b \in beliefs : b.since \in Nat
          /\ \A s \in Sources : commit[s] # Null => commit[s] \in Nat
          /\ \A w \in Writers : job[w] # Idle => job[w].stamp \in Nat
      BY NewIdFree, BusyWriter, NullIsNone DEF TypeOK, Rows, Windows
    <2>3. \A n \in Nat : n <= now => n <= now'
      BY <2>1
    <2>4. Past'
      BY <2>1, <2>2, <2>3 DEF Past
    <2>5. ReadsAgree'
      BY <2>1, <2>2, <2>3 DEF ReadsAgree
    <2> QED
      BY <1>1, <2>1, <2>4, <2>5 DEF TypeOK
  <1>4. ASSUME NEW w \in Writers, ReadFact(w) PROVE TypeOK' /\ ReadsAgree' /\ Past'
    <2>1. PICK op \in Operations, id \in DOMAIN facts, t \in Times \union {Null} :
             job' = [job EXCEPT ![w] = [op |-> op, id |-> id,
                                        original |-> facts[id],
                                        stamp |-> now, effective |-> t]]
      BY <1>4 DEF ReadFact
    <2> DEFINE read == [op |-> op, id |-> id, original |-> facts[id],
                        stamp |-> now, effective |-> t]
    <2>2. read \in Jobs /\ read.id = id /\ read.original = facts[id] /\ read.stamp = now
      BY NewIdFree DEF Jobs, TypeOK
    <2> HIDE DEF read
    <2>3. /\ job' = [job EXCEPT ![w] = read] /\ now' = now /\ commit' = commit
          /\ facts[id].asserted <= now /\ ChecksPass(facts[id])
      BY <1>4, <2>1 DEF ReadFact, read, Past, TypeOK
    <2>6. now <= now
      BY NullIsNone DEF TypeOK
    <2>4. TypeOK'
      BY <2>2, <2>3 DEF TypeOK
    <2>5. ReadsAgree'
      BY <2>2, <2>3, <2>6 DEF TypeOK, ReadsAgree
    <2> QED
      BY <1>2, <2>3, <2>4, <2>5
  <1>5. ASSUME NEW w \in Writers, RollBack(w) PROVE TypeOK' /\ ReadsAgree' /\ Past'
    <2>1. job' = [job EXCEPT ![w] = Idle] /\ now' = now /\ commit' = commit
      BY <1>5 DEF RollBack, Finished
    <2> QED
      BY <2>1 DEF TypeOK, ReadsAgree, Past
  <1>6. ASSUME NEW s \in Sources, BeginCommit(s) \/ AbandonCommit(s)
        PROVE  TypeOK' /\ ReadsAgree' /\ Past'
    <2>1. PICK t \in {now, Null} : commit' = [commit EXCEPT ![s] = t]
      BY <1>6 DEF BeginCommit, AbandonCommit
    <2>2. job' = job /\ now' = now /\ t \in Times \union {Null}
      BY <1>6, <2>1 DEF BeginCommit, AbandonCommit, TypeOK
    <2>3. t # Null => t <= now
      BY <2>1, NullIsNone DEF TypeOK
    <2>4. /\ commit' \in [Sources -> Times \union {Null}]
          /\ \A x \in Sources : commit'[x] # Null => commit'[x] <= now
      BY <2>1, <2>2, <2>3 DEF TypeOK, Past
    <2> QED
      BY <2>2, <2>4 DEF TypeOK, ReadsAgree, Past
  <1>7. CASE UNCHANGED vars
    BY <1>1, <1>7 DEF vars, TypeOK, ReadsAgree, Past
  <1> QED
    BY <1>1, <1>3, <1>4, <1>5, <1>6, <1>7

\* Every step keeps the invariant.
LEMMA NextKeeps == TimelineInvariant /\ [Next]_vars => TimelineInvariant'
  <1> SUFFICES ASSUME TimelineInvariant, [Next]_vars PROVE TimelineInvariant'
    OBVIOUS
  <1>1. ASSUME NEW s \in Sources, CommitFact(s) PROVE TimelineInvariant'
    BY <1>1, CommitKeeps
  <1>2. ASSUME NEW w \in Writers, Correct(w) PROVE TimelineInvariant'
    BY <1>2, CorrectKeeps
  <1>3. ASSUME NEW w \in Writers, Supersede(w) PROVE TimelineInvariant'
    BY <1>3, SupersedeKeeps
  <1>4. ASSUME NEW w \in Writers, Retract(w) PROVE TimelineInvariant'
    BY <1>4, RetractKeeps
  <1>5. ASSUME NEW w \in Writers, ReadFact(w) \/ RollBack(w) PROVE TimelineInvariant'
    BY <1>5, QuietKeeps DEF ReadFact, RollBack
  <1>6. CASE Tick \/ UNCHANGED vars
    BY <1>6, QuietKeeps DEF Tick, vars
  <1>7. ASSUME NEW s \in Sources, BeginCommit(s) \/ AbandonCommit(s)
        PROVE  TimelineInvariant'
    BY <1>7, QuietKeeps DEF BeginCommit, AbandonCommit
  <1> QED
    BY <1>1, <1>2, <1>3, <1>4, <1>5, <1>6, <1>7 DEF Next

\* What a writer holds, what the rows say and what is believed fit together in
\* every reachable state.
THEOREM InvariantOfTimeline == Spec => []TimelineInvariant
  BY InitInvariant, NextKeeps, PTL DEF Spec

-----------------------------------------------------------------------------
\* What follows from it

\* The rows of both tables and the jobs keep their types, and the CHECK
\* constraints hold of every row.
THEOREM TimelineTypes == Spec => []TypeOK
  BY InvariantOfTimeline, PTL DEF TimelineInvariant

\* However many writers race on a fact, and however stale what they read, it has
\* at most one belief that is still held, one unless it was retracted, and with
\* the world validity of its row.
THEOREM TrailAgreesWithRows == Spec => []BeliefsAgree
  <1>1. ASSUME TypeOK, HeldOnce, NEW id \in DOMAIN facts
        PROVE  Cardinality(Open(id)) <= 1
    <2>1. CASE Open(id) = {}
      BY <2>1, FS_EmptySet
    <2>2. ASSUME NEW b \in Open(id) PROVE Open(id) = {b}
      BY <1>1, <2>2 DEF Open, HeldOnce, Held
    <2> QED
      BY <2>1, <2>2, FS_Singleton
  <1>2. TimelineInvariant => OneOpenWindow
    BY <1>1 DEF TimelineInvariant, OneOpenWindow
  <1>3. TimelineInvariant => BelievedHasWindow
    BY DEF TimelineInvariant, BelievedIsHeld, BelievedHasWindow, Open, Held
  <1>4. TimelineInvariant => WindowMatchesFact
    BY DEF TimelineInvariant, HeldMatchesFact, WindowMatchesFact, Open, Held
  <1>5. TimelineInvariant => BeliefsAgree
    BY <1>2, <1>3, <1>4 DEF BeliefsAgree
  <1> QED
    BY <1>5, InvariantOfTimeline, PTL

\* A superseded fact ends where its successor begins, after any number of
\* supersessions by any number of writers.
THEOREM SuccessionMeets == Spec => []SupersessionMeets
  BY InvariantOfTimeline, PTL DEF TimelineInvariant

\* What a fact corrects is set when it is inserted, by a correction, and no step
\* makes a retracted fact believed again.
FixesStand ==
    /\ \A id \in DOMAIN facts :
          /\ id \in DOMAIN facts' /\ facts'[id].fixes = facts[id].fixes
          /\ facts[id].retracted # Null => facts'[id].retracted # Null
    /\ \A id \in DOMAIN facts' \ DOMAIN facts : facts'[id].fixes # Null =>
          /\ id = NewId
          /\ \E w \in Writers : /\ Correct(w) /\ facts'[id].fixes = job[w].id
                                /\ job[w].id \in DOMAIN facts
                                /\ facts'[job[w].id].retracted # Null

LEMMA FixesAreCorrections ==
    ASSUME TimelineInvariant, [Next]_vars
    PROVE  FixesStand
  <1> USE DEF FixesStand
  <1>1. \A id \in DOMAIN facts : facts[id] \in Rows
    BY NewIdFree DEF TimelineInvariant
  <1>2. CASE UNCHANGED facts
    BY <1>2
  <1>3. ASSUME NEW s \in Sources, CommitFact(s) PROVE FixesStand
    BY <1>3, CommitEffect
  <1>4. ASSUME NEW w \in Writers, Correct(w) PROVE FixesStand
    <2>1. PICK at \in TrailTimes(w) : CorrectedWell(w, at)
      BY <1>4, CorrectEffect
    <2>2. job[w].stamp \in Times
      BY <1>4, OperationIsBusy, BusyWriter DEF TimelineInvariant, Correct, Operations
    <2> QED
      BY <1>1, <1>4, <2>1, <2>2, EndBeliefDoes DEF CorrectedWell
  <1>5. ASSUME NEW w \in Writers, Supersede(w) PROVE FixesStand
    <2>1. PICK at \in TrailTimes(w) : SupersededWell(w, at)
      BY <1>5, SupersedeEffect
    <2> QED
      BY <1>1, <2>1, BoundedDoes DEF SupersededWell
  <1>6. ASSUME NEW w \in Writers, Retract(w) PROVE FixesStand
    <2>1. PICK at \in TrailTimes(w) : RetractedWell(w, at)
      BY <1>6, RetractEffect
    <2>2. job[w].stamp \in Times
      BY <1>6, OperationIsBusy, BusyWriter DEF TimelineInvariant, Retract, Operations
    <2> QED
      BY <1>1, <2>1, <2>2, EndBeliefDoes DEF RetractedWell
  <1> QED
    BY <1>2, <1>3, <1>4, <1>5, <1>6
       DEF Next, vars, Tick, BeginCommit, AbandonCommit, ReadFact, RollBack

\* No step but the three writers' changes a row that exists or ends a window.
LEMMA QuietSteps ==
    ASSUME TimelineInvariant, [Next]_vars
    PROVE  \/ /\ \A id \in DOMAIN facts : facts'[id] = facts[id]
              /\ beliefs \subseteq beliefs'
           \/ \E w \in Writers : Correct(w) \/ Supersede(w) \/ Retract(w)
  <1>1. CASE UNCHANGED <<facts, beliefs>>
    BY <1>1
  <1>2. ASSUME NEW s \in Sources, CommitFact(s)
        PROVE  /\ \A id \in DOMAIN facts : facts'[id] = facts[id]
               /\ beliefs \subseteq beliefs'
    BY <1>2, CommitEffect DEF CommitFact
  <1> QED
    BY <1>1, <1>2 DEF Next, vars, Tick, BeginCommit, AbandonCommit, ReadFact, RollBack

\* A write ends its writer's job.
LEMMA WriteEnds ==
    ASSUME TimelineInvariant, NEW w \in Writers,
           Correct(w) \/ Supersede(w) \/ Retract(w)
    PROVE  Ends(w)
  <1>1. job[w] # Idle
    BY OperationIsBusy DEF Correct, Supersede, Retract, Operations
  <1>2. job'[w] = Idle
    BY DEF Correct, Supersede, Retract, Finished, TimelineInvariant, TypeOK
  <1> QED
    BY <1>1, <1>2 DEF Ends

\* A write adds to the trail what close_open_transition leaves of it.
LEMMA WriteCloses ==
    ASSUME TimelineInvariant, NEW w \in Writers,
           Correct(w) \/ Supersede(w) \/ Retract(w)
    PROVE  /\ job[w] # Idle /\ job[w].id \in Ids
           /\ \E at \in TrailTimes(w) : CloseOpen(job[w].id, at) \subseteq beliefs'
  <1>1. job[w] # Idle
    BY WriteEnds DEF Ends
  <1>2. job[w].id \in Ids
    BY <1>1, BusyWriter DEF TimelineInvariant
  <1>3. CASE Correct(w)
    <2>1. PICK at \in TrailTimes(w) : CorrectedWell(w, at)
      BY <1>3, CorrectEffect
    <2> QED
      BY <1>1, <1>2, <2>1 DEF CorrectedWell
  <1>4. CASE Supersede(w)
    <2>1. PICK at \in TrailTimes(w) : SupersededWell(w, at)
      BY <1>4, SupersedeEffect
    <2> QED
      BY <1>1, <1>2, <2>1 DEF SupersededWell
  <1>5. CASE Retract(w)
    <2>1. PICK at \in TrailTimes(w) : RetractedWell(w, at)
      BY <1>5, RetractEffect
    <2> QED
      BY <1>1, <1>2, <2>1 DEF RetractedWell
  <1> QED
    BY <1>1, <1>2, <1>3, <1>4, <1>5

\* A belief that has ended is never moved, reopened or dropped, and one ends only
\* by a write, after the writer read the clock.
LEMMA TrailOnlyGrows ==
    ASSUME TimelineInvariant, [Next]_vars
    PROVE  TrailGrows
  <1>1. ASSUME NEW w \in Writers, Correct(w) \/ Supersede(w) \/ Retract(w)
        PROVE  TrailGrows
    <2>1. PICK at \in TrailTimes(w) : CloseOpen(job[w].id, at) \subseteq beliefs'
      BY <1>1, WriteCloses
    <2>2. job[w] # Idle /\ job[w].id \in Ids /\ Ends(w)
      BY <1>1, WriteCloses, WriteEnds
    <2>3. /\ MayEnd(job[w].id, at) /\ at \in Times
          /\ job[w].stamp <= at /\ at <= now
      BY <2>1, <2>2, TrailIsLater DEF TimelineInvariant
    <2>4. \A b \in beliefs :
             \/ b \in CloseOpen(job[w].id, at)
             \/ b.until = Null /\ [b EXCEPT !.until = at] \in CloseOpen(job[w].id, at)
      BY <2>2, <2>3, CloseOpenDoes DEF TimelineInvariant
    <2> QED
      BY <2>1, <2>2, <2>3, <2>4 DEF TrailGrows
  <1> QED
    BY <1>1, QuietSteps DEF TrailGrows

\* What a writer leaves of the rows there were.
LEMMA WritersLeave ==
    ASSUME TimelineInvariant, NEW w \in Writers,
           Correct(w) \/ Supersede(w) \/ Retract(w), NEW id \in DOMAIN facts
    PROVE  /\ facts[id].retracted # Null => facts'[id].retracted = facts[id].retracted
           /\ facts'[id].retracted # facts[id].retracted =>
                 Ends(w) /\ job[w].id = id /\ job[w].op \in {"correct", "retract"}
           /\ <<facts'[id].from, facts'[id].to>> # <<facts[id].from, facts[id].to>> =>
                 Ends(w) /\ job[w].id = id /\ job[w].op = "supersede"
  <1>1. \A i \in DOMAIN facts : facts[i] \in Rows
    BY NewIdFree DEF TimelineInvariant
  <1>2. Ends(w) /\ job[w].stamp \in Times
    BY WriteEnds, BusyWriter DEF TimelineInvariant, Ends
  <1>3. CASE Correct(w)
    <2>1. PICK at \in TrailTimes(w) : CorrectedWell(w, at)
      BY <1>3, CorrectEffect
    <2> QED
      BY <1>1, <1>2, <1>3, <2>1, EndBeliefDoes DEF CorrectedWell, Correct
  <1>4. CASE Supersede(w)
    <2>1. PICK at \in TrailTimes(w) : SupersededWell(w, at)
      BY <1>4, SupersedeEffect
    <2> QED
      BY <1>1, <1>2, <1>4, <2>1, BoundedDoes DEF SupersededWell, Supersede
  <1>5. CASE Retract(w)
    <2>1. PICK at \in TrailTimes(w) : RetractedWell(w, at)
      BY <1>5, RetractEffect
    <2> QED
      BY <1>1, <1>2, <1>5, <2>1, EndBeliefDoes DEF RetractedWell, Retract
  <1> QED
    BY <1>3, <1>4, <1>5

\* Neither a belief that has ended nor the date at which the system stopped
\* believing a fact is ever rewritten, and a belief ends only by a write, no
\* earlier than its writer read the clock.
THEOREM PastStands == Spec => PastIsKept
  <1>1. ASSUME TimelineInvariant, [Next]_vars
        PROVE  RetractionsStand
    BY <1>1, QuietSteps, WritersLeave DEF RetractionsStand
  <1>2. TimelineInvariant /\ [Next]_vars => [TrailGrows /\ RetractionsStand]_vars
    BY <1>1, TrailOnlyGrows
  <1> QED
    BY <1>2, InvariantOfTimeline, PTL DEF Spec, PastIsKept

\* Belief in a fact ends only by a correction or a retraction of it, and its
\* validity changes only by a supersession of it.
THEOREM AxesAreSeparate == Spec => AxesSeparate
  <1>1. TimelineInvariant /\ [Next]_vars
        => [\A id \in DOMAIN facts :
              /\ facts'[id].retracted # facts[id].retracted =>
                    \E w \in Writers : /\ Ends(w) /\ job[w].id = id
                                       /\ job[w].op \in {"correct", "retract"}
              /\ <<facts'[id].from, facts'[id].to>> # <<facts[id].from, facts[id].to>> =>
                    \E w \in Writers : /\ Ends(w) /\ job[w].id = id
                                       /\ job[w].op = "supersede"]_vars
    BY QuietSteps, WritersLeave
  <1> QED
    BY <1>1, InvariantOfTimeline, PTL DEF Spec, AxesSeparate
=============================================================================
