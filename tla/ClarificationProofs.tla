------------------------- MODULE ClarificationProofs -------------------------
(***************************************************************************)
(* Theorems about EntityResolution, whose safety rests on merges that      *)
(* follow one another, and about ClarificationWorkflow, for any number of  *)
(* handlers, questions and commits.                                        *)
(***************************************************************************)
EXTENDS ClarificationWorkflow, TLAPS, SequenceTheorems

\* A clarification is a use of entity resolution: with its questions, answers,
\* checkpoints, restarts and cuts left out, what happens to entities is what
\* EntityResolution allows.
LEMMA EntitiesBeside == ClarificationSpec => Spec
  <1>1. ClarificationInit => Init
    BY DEF ClarificationInit
  <1>2. [ClarificationNext]_clarificationVars => [Next]_vars
    <2>1. ASSUME UNCHANGED clarificationVars PROVE UNCHANGED vars
      BY <2>1 DEF clarificationVars
    <2>2. ASSUME Elsewhere PROVE Next
      BY <2>2 DEF Elsewhere, Next
    <2>3. ASSUME NEW h \in Mergers, NEW t \in Threads, Ask(h, t) \/ Resume(h, t)
          PROVE  UNCHANGED vars
      BY <2>3 DEF Ask, Resume
    <2>4. ASSUME NEW h \in Mergers,
                 TakeAnswer(h) \/ Abandon(h) \/ Match(h) \/ NothingToMerge(h)
                 \/ SaveInBackground(h) \/ Return(h)
          PROVE  UNCHANGED vars
      BY <2>4 DEF TakeAnswer, Abandon, Match, NothingToMerge, SaveInBackground, Return
    <2>5. ASSUME NEW h \in Mergers, BeginMerge(h) PROVE Next
      BY <2>5 DEF BeginMerge, ReadRows, Next
    <2>6. ASSUME NEW h \in Mergers, MergeAliases(h) \/ EndMerge(h) PROVE Next
      BY <2>6 DEF MergeAliases, EndMerge, Next
    <2>7. ASSUME NEW h \in Mergers, ApplyFails(h) \/ Cut(h)
          PROVE  Next \/ UNCHANGED vars
      BY <2>7 DEF ApplyFails, Cut, DropsMerge, Next
    <2> QED
      BY <2>1, <2>2, <2>3, <2>4, <2>5, <2>6, <2>7 DEF ClarificationNext
  <1> QED
    BY <1>1, <1>2, PTL DEF ClarificationSpec, Spec

-----------------------------------------------------------------------------
\* The inductive invariant of entity resolution

\* The one user does not start a merge while another is under way.
OneMerger == \A m, n \in Mergers : m = n

\* Rows are there once their commit has landed, and so has whatever a commit
\* found landed when it began.
RowsLanded ==
    /\ \A i \in known : i[1] # Nobody => job[i[1]] = Ended("landed")
    /\ \A c \in Commits : \A d \in before[c] : job[d] = Ended("landed")

\* A row that a commit is about to create without a doubt has the name of none
\* that had landed when the commit began.
FreshNames ==
    \A c \in Commits : job[c].pc = "resolving" =>
        \A own \in Range(job[c].picked) \ job[c].flagged :
            own[1] = c /\ NameOf(own) \in Foldable =>
                \A i \in known : i[1] \in before[c] => NameOf(i) # NameOf(own)

\* Both rows of a merge stay live until it ends.  What the absorbed row answers
\* to is carried to the other, or answered by a third as well.
MergeKeeps(m) ==
    LET keep == merge[m].keep
        absorb == merge[m].absorb
        names == merge[m].names
    IN  /\ {keep, absorb} \subseteq Live
        /\ merge[m].pc = "carried" => names \subseteq aliases[keep]
        /\ \A i \in known : NameOf(i) \in Foldable =>
              \/ NameOf(i) \in names \union {NameOf(keep)}
              \/ Answers(NameOf(i)) \ {absorb} # {}

EntitiesFit ==
    /\ EntityInvariant /\ NamesKept /\ OnlyRacesDuplicate
    /\ RowsLanded /\ FreshNames
    /\ \A m \in Mergers : merge[m] # Idle => MergeKeeps(m)

-----------------------------------------------------------------------------
\* The types of entity resolution

\* A commit that has ended, or not begun, is not resolving.
LEMMA JobWords ==
    /\ Unused.pc = "unused" /\ \A how : Ended(how).pc = how
    /\ Idle.pc = "idle" /\ Idle \notin Merges
    /\ \A r \in Merges : r.pc \in {"read", "carried"}
  BY DEF Unused, Ended, Idle, Merges

\* What a commit resolves a mention to: a row there is, or one of its own, that
\* it flags unless no live row answers to the name it will carry.
Resolved(c, mention, id, flagged, adopted) ==
    \/ id \in known /\ flagged = {} /\ adopted \subseteq {id}
    \/ /\ id = <<c, mention.name>> /\ adopted = {}
       /\ \/ flagged = {id}
          \/ flagged = {} /\ Answers(NameOf(id)) = {}

LEMMA ResolveDoes ==
    ASSUME EntityTypeOK, NEW c \in Commits, Resolve(c)
    PROVE  /\ job[c].pc = "resolving"
           /\ \E mention \in Range(job[c].said) : \E id, flagged, adopted :
                 /\ mention \in Mentions /\ ~Seen(c, mention)
                 /\ Decide(c, mention, id, flagged, adopted)
                 /\ Resolved(c, mention, id, flagged, adopted)
  <1>1. job[c].pc = "resolving"
    BY DEF Resolve
  <1>. PICK n \in DOMAIN job[c].said :
          LET mention == job[c].said[n] IN
          /\ ~Seen(c, mention)
          /\ IF mention.name \in SelfNames THEN ResolveSelf(c, mention)
                                           ELSE ResolveName(c, mention)
    BY DEF Resolve
  <1>. PICK mention : mention = job[c].said[n]
    OBVIOUS
  <1>2. mention \in Range(job[c].said)
    BY DEF Range
  <1>3. mention \in Mentions
    <2>1. job[c].said \in Seq(Mentions)
      BY <1>1, JobWords, EntityAssumption DEF EntityTypeOK, JobTypeOK, Decided
    <2> QED
      BY <2>1, ElementOfSeq, LenProperties
  <1>4. mention.name \in Names /\ TheUser \in SelfNames /\ c # Nobody
    BY <1>3, EntityAssumption DEF Mentions
  <1>5. \A name : Answers(name) \subseteq known
    BY DEF Answers, Live
  <1> DEFINE own == <<c, mention.name>>
  <1>6. ASSUME mention.name \notin SelfNames, ResolveName(c, mention)
        PROVE  \E id, flagged, adopted : /\ Decide(c, mention, id, flagged, adopted)
                                         /\ Resolved(c, mention, id, flagged, adopted)
    <2>1. NameOf(own) = mention.name
      BY <1>4, <1>6 DEF NameOf
    <2>2. ASSUME NEW i \in Answers(mention.name), Decide(c, mention, i, {}, {})
          PROVE  \E id, flagged, adopted : /\ Decide(c, mention, id, flagged, adopted)
                                           /\ Resolved(c, mention, id, flagged, adopted)
      BY <1>5, <2>2 DEF Resolved
    <2>3. ASSUME Decide(c, mention, own, {own}, {})
          PROVE  \E id, flagged, adopted : /\ Decide(c, mention, id, flagged, adopted)
                                           /\ Resolved(c, mention, id, flagged, adopted)
      BY <2>3 DEF Resolved
    <2>4. ASSUME Answers(mention.name) = {}, Decide(c, mention, own, {}, {})
          PROVE  \E id, flagged, adopted : /\ Decide(c, mention, id, flagged, adopted)
                                           /\ Resolved(c, mention, id, flagged, adopted)
      BY <2>1, <2>4 DEF Resolved
    <2> QED
      BY <1>6, <2>2, <2>3, <2>4 DEF ResolveName
  <1>7. ASSUME mention.name \in SelfNames, ResolveSelf(c, mention)
        PROVE  \E id, flagged, adopted : /\ Decide(c, mention, id, flagged, adopted)
                                         /\ Resolved(c, mention, id, flagged, adopted)
    <2> DEFINE adoptable == UNION {Answers(alias) : alias \in SelfNames}
    <2>1. NameOf(own) = TheUser
      BY <1>4, <1>7 DEF NameOf
    <2>2. Answers(TheUser) \subseteq adoptable /\ adoptable \subseteq known
      BY <1>4, <1>5
    <2>3. ASSUME NEW i \in known, Decide(c, mention, i, {}, {}) \/ Decide(c, mention, i, {}, {i})
          PROVE  \E id, flagged, adopted : /\ Decide(c, mention, id, flagged, adopted)
                                           /\ Resolved(c, mention, id, flagged, adopted)
      BY <2>3 DEF Resolved
    <2>4. ASSUME adoptable = {}, Decide(c, mention, own, {}, {})
          PROVE  \E id, flagged, adopted : /\ Decide(c, mention, id, flagged, adopted)
                                           /\ Resolved(c, mention, id, flagged, adopted)
      <3>1. Answers(NameOf(own)) = {}
        BY <2>1, <2>2, <2>4
      <3> QED
        BY <2>4, <3>1 DEF Resolved
    <2>5. \/ \E i \in known : Decide(c, mention, i, {}, {}) \/ Decide(c, mention, i, {}, {i})
          \/ adoptable = {} /\ Decide(c, mention, own, {}, {})
      BY <1>5, <1>7, <2>2 DEF ResolveSelf
    <2> QED
      BY <2>3, <2>4, <2>5
  <1> QED
    BY <1>1, <1>2, <1>3, <1>6, <1>7

\* The commit's decisions with one more.
Decides(c, mention, id, flagged, adopted) ==
    LET old == job[c]
        new == job'[c]
    IN  /\ DOMAIN job' = Commits
        /\ \A d \in Commits \ {c} : job'[d] = job[d]
        /\ DOMAIN new = {"pc", "said", "picked", "flagged", "adopted"}
        /\ new.pc = "resolving" /\ new.said = old.said
        /\ DOMAIN new.picked = DOMAIN old.picked \union {mention}
        /\ new.picked[mention] = id
        /\ \A m \in DOMAIN old.picked : new.picked[m] = old.picked[m]
        /\ Range(new.picked) = Range(old.picked) \union {id}
        /\ new.flagged = old.flagged \union flagged
        /\ new.adopted = old.adopted \union adopted

LEMMA DecideDoes ==
    ASSUME EntityTypeOK, NEW c \in Commits, job[c].pc = "resolving",
           NEW mention, NEW id, NEW flagged, NEW adopted,
           ~Seen(c, mention), Decide(c, mention, id, flagged, adopted)
    PROVE  Decides(c, mention, id, flagged, adopted)
  <1>1. /\ DOMAIN job = Commits
        /\ DOMAIN job[c] = {"pc", "said", "picked", "flagged", "adopted"}
    BY JobWords DEF EntityTypeOK, JobTypeOK
  <1>2. mention \notin DOMAIN job[c].picked
    BY DEF Seen
  <1> DEFINE old == job[c]
             picked == [m \in DOMAIN old.picked \union {mention} |->
                           IF m = mention THEN id ELSE old.picked[m]]
  <1>3. job' = [job EXCEPT ![c] = [old EXCEPT !.picked = picked,
                                   !.flagged = @ \union flagged,
                                   !.adopted = @ \union adopted]]
    BY DEF Decide
  <1>4. job'[c] = [old EXCEPT !.picked = picked,
                              !.flagged = old.flagged \union flagged,
                              !.adopted = old.adopted \union adopted]
    BY <1>1, <1>3
  <1>5. /\ DOMAIN picked = DOMAIN old.picked \union {mention}
        /\ picked[mention] = id
        /\ \A m \in DOMAIN old.picked : picked[m] = old.picked[m]
    BY <1>2
  <1> HIDE DEF picked
  <1>6. Range(picked) = Range(old.picked) \union {id}
    BY <1>5 DEF Range
  <1>7. /\ DOMAIN job'[c] = {"pc", "said", "picked", "flagged", "adopted"}
        /\ job'[c].pc = "resolving" /\ job'[c].said = old.said
        /\ job'[c].picked = picked /\ job'[c].flagged = old.flagged \union flagged
        /\ job'[c].adopted = old.adopted \union adopted
    BY <1>1, <1>4
  <1>8. DOMAIN job' = Commits /\ \A d \in Commits \ {c} : job'[d] = job[d]
    BY <1>1, <1>3
  <1> QED
    BY <1>5, <1>6, <1>7, <1>8 DEF Decides

\* What a commit has decided stays well typed when rows are added.
LEMMA JobsStay ==
    ASSUME NEW c \in Commits, JobTypeOK(c), job'[c] = job[c], known \subseteq known'
    PROVE  JobTypeOK(c)'
  BY DEF JobTypeOK, Decided

LEMMA EntityTypesInit == Init => EntityTypeOK
  <1> SUFFICES ASSUME Init PROVE EntityTypeOK
    OBVIOUS
  <1>1. known \subseteq Ids /\ unsure \subseteq known
    BY EntityAssumption DEF Init, Ids
  <1>2. /\ into \in [Ids -> known \union {Nobody}]
        /\ \A i \in Ids : into[i] # i /\ (into[i] # Nobody => i \in known)
    BY EntityAssumption DEF Init, Ids
  <1>3. /\ aliases \in [Ids -> SUBSET Names]
        /\ ties \subseteq known \X known /\ \A tie \in ties : tie[1] # tie[2]
        /\ subjects \subseteq [memory : Commits, mention : Mentions,
                               entity : known \union {Nobody}]
        /\ asked \in 0..MaxMerges /\ before \in [Commits -> SUBSET Commits]
    BY EntityAssumption DEF Init
  <1>4. DOMAIN job = Commits /\ \A c \in Commits : JobTypeOK(c)
    BY DEF Init, JobTypeOK
  <1>5. /\ merge \in [Mergers -> Merges \union {Idle}]
        /\ \A m \in Mergers : merge[m] # Idle =>
              /\ {merge[m].keep, merge[m].absorb} \subseteq known
              /\ merge[m].keep # merge[m].absorb
    BY DEF Init
  <1> QED
    BY <1>1, <1>2, <1>3, <1>4, <1>5 DEF EntityTypeOK

LEMMA BeginTypes ==
    ASSUME EntityTypeOK, NEW c \in Commits, BeginCommit(c)
    PROVE  EntityTypeOK'
  <1>1. PICK said \in Utterances :
           job' = [job EXCEPT ![c] = [pc |-> "resolving", said |-> said,
                                      picked |-> <<>>, flagged |-> {}, adopted |-> {}]]
    BY DEF BeginCommit
  <1>2. /\ UNCHANGED <<known, unsure, into, aliases, subjects, ties, merge, asked>>
        /\ before' = [before EXCEPT ![c] = {d \in Commits : job[d].pc = "landed"}]
    BY DEF BeginCommit, entityVars, linkVars, mergeVars
  <1>3. DOMAIN job = Commits /\ \A d \in Commits : JobTypeOK(d)
    BY DEF EntityTypeOK
  <1>4. DOMAIN <<>> = {} /\ Range(<<>>) = {}
    BY DEF Range
  <1>5. JobTypeOK(c)'
    BY <1>1, <1>3, <1>4 DEF JobTypeOK, Decided
  <1>6. \A d \in Commits \ {c} : JobTypeOK(d)'
    BY <1>1, <1>2, <1>3, JobsStay
  <1> QED
    BY <1>1, <1>2, <1>3, <1>5, <1>6 DEF EntityTypeOK

LEMMA ResolveTypes ==
    ASSUME EntityTypeOK, NEW c \in Commits, Resolve(c)
    PROVE  EntityTypeOK'
  <1>1. UNCHANGED <<known, unsure, into, aliases, subjects, ties, merge, asked, before>>
    BY DEF Resolve, entityVars, linkVars, mergeVars
  <1>2. PICK mention, id, flagged, adopted :
           /\ mention \in Range(job[c].said)
           /\ Decides(c, mention, id, flagged, adopted)
           /\ Resolved(c, mention, id, flagged, adopted)
    BY ResolveDoes, DecideDoes
  <1>3. job[c].pc = "resolving"
    BY DEF Resolve
  <1>4. Decided(c, job[c].said, job[c].picked, job[c].flagged, job[c].adopted)
    BY <1>3, JobWords DEF EntityTypeOK, JobTypeOK
  <1>5. id \in known \union {<<c, mention.name>>}
    BY <1>2 DEF Resolved
  <1>6. adopted \subseteq known /\ flagged \subseteq {i \in {id} : i[1] = c}
    BY <1>2 DEF Resolved
  <1>7. Decided(c, job'[c].said, job'[c].picked, job'[c].flagged, job'[c].adopted)
    <2>1. \A m \in DOMAIN job'[c].picked :
             job'[c].picked[m] \in known \union {<<c, m.name>>}
      BY <1>2, <1>4, <1>5 DEF Decides, Decided
    <2>2. job'[c].flagged \subseteq {i \in Range(job'[c].picked) : i[1] = c}
      BY <1>2, <1>4, <1>6 DEF Decides, Decided
    <2>3. job'[c].adopted \subseteq known
      BY <1>2, <1>4, <1>6 DEF Decides, Decided
    <2>4. job'[c].said \in Utterances /\ DOMAIN job'[c].picked \subseteq Range(job'[c].said)
      BY <1>2, <1>4 DEF Decides, Decided
    <2> QED
      BY <2>1, <2>2, <2>3, <2>4 DEF Decided
  <1>8. JobTypeOK(c)'
    BY <1>1, <1>2, <1>7 DEF JobTypeOK, Decides, Decided
  <1>9. \A d \in Commits \ {c} : JobTypeOK(d)'
    BY <1>1, <1>2, JobsStay DEF EntityTypeOK, Decides
  <1>10. DOMAIN job' = Commits
    BY <1>2 DEF Decides
  <1> QED
    BY <1>1, <1>8, <1>9, <1>10 DEF EntityTypeOK

\* The rows that a commit creates.
Own(c) == {i \in Range(job[c].picked) : i[1] = c}

LEMMA OwnRows ==
    ASSUME EntityTypeOK, NEW c \in Commits, job[c].pc = "resolving"
    PROVE  /\ Own(c) \subseteq Ids /\ Range(job[c].picked) \subseteq known \union Own(c)
           /\ job[c].flagged \subseteq Own(c) /\ job[c].adopted \subseteq known
           /\ \A m \in Range(job[c].said) : m \in Mentions
           /\ DOMAIN job[c].picked \subseteq Mentions
  <1>1. Decided(c, job[c].said, job[c].picked, job[c].flagged, job[c].adopted)
    BY JobWords DEF EntityTypeOK, JobTypeOK
  <1>2. \A m \in Range(job[c].said) : m \in Mentions
    <2>1. job[c].said \in Seq(Mentions)
      BY <1>1, EntityAssumption DEF Decided
    <2> QED
      BY <2>1, ElementOfSeq, LenProperties DEF Range
  <1>3. \A i \in Range(job[c].picked) :
           i \in known \/ (i[1] = c /\ i \in Ids)
    BY <1>1, <1>2 DEF Decided, Ids, Range, Mentions
  <1> QED
    BY <1>1, <1>2, <1>3 DEF Decided, Own, EntityTypeOK

LEMMA LandTypes ==
    ASSUME EntityTypeOK, NEW c \in Commits, LandCommit(c)
    PROVE  EntityTypeOK'
  <1> DEFINE picked == job[c].picked
  <1>1. /\ job[c].pc = "resolving"
        /\ known' = known \union Own(c) /\ unsure' = unsure \union job[c].flagged
        /\ aliases' = [i \in Ids |->
              IF i \in job[c].adopted \/ (i \in Own(c) /\ i[2] \in SelfNames)
              THEN aliases[i] \union SelfNames ELSE aliases[i]]
        /\ subjects' = subjects \union
              {[memory |-> c, mention |-> m,
                entity |-> IF m \in DOMAIN picked THEN picked[m] ELSE Nobody] :
                  m \in Range(job[c].said)}
        /\ \/ UNCHANGED ties
           \/ \E a, b \in Range(picked) : a # b /\ ties' = ties \union {<<a, b>>}
        /\ job' = [job EXCEPT ![c] = Ended("landed")]
        /\ UNCHANGED <<into, merge, asked, before>>
    BY DEF LandCommit, Own, Relatable, mergeVars
  <1>2. /\ Own(c) \subseteq Ids /\ Range(picked) \subseteq known \union Own(c)
        /\ job[c].flagged \subseteq Own(c)
        /\ \A m \in Range(job[c].said) : m \in Mentions
    BY <1>1, OwnRows
  <1>3. known' \subseteq Ids /\ unsure' \subseteq known' /\ known \subseteq known'
    BY <1>1, <1>2 DEF EntityTypeOK
  <1>4. aliases' \in [Ids -> SUBSET Names]
    BY <1>1, EntityAssumption DEF EntityTypeOK
  <1>5. subjects' \subseteq [memory : Commits, mention : Mentions,
                             entity : known' \union {Nobody}]
    <2>1. subjects \subseteq [memory : Commits, mention : Mentions,
                              entity : known' \union {Nobody}]
      BY <1>3 DEF EntityTypeOK
    <2>2. \A m \in DOMAIN picked : picked[m] \in known'
      BY <1>1, <1>2 DEF Range
    <2> QED
      BY <1>1, <1>2, <2>1, <2>2
  <1>6. ties' \subseteq known' \X known' /\ \A tie \in ties' : tie[1] # tie[2]
    <2>1. CASE UNCHANGED ties
      BY <1>3, <2>1 DEF EntityTypeOK
    <2>2. ASSUME NEW a \in Range(picked), NEW b \in Range(picked), a # b,
                 ties' = ties \union {<<a, b>>}
          PROVE  ties' \subseteq known' \X known' /\ \A tie \in ties' : tie[1] # tie[2]
      BY <1>1, <1>2, <1>3, <2>2 DEF EntityTypeOK
    <2> QED
      BY <1>1, <2>1, <2>2
  <1>7. DOMAIN job' = Commits /\ \A d \in Commits : JobTypeOK(d)'
    <2>1. DOMAIN job = Commits /\ \A d \in Commits : JobTypeOK(d)
      BY DEF EntityTypeOK
    <2>2. JobTypeOK(c)'
      BY <1>1, <2>1 DEF JobTypeOK
    <2>3. \A d \in Commits \ {c} : JobTypeOK(d)'
      BY <1>1, <1>3, <2>1, JobsStay
    <2> QED
      BY <1>1, <2>1, <2>2, <2>3
  <1>8. /\ into' \in [Ids -> known' \union {Nobody}]
        /\ \A i \in Ids : into'[i] # i /\ (into'[i] # Nobody => i \in known')
    BY <1>1, <1>3 DEF EntityTypeOK
  <1>9. \A m \in Mergers : merge'[m] # Idle =>
           /\ {merge'[m].keep, merge'[m].absorb} \subseteq known'
           /\ merge'[m].keep # merge'[m].absorb
    BY <1>1, <1>3 DEF EntityTypeOK
  <1> QED
    BY <1>1, <1>3, <1>4, <1>5, <1>6, <1>7, <1>8, <1>9 DEF EntityTypeOK

LEMMA LoseTypes ==
    ASSUME EntityTypeOK, NEW c \in Commits, LoseCommit(c)
    PROVE  EntityTypeOK'
  <1>1. /\ UNCHANGED <<known, unsure, into, aliases, subjects, ties, merge, asked, before>>
        /\ job' = [job EXCEPT ![c] = Ended("lost")]
    BY DEF LoseCommit, entityVars, linkVars, mergeVars
  <1>2. DOMAIN job = Commits /\ \A d \in Commits : JobTypeOK(d)
    BY DEF EntityTypeOK
  <1>3. JobTypeOK(c)'
    BY <1>1, <1>2 DEF JobTypeOK
  <1>4. \A d \in Commits \ {c} : JobTypeOK(d)'
    BY <1>1, <1>2, JobsStay
  <1> QED
    BY <1>1, <1>2, <1>3, <1>4 DEF EntityTypeOK

LEMMA ReadTypes ==
    ASSUME EntityTypeOK, NEW m \in Mergers, ReadBoth(m)
    PROVE  EntityTypeOK'
  <1>1. PICK keep \in Live, absorb \in Live :
           /\ keep # absorb
           /\ merge' = [merge EXCEPT ![m] =
                 [pc |-> "read", keep |-> keep, absorb |-> absorb,
                  names |-> Carried(keep, absorb)]]
    BY DEF ReadBoth, Gettable
  <1>2. /\ UNCHANGED <<known, unsure, into, aliases, subjects, ties, job, before>>
        /\ asked' = asked + 1 /\ asked < MaxMerges
    BY DEF ReadBoth, entityVars, linkVars
  <1>3. keep \in known /\ absorb \in known /\ keep \in Ids /\ absorb \in Ids
    BY DEF Live, EntityTypeOK
  <1>4. Carried(keep, absorb) \subseteq Names
    <2>1. NameOf(absorb) \in Names
      BY <1>3, EntityAssumption DEF NameOf, Ids
    <2> QED
      BY <1>3, <2>1 DEF Carried, EntityTypeOK
  <1> DEFINE new == [pc |-> "read", keep |-> keep, absorb |-> absorb,
                     names |-> Carried(keep, absorb)]
  <1>5. new \in Merges /\ new.keep = keep /\ new.absorb = absorb
    BY <1>3, <1>4 DEF Merges
  <1> HIDE DEF new
  <1>6. /\ merge' \in [Mergers -> Merges \union {Idle}]
        /\ merge'[m] = new /\ \A n \in Mergers \ {m} : merge'[n] = merge[n]
    BY <1>1, <1>5 DEF EntityTypeOK, new
  <1>7. asked' \in 0..MaxMerges
    BY <1>2, EntityAssumption DEF EntityTypeOK
  <1>8. \A c \in Commits : JobTypeOK(c)'
    BY <1>2, JobsStay DEF EntityTypeOK
  <1>9. \A n \in Mergers : merge'[n] # Idle =>
           /\ {merge'[n].keep, merge'[n].absorb} \subseteq known
           /\ merge'[n].keep # merge'[n].absorb
    BY <1>1, <1>3, <1>5, <1>6 DEF EntityTypeOK
  <1> QED
    BY <1>2, <1>6, <1>7, <1>8, <1>9 DEF EntityTypeOK

\* A merge that goes on or ends.
LEMMA MergeStepTypes ==
    ASSUME EntityTypeOK, NEW m \in Mergers, merge[m] # Idle,
           NEW to \in {Idle, [merge[m] EXCEPT !.pc = "carried"]},
           merge' = [merge EXCEPT ![m] = to],
           UNCHANGED <<known, unsure, job, asked, before>>
    PROVE  /\ merge' \in [Mergers -> Merges \union {Idle}]
           /\ \A n \in Mergers : merge'[n] # Idle =>
                 /\ {merge'[n].keep, merge'[n].absorb} \subseteq known'
                 /\ merge'[n].keep # merge'[n].absorb
           /\ known' \subseteq Ids /\ unsure' \subseteq known'
           /\ DOMAIN job' = Commits /\ \A c \in Commits : JobTypeOK(c)'
           /\ asked' \in 0..MaxMerges /\ before' \in [Commits -> SUBSET Commits]
  <1>1. merge[m] \in Merges
    BY DEF EntityTypeOK
  <1>2. to = Idle \/ (to \in Merges /\ to.keep = merge[m].keep /\ to.absorb = merge[m].absorb)
    BY <1>1 DEF Merges
  <1>3. merge'[m] = to /\ \A n \in Mergers \ {m} : merge'[n] = merge[n]
    BY DEF EntityTypeOK
  <1>4. merge' \in [Mergers -> Merges \union {Idle}]
    BY <1>2 DEF EntityTypeOK
  <1>5. \A n \in Mergers : merge'[n] # Idle =>
           /\ {merge'[n].keep, merge'[n].absorb} \subseteq known'
           /\ merge'[n].keep # merge'[n].absorb
    BY <1>2, <1>3 DEF EntityTypeOK
  <1>6. \A c \in Commits : JobTypeOK(c)'
    BY JobsStay DEF EntityTypeOK
  <1> QED
    BY <1>4, <1>5, <1>6 DEF EntityTypeOK

LEMMA CarryTypes ==
    ASSUME EntityTypeOK, NEW m \in Mergers, CarryAliases(m)
    PROVE  EntityTypeOK'
  <1>1. /\ merge[m].pc = "read"
        /\ aliases' = [aliases EXCEPT ![merge[m].keep] = @ \union merge[m].names]
        /\ merge' = [merge EXCEPT ![m].pc = "carried"]
        /\ UNCHANGED <<known, unsure, into, subjects, ties, job, asked, before>>
    BY DEF CarryAliases, linkVars
  <1>2. merge[m] # Idle /\ merge[m] \in Merges
    BY <1>1, JobWords DEF EntityTypeOK
  <1>3. merge' = [merge EXCEPT ![m] = [merge[m] EXCEPT !.pc = "carried"]]
    BY <1>1
  <1>4. aliases' \in [Ids -> SUBSET Names]
    BY <1>1, <1>2 DEF EntityTypeOK, Merges
  <1> QED
    BY <1>1, <1>2, <1>3, <1>4, MergeStepTypes DEF EntityTypeOK

LEMMA EndTypes ==
    ASSUME EntityTypeOK, NEW m \in Mergers, RefuseAbsorb(m) \/ AbandonMerge(m)
    PROVE  EntityTypeOK'
  <1>1. /\ merge' = [merge EXCEPT ![m] = Idle]
        /\ UNCHANGED <<known, unsure, into, aliases, subjects, ties, job, asked, before>>
        /\ merge[m].pc \in {"read", "carried"}
    BY DEF RefuseAbsorb, AbandonMerge, entityVars, linkVars
  <1>2. merge[m] # Idle
    BY <1>1, JobWords
  <1> QED
    BY <1>1, <1>2, MergeStepTypes DEF EntityTypeOK

LEMMA AbsorbTypes ==
    ASSUME EntityTypeOK, NEW m \in Mergers, Absorb(m)
    PROVE  EntityTypeOK'
  <1> PICK keep, absorb : keep = merge[m].keep /\ absorb = merge[m].absorb
    OBVIOUS
  <1> DEFINE Repointed(i) == IF i = absorb THEN keep ELSE i
  <1>1. /\ merge[m].pc = "carried" /\ ~Related(keep, absorb)
        /\ into' = [into EXCEPT ![absorb] = keep]
        /\ subjects' = MovedLinks(keep, absorb)
        /\ ties' = {<<Repointed(tie[1]), Repointed(tie[2])>> : tie \in ties}
        /\ merge' = [merge EXCEPT ![m] = Idle]
        /\ UNCHANGED <<known, unsure, aliases, job, asked, before>>
    BY DEF Absorb
  <1>2. merge[m] # Idle /\ keep \in known /\ absorb \in known /\ keep # absorb
    BY <1>1, JobWords DEF EntityTypeOK
  <1>3. /\ into' \in [Ids -> known' \union {Nobody}]
        /\ \A i \in Ids : into'[i] # i /\ (into'[i] # Nobody => i \in known')
    BY <1>1, <1>2 DEF EntityTypeOK
  <1>4. \A s \in subjects : [s EXCEPT !.entity = keep]
                               \in [memory : Commits, mention : Mentions,
                                    entity : known \union {Nobody}]
    BY <1>2 DEF EntityTypeOK
  <1>5. subjects' \subseteq [memory : Commits, mention : Mentions,
                             entity : known' \union {Nobody}]
    BY <1>1, <1>4 DEF MovedLinks, EntityTypeOK
  <1>6. ties' \subseteq known' \X known' /\ \A tie \in ties' : tie[1] # tie[2]
    <2>1. ASSUME NEW tie \in ties
          PROVE  /\ Repointed(tie[1]) \in known /\ Repointed(tie[2]) \in known
                 /\ Repointed(tie[1]) # Repointed(tie[2])
      <3>1. /\ tie[1] \in known /\ tie[2] \in known /\ tie[1] # tie[2]
            /\ tie = <<tie[1], tie[2]>>
        BY DEF EntityTypeOK
      <3>2. /\ ~(tie[1] = keep /\ tie[2] = absorb)
            /\ ~(tie[1] = absorb /\ tie[2] = keep)
        BY <1>1, <3>1 DEF Related
      <3> QED
        BY <1>2, <3>1, <3>2
    <2> HIDE DEF Repointed
    <2> QED
      BY <1>1, <2>1
  <1>7. aliases' \in [Ids -> SUBSET Names]
    BY <1>1 DEF EntityTypeOK
  <1> QED
    BY <1>1, <1>2, <1>3, <1>5, <1>6, <1>7, MergeStepTypes DEF EntityTypeOK

LEMMA EntityTypesStay == EntityTypeOK /\ [Next]_vars => EntityTypeOK'
  <1> SUFFICES ASSUME EntityTypeOK, [Next]_vars PROVE EntityTypeOK'
    OBVIOUS
  <1>1. CASE UNCHANGED vars
    <2>1. UNCHANGED <<known, unsure, into, aliases, subjects, ties, job, merge,
                      asked, before>>
      BY <1>1 DEF vars, entityVars, linkVars, mergeVars
    <2>2. \A c \in Commits : JobTypeOK(c)'
      BY <2>1, JobsStay DEF EntityTypeOK
    <2> QED
      BY <2>1, <2>2 DEF EntityTypeOK
  <1> QED
    BY <1>1, BeginTypes, ResolveTypes, LandTypes, LoseTypes, ReadTypes, CarryTypes,
       AbsorbTypes, EndTypes DEF Next

\* Rows, links, relationships, the decisions of commits and the merges under way
\* keep their types and the constraints of the tables, whoever merges.
THEOREM EntityTypes == Spec => []EntityTypeOK
  BY EntityTypesInit, EntityTypesStay, PTL DEF Spec

-----------------------------------------------------------------------------
\* Names and merges

\* Rows and what they answer to are only added.
RowsGrow ==
    /\ known \subseteq known' /\ unsure \subseteq unsure' /\ into' = into
    /\ \A i \in Ids : aliases[i] \subseteq aliases'[i]

LEMMA AbsorbOrGrow ==
    ASSUME EntityTypeOK, [Next]_vars
    PROVE  RowsGrow \/ \E m \in Mergers : Absorb(m)
  <1>1. CASE UNCHANGED entityVars
    BY <1>1 DEF entityVars, RowsGrow
  <1>2. ASSUME NEW c \in Commits, LandCommit(c) PROVE RowsGrow
    BY <1>2 DEF LandCommit, RowsGrow, EntityTypeOK
  <1>3. ASSUME NEW m \in Mergers, CarryAliases(m) PROVE RowsGrow
    BY <1>3 DEF CarryAliases, RowsGrow, EntityTypeOK
  <1> QED
    BY <1>1, <1>2, <1>3
       DEF Next, vars, BeginCommit, Resolve, LoseCommit, ReadBoth, RefuseAbsorb, AbandonMerge

\* A row that is new is live, and answers to its name when that is foldable.
LEMMA GrowingAnswers ==
    ASSUME EntityTypeOK, EntityTypeOK', RowsGrow
    PROVE  /\ Live \subseteq Live' /\ known' \ known \subseteq Live'
           /\ \A name : Answers(name) \subseteq Answers(name)'
           /\ \A i \in known' \ known :
                 NameOf(i) \in Foldable => i \in Answers(NameOf(i))'
  <1>1. known' \subseteq Ids /\ \A i \in Ids : into[i] # Nobody => i \in known
    BY DEF EntityTypeOK
  <1>2. Live \subseteq Live' /\ known' \ known \subseteq Live'
    BY <1>1 DEF Live, RowsGrow
  <1>3. ASSUME NEW name PROVE Answers(name) \subseteq Answers(name)'
    <2>1. \A i \in Live : aliases[i] \subseteq aliases'[i]
      BY DEF Live, RowsGrow, EntityTypeOK
    <2> QED
      BY <1>2, <2>1 DEF Answers
  <1>4. \A i \in known' \ known :
           NameOf(i) \in Foldable => i \in Answers(NameOf(i))'
    BY <1>2 DEF Answers
  <1> QED
    BY <1>2, <1>3, <1>4

\* An absorbed row is no longer live, and nothing else changes about rows.
LEMMA AbsorbDoes ==
    ASSUME EntityTypeOK, NEW m \in Mergers, Absorb(m)
    PROVE  LET keep == merge[m].keep
               absorb == merge[m].absorb IN
           /\ merge[m] # Idle /\ merge[m].pc = "carried"
           /\ merge' = [merge EXCEPT ![m] = Idle] /\ merge'[m] = Idle
           /\ UNCHANGED <<known, unsure, aliases, job, before>>
           /\ keep \in known /\ absorb \in known /\ keep # absorb
           /\ into'[absorb] = keep
           /\ \A i \in Ids \ {absorb} : into'[i] = into[i]
           /\ Live' = Live \ {absorb}
           /\ \A name : Answers(name)' = Answers(name) \ {absorb}
  <1> PICK keep, absorb : keep = merge[m].keep /\ absorb = merge[m].absorb
    OBVIOUS
  <1>1. /\ merge[m].pc = "carried" /\ into' = [into EXCEPT ![absorb] = keep]
        /\ merge' = [merge EXCEPT ![m] = Idle]
        /\ UNCHANGED <<known, unsure, aliases, job, before>>
    BY DEF Absorb
  <1>2. merge[m] # Idle /\ merge'[m] = Idle
    BY <1>1, JobWords DEF EntityTypeOK
  <1>3. keep \in known /\ absorb \in known /\ keep # absorb /\ keep \in Ids
    BY <1>2 DEF EntityTypeOK
  <1>4. /\ into'[absorb] = keep /\ \A i \in Ids \ {absorb} : into'[i] = into[i]
        /\ keep # Nobody
    BY <1>1, <1>3, EntityAssumption DEF EntityTypeOK, Ids
  <1>5. Live' = Live \ {absorb}
    BY <1>1, <1>3, <1>4 DEF Live, EntityTypeOK
  <1>6. \A name : Answers(name)' = Answers(name) \ {absorb}
    BY <1>1, <1>5 DEF Answers
  <1> QED
    BY <1>1, <1>2, <1>3, <1>4, <1>5, <1>6

LEMMA RowsStayLanded ==
    ASSUME EntityTypeOK, RowsLanded, [Next]_vars
    PROVE  RowsLanded'
  <1>1. DOMAIN job = Commits /\ \A c \in Commits : JobTypeOK(c)
    BY DEF EntityTypeOK
  <1>2. \A i \in known : i[1] # Nobody => i[1] \in Commits
    BY DEF EntityTypeOK, Ids
  <1>3. before \in [Commits -> SUBSET Commits]
    BY DEF EntityTypeOK
  <1>4. CASE UNCHANGED <<known, job, before>>
    BY <1>4 DEF RowsLanded
  <1>5. ASSUME NEW c \in Commits, BeginCommit(c) PROVE RowsLanded'
    <2>1. /\ job[c] = Unused /\ known' = known
          /\ \A d \in Commits \ {c} : job'[d] = job[d] /\ before'[d] = before[d]
          /\ before'[c] = {d \in Commits : job[d].pc = "landed"}
      BY <1>1, <1>3, <1>5 DEF BeginCommit, entityVars
    <2>2. Ended("landed") # Unused
      BY JobWords
    <2>3. \A d \in Commits : job[d].pc = "landed" => job[d] = Ended("landed")
      BY <1>1, JobWords DEF JobTypeOK
    <2>4. \A i \in known : i[1] # Nobody => job'[i[1]] = Ended("landed")
      BY <1>2, <2>1, <2>2 DEF RowsLanded
    <2>5. \A d \in Commits : \A e \in before'[d] : job'[e] = Ended("landed")
      BY <1>3, <2>1, <2>2, <2>3 DEF RowsLanded
    <2> QED
      BY <2>1, <2>4, <2>5 DEF RowsLanded
  <1>6. ASSUME NEW c \in Commits, Resolve(c) \/ LoseCommit(c) PROVE RowsLanded'
    <2>1. /\ job[c].pc = "resolving" /\ known' = known /\ before' = before
      BY <1>6 DEF Resolve, LoseCommit, entityVars
    <2>2. \A d \in Commits \ {c} : job'[d] = job[d]
      <3>1. CASE Resolve(c)
        BY <3>1, ResolveDoes, DecideDoes DEF Decides
      <3>2. CASE LoseCommit(c)
        BY <1>1, <3>2 DEF LoseCommit
      <3> QED
        BY <1>6, <3>1, <3>2
    <2>3. job[c] # Ended("landed")
      BY <2>1, JobWords
    <2> QED
      BY <1>2, <1>3, <2>1, <2>2, <2>3 DEF RowsLanded
  <1>7. ASSUME NEW c \in Commits, LandCommit(c) PROVE RowsLanded'
    <2>1. /\ job[c].pc = "resolving" /\ known' = known \union Own(c) /\ before' = before
          /\ \A d \in Commits \ {c} : job'[d] = job[d]
          /\ job'[c] = Ended("landed")
      BY <1>1, <1>7 DEF LandCommit, Own
    <2>2. \A i \in Own(c) : i[1] = c
      BY DEF Own
    <2> QED
      BY <1>2, <1>3, <2>1, <2>2 DEF RowsLanded
  <1> QED
    BY <1>4, <1>5, <1>6, <1>7
       DEF Next, vars, entityVars, ReadBoth, CarryAliases, Absorb, RefuseAbsorb, AbandonMerge

LEMMA FreshStay ==
    ASSUME EntityTypeOK, RowsLanded, FreshNames, NamesKept, [Next]_vars
    PROVE  FreshNames'
  <1>1. DOMAIN job = Commits /\ \A c \in Commits : JobTypeOK(c)
    BY DEF EntityTypeOK
  <1>2. before \in [Commits -> SUBSET Commits]
    BY DEF EntityTypeOK
  <1>3. CASE UNCHANGED <<known, job, before>>
    BY <1>3 DEF FreshNames, NameOf
  <1>4. ASSUME NEW c \in Commits, BeginCommit(c) PROVE FreshNames'
    <2>1. /\ known' = known /\ job'[c].picked = <<>>
          /\ \A d \in Commits \ {c} : job'[d] = job[d] /\ before'[d] = before[d]
      BY <1>1, <1>2, <1>4 DEF BeginCommit, entityVars
    <2>2. Range(job'[c].picked) = {}
      BY <2>1 DEF Range
    <2> QED
      BY <2>1, <2>2 DEF FreshNames
  <1>5. ASSUME NEW c \in Commits, Resolve(c) PROVE FreshNames'
    <2>1. job[c].pc = "resolving" /\ known' = known /\ before' = before
      BY <1>5 DEF Resolve, entityVars
    <2>. PICK mention, id, flagged, adopted :
           /\ mention \in Range(job[c].said)
           /\ Decides(c, mention, id, flagged, adopted)
           /\ Resolved(c, mention, id, flagged, adopted)
      BY <1>5, ResolveDoes, DecideDoes
    <2>2. /\ \A d \in Commits \ {c} : job'[d] = job[d]
          /\ Range(job'[c].picked) = Range(job[c].picked) \union {id}
          /\ job'[c].flagged = job[c].flagged \union flagged
      BY DEF Decides
    <2>3. ASSUME id \notin flagged, id[1] = c, NameOf(id) \in Foldable
          PROVE  \A i \in known : NameOf(i) # NameOf(id)
      <3>1. id \notin known
        <4>1. job[c] # Ended("landed") /\ c # Nobody
          BY <2>1, JobWords, EntityAssumption
        <4> QED
          BY <2>3, <4>1 DEF RowsLanded
      <3>2. Answers(NameOf(id)) = {}
        BY <2>3, <3>1 DEF Resolved
      <3> QED
        BY <2>3, <3>2 DEF NamesKept
    <2> QED
      BY <2>1, <2>2, <2>3 DEF FreshNames
  <1>6. ASSUME NEW c \in Commits, LoseCommit(c) \/ LandCommit(c) PROVE FreshNames'
    <2>1. /\ job[c].pc = "resolving" /\ before' = before
          /\ \A d \in Commits \ {c} : job'[d] = job[d]
          /\ job'[c].pc # "resolving"
      BY <1>1, <1>6, JobWords DEF LoseCommit, LandCommit
    <2>2. known' = known \/ known' = known \union Own(c)
      BY <1>6 DEF LoseCommit, LandCommit, Own, entityVars
    <2>3. \A d \in Commits : c \notin before[d]
      BY <2>1, JobWords DEF RowsLanded
    <2>4. \A d \in Commits : \A i \in known' : i[1] \in before[d] => i \in known
      BY <2>2, <2>3 DEF Own
    <2> QED
      BY <2>1, <2>4 DEF FreshNames
  <1> QED
    BY <1>3, <1>4, <1>5, <1>6
       DEF Next, vars, entityVars, ReadBoth, CarryAliases, Absorb, RefuseAbsorb, AbandonMerge

LEMMA OnlyRacesStay ==
    ASSUME EntityTypeOK, RowsLanded, FreshNames, OnlyRacesDuplicate, [Next]_vars
    PROVE  OnlyRacesDuplicate'
  <1>1. DOMAIN job = Commits /\ before \in [Commits -> SUBSET Commits]
    BY DEF EntityTypeOK
  <1>2. \A i \in known : i[1] # Nobody => i[1] \in Commits
    BY DEF EntityTypeOK, Ids
  <1>3. CASE UNCHANGED <<known, unsure, before>>
    BY <1>3 DEF OnlyRacesDuplicate, NameOf
  <1>4. ASSUME NEW c \in Commits, BeginCommit(c) PROVE OnlyRacesDuplicate'
    <2>1. /\ job[c] = Unused /\ UNCHANGED <<known, unsure>>
          /\ \A d \in Commits \ {c} : before'[d] = before[d]
      BY <1>1, <1>4 DEF BeginCommit, entityVars
    <2>2. \A i \in known : i[1] # Nobody => i[1] # c
      <3>1. Ended("landed") # Unused
        BY JobWords
      <3> QED
        BY <2>1, <3>1 DEF RowsLanded
    <2> QED
      BY <1>2, <2>1, <2>2 DEF OnlyRacesDuplicate
  <1>5. ASSUME NEW c \in Commits, LandCommit(c) PROVE OnlyRacesDuplicate'
    <2>1. /\ job[c].pc = "resolving" /\ known' = known \union Own(c)
          /\ unsure' = unsure \union job[c].flagged /\ before' = before
      BY <1>5 DEF LandCommit, Own
    <2>2. \A i \in Own(c) : i[1] = c /\ i \in Range(job[c].picked)
      BY DEF Own
    <2>3. \A d \in Commits : c \notin before[d]
      BY <2>1, JobWords DEF RowsLanded
    <2>4. ASSUME NEW i \in Own(c) \ unsure', NEW j \in known,
                 NameOf(i) = NameOf(j), NameOf(i) \in Foldable, j[1] # Nobody
          PROVE  i[1] \notin before[j[1]] /\ j[1] \notin before[i[1]]
      <3>1. i \in Range(job[c].picked) \ job[c].flagged /\ i[1] = c
        BY <2>1, <2>2, <2>4
      <3>2. j[1] \notin before[c]
        BY <2>1, <2>4, <3>1 DEF FreshNames
      <3> QED
        BY <1>2, <2>3, <2>4, <3>1, <3>2
    <2> SUFFICES ASSUME NEW i \in known' \ unsure', NEW j \in known' \ unsure',
                        NameOf(i) = NameOf(j), NameOf(i) \in Foldable,
                        i[1] # j[1], Nobody \notin {i[1], j[1]}
                 PROVE  i[1] \notin before'[j[1]] /\ j[1] \notin before'[i[1]]
      BY DEF OnlyRacesDuplicate, NameOf
    <2>5. CASE i \in known /\ j \in known
      BY <2>1, <2>5 DEF OnlyRacesDuplicate
    <2>6. CASE i \in Own(c)
      BY <2>1, <2>2, <2>4, <2>6
    <2>7. CASE j \in Own(c)
      BY <2>1, <2>2, <2>4, <2>7
    <2> QED
      BY <2>1, <2>5, <2>6, <2>7
  <1> QED
    BY <1>3, <1>4, <1>5
       DEF Next, vars, entityVars, Resolve, LoseCommit, ReadBoth, CarryAliases, Absorb,
           RefuseAbsorb, AbandonMerge

\* A merge that has just read its rows.
LEMMA ReadKeeps ==
    ASSUME EntityTypeOK, NamesKept, NEW m \in Mergers, ReadBoth(m)
    PROVE  MergeKeeps(m)'
  <1>1. PICK keep \in Live, absorb \in Live :
           /\ keep # absorb
           /\ merge' = [merge EXCEPT ![m] =
                 [pc |-> "read", keep |-> keep, absorb |-> absorb,
                  names |-> Carried(keep, absorb)]]
    BY DEF ReadBoth, Gettable
  <1>2. UNCHANGED <<known, into, aliases>>
    BY DEF ReadBoth, entityVars
  <1>3. /\ merge'[m].keep = keep /\ merge'[m].absorb = absorb
        /\ merge'[m].names = Carried(keep, absorb) /\ merge'[m].pc = "read"
    BY <1>1 DEF EntityTypeOK
  <1>4. Live' = Live /\ \A name : Answers(name)' = Answers(name)
    BY <1>2 DEF Live, Answers
  <1>5. ASSUME NEW i \in known, NameOf(i) \in Foldable
        PROVE  \/ NameOf(i) \in Carried(keep, absorb) \union {NameOf(keep)}
               \/ Answers(NameOf(i)) \ {absorb} # {}
    <2>1. CASE absorb \in Answers(NameOf(i))
      BY <2>1 DEF Answers, Carried
    <2>2. CASE absorb \notin Answers(NameOf(i))
      BY <1>5, <2>2 DEF NamesKept
    <2> QED
      BY <2>1, <2>2
  <1> QED
    BY <1>2, <1>3, <1>4, <1>5 DEF MergeKeeps

\* A merge while rows and names are added, by others or by its own aliases.
LEMMA GrowingKeeps ==
    ASSUME EntityTypeOK, EntityTypeOK', RowsGrow, NEW m \in Mergers,
           merge[m] # Idle, MergeKeeps(m),
           merge'[m].keep = merge[m].keep, merge'[m].absorb = merge[m].absorb,
           merge'[m].names = merge[m].names,
           \/ merge'[m].pc = merge[m].pc
           \/ merge[m].names \subseteq aliases'[merge[m].keep]
    PROVE  MergeKeeps(m)'
  <1> PICK keep, absorb, names : /\ keep = merge[m].keep /\ absorb = merge[m].absorb
                                 /\ names = merge[m].names
    OBVIOUS
  <1>1. keep \in known /\ absorb \in known /\ keep \in Ids
    BY DEF EntityTypeOK
  <1>2. {keep, absorb} \subseteq Live'
    BY GrowingAnswers DEF MergeKeeps
  <1>3. merge'[m].pc = "carried" => names \subseteq aliases'[keep]
    BY <1>1 DEF MergeKeeps, RowsGrow
  <1>4. ASSUME NEW i \in known', NameOf(i) \in Foldable
        PROVE  \/ NameOf(i) \in names \union {NameOf(keep)}
               \/ Answers(NameOf(i))' \ {absorb} # {}
    <2>1. CASE i \in known
      BY <1>4, <2>1, GrowingAnswers DEF MergeKeeps
    <2>2. CASE i \notin known
      BY <1>1, <1>4, <2>2, GrowingAnswers
    <2> QED
      BY <2>1, <2>2
  <1> QED
    BY <1>2, <1>3, <1>4 DEF MergeKeeps, NameOf

LEMMA MergesStayKept ==
    ASSUME OneMerger, EntityTypeOK, EntityTypeOK', NamesKept,
           \A m \in Mergers : merge[m] # Idle => MergeKeeps(m),
           [Next]_vars, NEW m \in Mergers, merge'[m] # Idle
    PROVE  MergeKeeps(m)'
  <1>1. ASSUME NEW n \in Mergers PROVE n = m
    BY DEF OneMerger
  <1>2. CASE ReadBoth(m)
    BY <1>2, ReadKeeps
  <1>3. CASE CarryAliases(m)
    <2>1. /\ merge[m].pc = "read" /\ merge' = [merge EXCEPT ![m].pc = "carried"]
          /\ aliases' = [aliases EXCEPT ![merge[m].keep] = @ \union merge[m].names]
          /\ UNCHANGED <<known, unsure, into>>
      BY <1>3 DEF CarryAliases
    <2>2. merge[m] # Idle /\ merge[m] \in Merges
      BY <2>1, JobWords DEF EntityTypeOK
    <2>3. /\ merge'[m].keep = merge[m].keep /\ merge'[m].absorb = merge[m].absorb
          /\ merge'[m].names = merge[m].names
      BY <2>1, <2>2 DEF EntityTypeOK, Merges
    <2>4. RowsGrow /\ merge[m].names \subseteq aliases'[merge[m].keep]
      BY <2>1, <2>2 DEF RowsGrow, EntityTypeOK, Merges
    <2> QED
      BY <2>2, <2>3, <2>4, GrowingKeeps
  <1>4. CASE Absorb(m) \/ RefuseAbsorb(m) \/ AbandonMerge(m)
    <2>1. merge' = [merge EXCEPT ![m] = Idle]
      BY <1>4 DEF Absorb, RefuseAbsorb, AbandonMerge
    <2> QED
      BY <2>1 DEF EntityTypeOK
  <1>5. ASSUME merge' = merge, \A n \in Mergers : ~Absorb(n) PROVE MergeKeeps(m)'
    BY <1>5, AbsorbOrGrow, GrowingKeeps
  <1>6. \/ ReadBoth(m) \/ CarryAliases(m) \/ Absorb(m) \/ RefuseAbsorb(m) \/ AbandonMerge(m)
        \/ UNCHANGED merge
    BY <1>1 DEF Next, vars, mergeVars, BeginCommit, Resolve, LandCommit, LoseCommit
  <1> QED
    BY <1>1, <1>2, <1>3, <1>4, <1>5, <1>6

LEMMA NamesStayKept ==
    ASSUME OneMerger, EntityTypeOK, EntityTypeOK', NamesKept,
           \A m \in Mergers : merge[m] # Idle => MergeKeeps(m), [Next]_vars
    PROVE  NamesKept'
  <1>1. CASE RowsGrow
    <2> SUFFICES ASSUME NEW i \in known', NameOf(i) \in Foldable
                 PROVE  Answers(NameOf(i))' # {}
      BY DEF NamesKept, NameOf
    <2>1. CASE i \in known
      BY <1>1, <2>1, GrowingAnswers DEF NamesKept
    <2>2. CASE i \notin known
      BY <1>1, <2>2, GrowingAnswers
    <2> QED
      BY <2>1, <2>2
  <1>2. ASSUME NEW m \in Mergers, Absorb(m) PROVE NamesKept'
    <2> PICK keep, absorb, names : /\ keep = merge[m].keep /\ absorb = merge[m].absorb
                                   /\ names = merge[m].names
      OBVIOUS
    <2>1. /\ merge[m] # Idle /\ merge[m].pc = "carried" /\ known' = known
          /\ keep # absorb /\ \A name : Answers(name)' = Answers(name) \ {absorb}
      BY <1>2, AbsorbDoes
    <2>2. keep \in Live /\ names \subseteq aliases[keep]
      BY <2>1 DEF MergeKeeps
    <2> SUFFICES ASSUME NEW i \in known, NameOf(i) \in Foldable
                 PROVE  Answers(NameOf(i))' # {}
      BY <2>1 DEF NamesKept, NameOf
    <2>3. CASE NameOf(i) \in names \union {NameOf(keep)}
      <3>1. keep \in Answers(NameOf(i))
        BY <2>2, <2>3 DEF Answers
      <3> QED
        BY <2>1, <3>1
    <2>4. CASE Answers(NameOf(i)) \ {absorb} # {}
      BY <2>1, <2>4
    <2> QED
      BY <2>1, <2>3, <2>4 DEF MergeKeeps
  <1> QED
    BY <1>1, <1>2, AbsorbOrGrow

LEMMA SurvivorsStayLive ==
    ASSUME OneMerger, EntityTypeOK, EntityTypeOK', SurvivorIsLive,
           \A m \in Mergers : merge[m] # Idle => MergeKeeps(m), [Next]_vars
    PROVE  SurvivorIsLive'
  <1>1. known \subseteq Ids /\ \A i \in Ids : into[i] # Nobody => i \in known
    BY DEF EntityTypeOK
  <1>2. CASE RowsGrow
    <2>1. {i \in known' : into'[i] # Nobody} = {i \in known : into[i] # Nobody}
      BY <1>1, <1>2 DEF RowsGrow, EntityTypeOK
    <2> QED
      BY <1>2, <2>1 DEF SurvivorIsLive, RowsGrow
  <1>3. ASSUME NEW m \in Mergers, Absorb(m) PROVE SurvivorIsLive'
    <2> PICK keep, absorb : keep = merge[m].keep /\ absorb = merge[m].absorb
      OBVIOUS
    <2>1. /\ merge[m] # Idle /\ known' = known /\ keep # absorb
          /\ keep \in known /\ absorb \in known
          /\ into'[absorb] = keep /\ \A i \in Ids \ {absorb} : into'[i] = into[i]
      BY <1>3, AbsorbDoes
    <2>2. keep \in Live /\ into'[keep] = Nobody
      BY <1>1, <2>1 DEF MergeKeeps, Live
    <2> SUFFICES ASSUME NEW rows \in SUBSET {i \in known : into'[i] # Nobody},
                        rows # {}
                 PROVE  \E i \in rows : into'[i] \notin rows
      BY <2>1 DEF SurvivorIsLive
    <2>3. CASE absorb \in rows
      BY <2>1, <2>2, <2>3
    <2>4. CASE absorb \notin rows
      <3>1. \A i \in rows : into'[i] = into[i]
        BY <1>1, <2>1, <2>4
      <3> QED
        BY <3>1 DEF SurvivorIsLive
    <2> QED
      BY <2>3, <2>4
  <1> QED
    BY <1>2, <1>3, AbsorbOrGrow

-----------------------------------------------------------------------------
\* What holds of entities when merges follow one another

LEMMA EntitiesFitInit == Init => EntitiesFit
  <1> SUFFICES ASSUME Init PROVE EntitiesFit
    OBVIOUS
  <1>1. EntityTypeOK
    BY EntityTypesInit
  <1>2. /\ \A i \in known : i \in Ids /\ into[i] = Nobody /\ i[1] = Nobody
        /\ \A c \in Commits : before[c] = {} /\ job[c] = Unused
        /\ \A m \in Mergers : merge[m] = Idle
    BY <1>1 DEF Init, EntityTypeOK
  <1>3. SurvivorIsLive /\ OnlyRacesDuplicate /\ RowsLanded /\ FreshNames
    BY <1>2, JobWords DEF SurvivorIsLive, OnlyRacesDuplicate, RowsLanded, FreshNames
  <1>4. NamesKept
    BY <1>2 DEF NamesKept, Answers, Live
  <1> QED
    BY <1>1, <1>2, <1>3, <1>4 DEF EntitiesFit, EntityInvariant

LEMMA EntitiesFitNext == OneMerger /\ EntitiesFit /\ [Next]_vars => EntitiesFit'
  <1> SUFFICES ASSUME OneMerger, EntitiesFit, [Next]_vars PROVE EntitiesFit'
    OBVIOUS
  <1> USE DEF EntitiesFit, EntityInvariant
  <1>1. EntityTypeOK'
    BY EntityTypesStay
  <1>2. SurvivorIsLive' /\ NamesKept'
    BY <1>1, SurvivorsStayLive, NamesStayKept
  <1>3. OnlyRacesDuplicate' /\ RowsLanded' /\ FreshNames'
    BY OnlyRacesStay, RowsStayLanded, FreshStay
  <1>4. \A m \in Mergers : merge'[m] # Idle => MergeKeeps(m)'
    BY <1>1, MergesStayKept
  <1> QED
    BY <1>1, <1>2, <1>3, <1>4

\* While merges follow one another, rows and merges fit together: what an
\* absorbed row answers to is carried over before it stops answering, and a
\* commit creates no undoubted row beside one that had landed when it began.
THEOREM InvariantOfEntities ==
    ASSUME OneMerger
    PROVE  Spec => []EntitiesFit
  <1>1. EntitiesFit /\ [Next]_vars => EntitiesFit'
    BY EntitiesFitNext
  <1> QED
    BY <1>1, EntitiesFitInit, PTL DEF Spec

\* While merges follow one another, following merged_into from an absorbed row
\* ends, and at a row that is live, for any number of rows, commits and merges.
THEOREM SurvivorsAreLive ==
    ASSUME OneMerger
    PROVE  Spec => []EntityInvariant
  <1>1. EntitiesFit => EntityInvariant
    BY DEF EntitiesFit
  <1> QED
    BY <1>1, InvariantOfEntities, PTL

\* While merges follow one another, a name a row was created under is answered
\* by some live row, whichever merges ended, were refused or were cut short.
THEOREM NoNameIsForgotten ==
    ASSUME OneMerger
    PROVE  Spec => []NamesKept
  <1>1. EntitiesFit => NamesKept
    BY DEF EntitiesFit
  <1> QED
    BY <1>1, InvariantOfEntities, PTL

\* While merges follow one another, two rows of one name that nobody was told
\* about come from commits that overlapped.
THEOREM DuplicatesAreRaces ==
    ASSUME OneMerger
    PROVE  Spec => []OnlyRacesDuplicate
  <1>1. EntitiesFit => OnlyRacesDuplicate
    BY DEF EntitiesFit
  <1> QED
    BY <1>1, InvariantOfEntities, PTL

\* While merges follow one another, a mention that is linked to a live row stays
\* linked to a live row, whatever is merged into what.
THEOREM LinksStayLive ==
    ASSUME OneMerger
    PROVE  Spec => LinksFollowMerges
  <1> DEFINE Follow == \A s \in subjects : Linked(<<s.memory, s.mention>>)
                                              => Linked(<<s.memory, s.mention>>)'
  <1>1. ASSUME EntitiesFit, [Next]_vars PROVE [Follow]_vars
    <2>1. EntityTypeOK
      BY <1>1 DEF EntitiesFit, EntityInvariant
    <2>2. CASE into' = into /\ subjects \subseteq subjects'
      BY <2>2 DEF Linked
    <2>3. ASSUME NEW m \in Mergers, Absorb(m) PROVE Follow
      <3> PICK keep, absorb : keep = merge[m].keep /\ absorb = merge[m].absorb
        OBVIOUS
      <3>1. /\ merge[m] # Idle /\ keep # absorb /\ keep \in Ids /\ absorb \in Ids
            /\ \A i \in Ids \ {absorb} : into'[i] = into[i]
        BY <2>1, <2>3, AbsorbDoes DEF EntityTypeOK
      <3>2. into'[keep] = Nobody /\ keep # Nobody
        BY <1>1, <3>1, EntityAssumption DEF EntitiesFit, MergeKeeps, Live, Ids
      <3>3. subjects' = MovedLinks(keep, absorb)
        BY <2>3 DEF Absorb
      <3> SUFFICES ASSUME NEW mention, NEW s \in subjects, s.entity # Nobody,
                          into[s.entity] = Nobody, <<s.memory, s.mention>> = mention
                   PROVE  Linked(mention)'
        BY DEF Linked
      <3>4. s.entity \in Ids /\ s \in [memory : Commits, mention : Mentions,
                                       entity : known \union {Nobody}]
        BY <2>1 DEF EntityTypeOK
      <3>5. CASE s.entity = absorb
        <4>1. [s EXCEPT !.entity = keep] \in subjects'
          BY <3>3, <3>5 DEF MovedLinks
        <4>2. /\ [s EXCEPT !.entity = keep].entity = keep
              /\ [s EXCEPT !.entity = keep].memory = s.memory
              /\ [s EXCEPT !.entity = keep].mention = s.mention
          BY <3>4
        <4> QED
          BY <3>2, <4>1, <4>2 DEF Linked
      <3>6. CASE s.entity # absorb
        <4>1. s \in subjects' /\ into'[s.entity] = Nobody
          BY <3>1, <3>3, <3>4, <3>6 DEF MovedLinks
        <4> QED
          BY <4>1 DEF Linked
      <3> QED
        BY <3>5, <3>6
    <2>4. \/ into' = into /\ subjects \subseteq subjects'
          \/ \E m \in Mergers : Absorb(m)
      BY <1>1 DEF Next, vars, entityVars, linkVars, BeginCommit, Resolve, LandCommit,
         LoseCommit, ReadBoth, CarryAliases, RefuseAbsorb, AbandonMerge
    <2> QED
      BY <2>2, <2>3, <2>4
  <1> QED
    BY <1>1, InvariantOfEntities, PTL DEF Spec, LinksFollowMerges
-----------------------------------------------------------------------------
\* The inductive invariant of clarifications

\* What a checkpoint and the stored outcome of its task say.
RowFits(t, i) ==
    LET row == checkpoints[t][i] IN
    \/ /\ row.node = "ask" /\ i = 1
       /\ row.value = None /\ row.wrote \in Replies \union {None}
    \/ /\ row.node = "apply"
       /\ row.value \in Replies /\ row.wrote \in {None, "done"}
    \/ /\ row.node = "end"
       /\ row.value = None /\ row.wrote = None

\* A save in the background is of the handler's own thread, and writes what
\* the task of its checkpoint yields.
SaveFits(h, s) ==
    /\ loop[h] # Off /\ s.thread = loop[h].thread
    /\ s.at \in DOMAIN checkpoints[s.thread]
    /\ s.what = "writes" =>
          \/ checkpoints[s.thread][s.at].node = "ask" /\ s.value \in Replies
          \/ checkpoints[s.thread][s.at].node = "apply" /\ s.value = "done"

\* A handler runs a task of a checkpoint of a question that was asked, and
\* merges for no answer that declines.
LoopFits(h) ==
    LET t == loop[h].thread
        on == loop[h].on
    IN  /\ options[t] # {}
        /\ on \in DOMAIN checkpoints[t]
        /\ loop[h].at = "ask" => checkpoints[t][on].node = "ask"
        /\ loop[h].at \in {"apply", "merge"} => checkpoints[t][on].node = "apply"
        /\ loop[h].at = "merge" => loop[h].said # Decline

HasLatest(t) == Saved(t) # {} => \E i \in Saved(t) : \A j \in Saved(t) : j <= i

RowsFit == \A t \in Threads : \A i \in DOMAIN checkpoints[t] : RowFits(t, i)
SavesFit == \A h \in Mergers : \A s \in saving[h] : SaveFits(h, s)
LoopsFit == \A h \in Mergers : loop[h] # Off => LoopFits(h)
LatestExists == \A t \in Threads : HasLatest(t)
UnaskedAreNew ==
    \A t \in Threads :
        options[t] = {} => checkpoints[t] = <<>> /\ merges[t] = 0

\* Handlers, checkpoints and saves fit together, races and cuts included.
StatesFit ==
    /\ ClarificationTypeOK
    /\ RowsFit /\ SavesFit /\ LoopsFit /\ LatestExists /\ UnaskedAreNew

\* Two handlers at once are marked.
RacesMarked ==
    \A g, h \in Mergers :
        /\ loop[g] # Off /\ loop[h] # Off /\ loop[g].thread = loop[h].thread
        /\ "raced" \notin marks[loop[g].thread]
        => g = h

\* The last checkpoint says that the question is settled, and is saved or about
\* to be.
EndIsComing(h) ==
    LET t == loop[h].thread
        last == Len(checkpoints[t])
    IN  /\ loop[h].at = "exit"
        /\ last # 0 /\ checkpoints[t][last].node = "end"
        /\ \/ checkpoints[t][last].saved
           \/ \E s \in saving[h] : s.what = "checkpoint" /\ s.at = last

\* Where a question was neither raced nor torn, a row is merged away by the
\* handler that is about to say so, and what is saved says so once it is gone.
Once(t) ==
    marks[t] = {} =>
        /\ merges[t] <= 1
        /\ merges[t] = 1 /\ RunningOn(t) = {} => EndIsSaved(t)
        /\ \A h \in RunningOn(t) : /\ ~loop[h].did => merges[t] = 0
                                   /\ loop[h].did => EndIsComing(h)

\* The answers a checkpoint holds.
Said(t, i) == {checkpoints[t][i].wrote, checkpoints[t][i].value} \intersect Replies

\* A handler acts on the answer that the saved checkpoints hold, and what it is
\* saving adds no other.
ActsOnAnswer(h) ==
    LET t == loop[h].thread
        said == loop[h].said
    IN  /\ \A i \in Saved(t) : Said(t, i) \subseteq {said}
        /\ \A s \in saving[h] :
              /\ s.value \in {said, "done", None}
              /\ s.what = "checkpoint" => Said(t, s.at) \subseteq {said}

OneAnswer(t) ==
    "raced" \notin marks[t] =>
        /\ \A i, j \in Saved(t) : \A a \in Said(t, i), b \in Said(t, j) : a = b
        /\ \A h \in RunningOn(t) : ActsOnAnswer(h)

\* Where a row was merged away, nothing declines: no saved answer and none that
\* a handler acts on.
Agreed(t) ==
    marks[t] = {} /\ merges[t] # 0 =>
        /\ \A i \in Saved(t) : Decline \notin Said(t, i)
        /\ \A h \in RunningOn(t) : loop[h].said # Decline

\* What a merge is about to absorb was flagged as ambiguous.
AbsorbsDoubtful ==
    \A h \in Mergers : merge[h] # Idle => merge[h].absorb \in unsure

ClarificationsFit ==
    /\ StatesFit /\ RacesMarked
    /\ \A t \in Threads : Once(t) /\ OneAnswer(t) /\ Agreed(t)
    /\ AbsorbsDoubtful /\ OnlyDoubtfulAbsorbed
-----------------------------------------------------------------------------
\* What the operators do

\* The words of the model are different ones.
LEMMA WordsDiffer ==
    None \notin Replies /\ "done" \notin Replies /\ "done" # None
  BY ClarificationAssumption DEF None, Replies, Decline

\* A new checkpoint comes last and changes none of the others.
LEMMA AppendDoes ==
    ASSUME CheckpointTypeOK, NEW t \in Threads, NEW row \in Checkpoint,
           checkpoints' = [checkpoints EXCEPT ![t] = Append(@, row)]
    PROVE  LET new == Len(checkpoints[t]) + 1 IN
           /\ checkpoints' \in [Threads -> Seq(Checkpoint)]
           /\ Len(checkpoints[t]) \in Nat /\ new # 0
           /\ DOMAIN checkpoints[t] = 1..Len(checkpoints[t])
           /\ DOMAIN checkpoints'[t] = DOMAIN checkpoints[t] \union {new}
           /\ new \notin DOMAIN checkpoints[t]
           /\ Len(checkpoints'[t]) = new
           /\ checkpoints'[t][new] = row
           /\ \A i \in DOMAIN checkpoints[t] : checkpoints'[t][i] = checkpoints[t][i]
           /\ \A u \in Threads \ {t} : checkpoints'[u] = checkpoints[u]
  <1>1. checkpoints[t] \in Seq(Checkpoint) /\ checkpoints \in [Threads -> Seq(Checkpoint)]
    BY DEF CheckpointTypeOK
  <1>2. checkpoints'[t] = Append(checkpoints[t], row)
    BY <1>1
  <1>3. /\ Append(checkpoints[t], row) \in Seq(Checkpoint)
        /\ Len(checkpoints[t]) \in Nat
        /\ DOMAIN checkpoints[t] = 1..Len(checkpoints[t])
        /\ Len(Append(checkpoints[t], row)) = Len(checkpoints[t]) + 1
        /\ \A i \in 1..Len(checkpoints[t]) :
              Append(checkpoints[t], row)[i] = checkpoints[t][i]
        /\ Append(checkpoints[t], row)[Len(checkpoints[t]) + 1] = row
    BY <1>1, AppendProperties, LenProperties
  <1>4. DOMAIN Append(checkpoints[t], row) = 1..(Len(checkpoints[t]) + 1)
    BY <1>3, LenProperties
  <1> QED
    BY <1>1, <1>2, <1>3, <1>4

\* The newest saved checkpoint, when there is one.
LEMMA LatestDoes ==
    ASSUME CheckpointTypeOK, LatestExists, NEW t \in Threads
    PROVE  /\ Saved(t) \subseteq DOMAIN checkpoints[t]
           /\ Saved(t) = {} => Latest(t) = 0
           /\ Latest(t) # 0 => Latest(t) \in Saved(t)
           /\ \A j \in Saved(t) : Latest(t) \in Saved(t) /\ j <= Latest(t)
           /\ DOMAIN checkpoints[t] = 1..Len(checkpoints[t])
           /\ Len(checkpoints[t]) \in Nat
           /\ Latest(t) \in Nat
           /\ \A i \in Saved(t) : (\A j \in Saved(t) : j <= i) => Latest(t) = i
  <1>1. /\ DOMAIN checkpoints[t] = 1..Len(checkpoints[t])
        /\ Len(checkpoints[t]) \in Nat
    BY LenProperties DEF CheckpointTypeOK
  <1>2. Saved(t) \subseteq DOMAIN checkpoints[t]
    BY DEF Saved
  <1>3. Saved(t) # {} => /\ Latest(t) \in Saved(t)
                         /\ \A j \in Saved(t) : j <= Latest(t)
    BY DEF LatestExists, HasLatest, Latest
  <1>4. \A i, j \in Saved(t) : i \in Nat /\ (i <= j /\ j <= i => i = j)
    BY <1>1, <1>2
  <1>5. Saved(t) = {} => Latest(t) = 0
    BY DEF Latest
  <1> QED
    BY <1>1, <1>2, <1>3, <1>4, <1>5

\* One save of a handler lands: the checkpoint counts as saved, or the outcome
\* of its task is stored when there was none.
Landed(h, s) ==
    LET t == s.thread IN
    /\ loop[h] # Off /\ t = loop[h].thread /\ t \in Threads
    /\ s \in Saves /\ s.at \in DOMAIN checkpoints[t] /\ Due(h, s)
    /\ saving' = [saving EXCEPT ![h] = @ \ {s}]
    /\ checkpoints' \in [Threads -> Seq(Checkpoint)]
    /\ \A u \in Threads \ {t} : checkpoints'[u] = checkpoints[u]
    /\ DOMAIN checkpoints'[t] = DOMAIN checkpoints[t]
    /\ Len(checkpoints'[t]) = Len(checkpoints[t])
    /\ \A i \in DOMAIN checkpoints[t] : i # s.at =>
          checkpoints'[t][i] = checkpoints[t][i]
    /\ LET old == checkpoints[t][s.at]
           new == checkpoints'[t][s.at]
       IN  /\ new.node = old.node /\ new.value = old.value
           /\ new.saved = (old.saved \/ s.what = "checkpoint")
           /\ new.wrote = IF s.what = "writes" /\ old.wrote = None
                          THEN s.value ELSE old.wrote

LEMMA SaveDoes ==
    ASSUME StatesFit, NEW h \in Mergers, Save(h)
    PROVE  \E s \in saving[h] : Landed(h, s)
  <1>1. PICK s \in saving[h] :
           /\ Due(h, s)
           /\ saving' = [saving EXCEPT ![h] = @ \ {s}]
           /\ checkpoints' = [checkpoints EXCEPT ![s.thread][s.at] =
                 IF s.what = "checkpoint" THEN [@ EXCEPT !.saved = TRUE]
                 ELSE Written(@, s.value)]
    BY DEF Save
  <1> DEFINE t == s.thread
             old == checkpoints[t][s.at]
             new == IF s.what = "checkpoint" THEN [old EXCEPT !.saved = TRUE]
                    ELSE Written(old, s.value)
  <1>2. /\ s \in Saves /\ t \in Threads /\ t = loop[h].thread /\ loop[h] # Off
        /\ s.at \in DOMAIN checkpoints[t]
        /\ s.what \in {"checkpoint", "writes"}
        /\ s.value \in Replies \union {"done", None}
    BY <1>1 DEF StatesFit, SavesFit, SaveFits, ClarificationTypeOK, CheckpointTypeOK, Saves
  <1>3. /\ checkpoints \in [Threads -> Seq(Checkpoint)]
        /\ checkpoints[t] \in Seq(Checkpoint)
    BY <1>2 DEF StatesFit, ClarificationTypeOK, CheckpointTypeOK
  <1>4. old \in Checkpoint /\ s.at \in 1..Len(checkpoints[t])
    BY <1>2, <1>3, ElementOfSeq, LenProperties
  <1>5. /\ new \in Checkpoint
        /\ new.node = old.node /\ new.value = old.value
        /\ new.saved = (old.saved \/ s.what = "checkpoint")
        /\ new.wrote = IF s.what = "writes" /\ old.wrote = None
                       THEN s.value ELSE old.wrote
    <2>1. CASE s.what = "checkpoint"
      BY <2>1, <1>4 DEF Checkpoint
    <2>2. CASE s.what = "writes"
      BY <2>2, <1>2, <1>4 DEF Checkpoint, Written
    <2> QED
      BY <1>2, <2>1, <2>2
  <1>6. checkpoints' = [checkpoints EXCEPT ![t] = [@ EXCEPT ![s.at] = new]]
    BY <1>1
  <1> HIDE DEF new
  <1>7. checkpoints'[t] = [checkpoints[t] EXCEPT ![s.at] = new]
    BY <1>2, <1>3, <1>6
  <1>8. [checkpoints[t] EXCEPT ![s.at] = new] \in Seq(Checkpoint)
    BY <1>3, <1>4, <1>5, ExceptSeq
  <1>9. Len(checkpoints'[t]) = Len(checkpoints[t])
    BY <1>3, <1>4, <1>5, <1>7, ExceptSeq
  <1>10. /\ \A u \in Threads \ {t} : checkpoints'[u] = checkpoints[u]
         /\ DOMAIN checkpoints'[t] = DOMAIN checkpoints[t]
         /\ checkpoints'[t][s.at] = new
         /\ \A i \in DOMAIN checkpoints[t] : i # s.at =>
               checkpoints'[t][i] = checkpoints[t][i]
    BY <1>2, <1>3, <1>6, <1>7
  <1>11. checkpoints' \in [Threads -> Seq(Checkpoint)]
    BY <1>3, <1>6, <1>7, <1>8
  <1>12. /\ checkpoints'[t][s.at].node = old.node
         /\ checkpoints'[t][s.at].value = old.value
         /\ checkpoints'[t][s.at].saved = (old.saved \/ s.what = "checkpoint")
         /\ checkpoints'[t][s.at].wrote = IF s.what = "writes" /\ old.wrote = None
                                         THEN s.value ELSE old.wrote
    BY <1>5, <1>10
  <1> HIDE DEF old
  <1>13. Landed(h, s)
    BY <1>1, <1>2, <1>9, <1>10, <1>11, <1>12 DEF old, Landed
  <1> QED
    BY <1>1, <1>13

-----------------------------------------------------------------------------
\* What a step leaves alone

\* The step is of one handler that is running, and touches no other handler and
\* no other thread.
OnlyTouches(h) ==
    LET t == loop[h].thread IN
    /\ loop[h] # Off /\ options' = options
    /\ loop'[h] # Off => loop'[h].thread = t
    /\ \A g \in Mergers \ {h} : loop'[g] = loop[g] /\ saving'[g] = saving[g]
    /\ \A u \in Threads \ {t} :
          checkpoints'[u] = checkpoints[u] /\ merges'[u] = merges[u]
    /\ \A i \in DOMAIN checkpoints[t] :
          i \in DOMAIN checkpoints'[t] /\ checkpoints'[t][i].node = checkpoints[t][i].node
    /\ \A u \in Threads : marks[u] \subseteq marks'[u]

\* Then the states of the others fit as before.
LEMMA OthersFit ==
    ASSUME StatesFit, NEW h \in Mergers, OnlyTouches(h)
    PROVE  /\ \A g \in Mergers \ {h} : loop'[g] # Off => LoopFits(g)'
           /\ \A g \in Mergers \ {h} : \A s \in saving'[g] : SaveFits(g, s)'
           /\ \A u \in Threads \ {loop[h].thread} :
                 /\ HasLatest(u)'
                 /\ \A i \in DOMAIN checkpoints'[u] : RowFits(u, i)'
           /\ UnaskedAreNew'
  <1> DEFINE t == loop[h].thread
  <1>1. /\ LoopFits(h) /\ t \in Threads
        /\ \A g \in Mergers : loop[g] # Off => loop[g].thread \in Threads
    BY DEF OnlyTouches, StatesFit, LoopsFit, ClarificationTypeOK, Loops
  <1>2. ASSUME NEW g \in Mergers \ {h}, loop'[g] # Off PROVE LoopFits(g)'
    <2>1. /\ loop[g] # Off /\ LoopFits(g) /\ loop'[g] = loop[g]
          /\ saving'[g] = saving[g] /\ options' = options
      BY <1>2 DEF OnlyTouches, StatesFit, LoopsFit
    <2>2. CASE loop[g].thread = t
      <3>1. \A i \in DOMAIN checkpoints[t] :
               i \in DOMAIN checkpoints'[t] /\ checkpoints'[t][i].node = checkpoints[t][i].node
        BY DEF OnlyTouches
      <3> QED
        BY <2>1, <2>2, <3>1 DEF LoopFits
    <2>3. CASE loop[g].thread # t
      <3>1. checkpoints'[loop[g].thread] = checkpoints[loop[g].thread]
        BY <1>1, <2>1, <2>3 DEF OnlyTouches
      <3> QED
        BY <2>1, <2>3, <3>1 DEF LoopFits
    <2> QED
      BY <2>2, <2>3
  <1>3. ASSUME NEW g \in Mergers \ {h}, NEW s \in saving'[g] PROVE SaveFits(g, s)'
    <2>1. s \in saving[g] /\ SaveFits(g, s) /\ loop'[g] = loop[g]
      BY <1>3 DEF OnlyTouches, StatesFit, SavesFit
    <2>2. s.thread \in Threads
      BY <1>1, <2>1 DEF SaveFits
    <2>3. \/ checkpoints'[s.thread] = checkpoints[s.thread]
          \/ \A i \in DOMAIN checkpoints[s.thread] :
                /\ i \in DOMAIN checkpoints'[s.thread]
                /\ checkpoints'[s.thread][i].node = checkpoints[s.thread][i].node
      BY <2>2 DEF OnlyTouches
    <2> QED
      BY <2>1, <2>3 DEF SaveFits
  <1>4. ASSUME NEW u \in Threads \ {t}
        PROVE  /\ HasLatest(u)'
               /\ \A i \in DOMAIN checkpoints'[u] : RowFits(u, i)'
    <2>1. checkpoints'[u] = checkpoints[u]
      BY DEF OnlyTouches
    <2> QED
      BY <2>1 DEF StatesFit, RowsFit, RowFits, LatestExists, HasLatest, Saved
  <1>5. UnaskedAreNew'
    <2>1. options[t] # {}
      BY <1>1 DEF LoopFits
    <2> QED
      BY <2>1 DEF OnlyTouches, StatesFit, UnaskedAreNew
  <1> QED
    BY <1>2, <1>3, <1>4, <1>5

\* So only the handler's own state and its thread's rows are to be looked at.
LEMMA OwnSuffices ==
    ASSUME StatesFit, NEW h \in Mergers, OnlyTouches(h), ClarificationTypeOK',
           loop'[h] # Off => LoopFits(h)',
           \A s \in saving'[h] : SaveFits(h, s)',
           NEW t \in Threads, t = loop[h].thread, HasLatest(t)',
           \A i \in DOMAIN checkpoints'[t] : RowFits(t, i)'
    PROVE  StatesFit'
  <1>1. LoopsFit' /\ SavesFit' /\ UnaskedAreNew'
    BY OthersFit DEF LoopsFit, SavesFit
  <1>2. LatestExists' /\ RowsFit'
    BY OthersFit DEF LatestExists, RowsFit
  <1> QED
    BY <1>1, <1>2 DEF StatesFit

-----------------------------------------------------------------------------
\* The states fit after every step

\* Nothing of the workflow changes.
LEMMA QuietFits ==
    ASSUME StatesFit, UNCHANGED <<checkpoints, saving, options, loop, merges, marks>>
    PROVE  StatesFit'
  BY DEF StatesFit, ClarificationTypeOK, CheckpointTypeOK, RowsFit, RowFits, SavesFit,
         SaveFits, LoopsFit, LoopFits, LatestExists, HasLatest, Saved,
         UnaskedAreNew

\* The rows are as they were.
LEMMA RowsStay ==
    ASSUME StatesFit, checkpoints' = checkpoints
    PROVE  /\ RowsFit' /\ LatestExists'
           /\ \A t \in Threads : HasLatest(t)' /\ \A i \in DOMAIN checkpoints'[t] : RowFits(t, i)'
  BY DEF StatesFit, RowsFit, RowFits, LatestExists, HasLatest, Saved

\* A handler that is off saves nothing, and one that runs has a thread.
LEMMA Handlers ==
    ASSUME StatesFit, NEW h \in Mergers
    PROVE  /\ loop[h] = Off => saving[h] = {}
           /\ loop[h] # Off => /\ loop[h] \in Loops /\ LoopFits(h)
                               /\ loop[h].thread \in Threads /\ loop[h].on \in Nat
           /\ Off.at = "off" /\ \A l \in Loops : l.at # "off" /\ l # Off
           /\ loop[h].at \in {"ask", "apply", "merge", "exit"} => loop[h] # Off
  BY DEF StatesFit, SavesFit, SaveFits, LoopsFit, ClarificationTypeOK, Loops, Off
\* A new row that fits, saved or not, leaves a newest one among the saved.
LEMMA NewRowFits ==
    ASSUME StatesFit, NEW t \in Threads, NEW row \in Checkpoint,
           checkpoints' = [checkpoints EXCEPT ![t] = Append(@, row)],
           row.wrote = None,
           \/ row.node = "ask" /\ row.value = None /\ checkpoints[t] = <<>>
           \/ row.node = "apply" /\ row.value \in Replies
           \/ row.node = "end" /\ row.value = None
    PROVE  HasLatest(t)' /\ \A i \in DOMAIN checkpoints'[t] : RowFits(t, i)'
  <1> DEFINE new == Len(checkpoints[t]) + 1
  <1>1. CheckpointTypeOK
    BY DEF StatesFit, ClarificationTypeOK
  <1>2. /\ Len(checkpoints[t]) \in Nat
        /\ DOMAIN checkpoints[t] = 1..Len(checkpoints[t])
        /\ DOMAIN checkpoints'[t] = DOMAIN checkpoints[t] \union {new}
        /\ checkpoints'[t][new] = row
        /\ \A i \in DOMAIN checkpoints[t] : checkpoints'[t][i] = checkpoints[t][i]
    BY <1>1, AppendDoes
  <1>3. ASSUME NEW i \in DOMAIN checkpoints'[t] PROVE RowFits(t, i)'
    <2>1. CASE i \in DOMAIN checkpoints[t]
      BY <1>2, <2>1 DEF StatesFit, RowsFit, RowFits
    <2>2. CASE i = new
      <3>1. checkpoints[t] = <<>> => new = 1
        BY EmptySeq
      <3> QED
        BY <1>2, <2>2, <3>1 DEF RowFits
    <2> QED
      BY <1>2, <2>1, <2>2
  <1>4. HasLatest(t)'
    <2>1. Saved(t)' = IF row.saved THEN Saved(t) \union {new} ELSE Saved(t)
      BY <1>2 DEF Saved
    <2>2. CASE row.saved
      <3>1. \A j \in Saved(t)' : j <= new
        BY <1>2, <2>1 DEF Saved
      <3> QED
        BY <2>1, <2>2, <3>1 DEF HasLatest
    <2>3. CASE ~row.saved
      BY <2>1, <2>3 DEF StatesFit, LatestExists, HasLatest
    <2> QED
      BY <2>2, <2>3
  <1> QED
    BY <1>3, <1>4

\* A question that is asked has no handler and no row before its first.
LEMMA AskDoes ==
    ASSUME StatesFit, NEW h \in Mergers, NEW t \in Threads, Ask(h, t)
    PROVE  /\ loop[h] = Off /\ options[t] = {} /\ options'[t] # {}
           /\ \A u \in Threads \ {t} : options'[u] = options[u]
           /\ options' \in [Threads -> SUBSET Names]
           /\ checkpoints[t] = <<>> /\ merges[t] = 0
           /\ \A g \in Mergers : loop[g] # Off => loop[g].thread # t
           /\ checkpoints' = [checkpoints EXCEPT
                 ![t] = Append(@, NewCheckpoint("ask", None, TRUE))]
           /\ \A u \in Threads \ {t} : checkpoints'[u] = checkpoints[u]
           /\ UNCHANGED <<vars, saving, loop, merges, marks>>
  <1>1. /\ loop[h] = Off /\ options[t] = {} /\ UNCHANGED <<vars, saving, loop, merges, marks>>
        /\ checkpoints' = [checkpoints EXCEPT
              ![t] = Append(@, NewCheckpoint("ask", None, TRUE))]
    BY DEF Ask, Pause
  <1>2. PICK offered \in SUBSET (Names \ SelfNames) :
           offered # {} /\ options' = [options EXCEPT ![t] = offered]
    BY DEF Ask
  <1>3. /\ options \in [Threads -> SUBSET Names]
        /\ checkpoints \in [Threads -> Seq(Checkpoint)]
    BY DEF StatesFit, ClarificationTypeOK, CheckpointTypeOK
  <1>4. checkpoints[t] = <<>> /\ merges[t] = 0
    BY <1>1 DEF StatesFit, UnaskedAreNew
  <1>5. \A g \in Mergers : loop[g] # Off => loop[g].thread # t
    BY <1>1 DEF StatesFit, LoopsFit, LoopFits
  <1> QED
    BY <1>1, <1>2, <1>3, <1>4, <1>5

LEMMA AskFits ==
    ASSUME StatesFit, NEW h \in Mergers, NEW t \in Threads, Ask(h, t)
    PROVE  StatesFit'
  <1> DEFINE row == NewCheckpoint("ask", None, TRUE)
  <1>1. /\ options'[t] # {} /\ options' \in [Threads -> SUBSET Names]
        /\ \A u \in Threads \ {t} : options'[u] = options[u]
        /\ checkpoints[t] = <<>>
        /\ \A g \in Mergers : loop[g] # Off => loop[g].thread # t
        /\ checkpoints' = [checkpoints EXCEPT ![t] = Append(@, row)]
        /\ UNCHANGED <<saving, loop, merges, marks>>
    BY AskDoes
  <1>2. row \in Checkpoint /\ row.node = "ask" /\ row.value = None /\ row.wrote = None
    BY DEF NewCheckpoint, Checkpoint
  <1> HIDE DEF row
  <1>3. CheckpointTypeOK
    BY DEF StatesFit, ClarificationTypeOK
  <1>4. /\ checkpoints' \in [Threads -> Seq(Checkpoint)]
        /\ \A u \in Threads \ {t} : checkpoints'[u] = checkpoints[u]
    BY <1>1, <1>2, <1>3, AppendDoes
  <1>5. ClarificationTypeOK'
    BY <1>1, <1>4 DEF StatesFit, ClarificationTypeOK, CheckpointTypeOK
  <1>6. HasLatest(t)' /\ \A i \in DOMAIN checkpoints'[t] : RowFits(t, i)'
    BY <1>1, <1>2, NewRowFits
  <1>7. ASSUME NEW u \in Threads \ {t}
        PROVE  HasLatest(u)' /\ \A i \in DOMAIN checkpoints'[u] : RowFits(u, i)'
    <2>1. checkpoints'[u] = checkpoints[u]
      BY <1>4
    <2> QED
      BY <2>1 DEF StatesFit, RowsFit, RowFits, LatestExists, HasLatest, Saved
  <1>8. ASSUME NEW g \in Mergers, loop'[g] # Off PROVE LoopFits(g)'
    <2>1. /\ loop'[g] = loop[g] /\ LoopFits(g) /\ loop[g].thread \in Threads \ {t}
      BY <1>1, <1>8, Handlers
    <2> QED
      BY <1>1, <1>4, <2>1 DEF LoopFits
  <1>9. ASSUME NEW g \in Mergers, NEW s \in saving'[g] PROVE SaveFits(g, s)'
    <2>1. /\ SaveFits(g, s) /\ loop' = loop
      BY <1>1, <1>9 DEF StatesFit, SavesFit
    <2>2. s.thread \in Threads \ {t}
      BY <1>1, <2>1, Handlers DEF SaveFits
    <2> QED
      BY <1>4, <2>1, <2>2 DEF SaveFits
  <1>10. UnaskedAreNew'
    BY <1>1, <1>4 DEF StatesFit, UnaskedAreNew
  <1> QED
    BY <1>5, <1>6, <1>7, <1>8, <1>9, <1>10
       DEF StatesFit, RowsFit, LatestExists, LoopsFit, SavesFit

LEMMA ResumeFits ==
    ASSUME StatesFit, NEW h \in Mergers, NEW t \in Threads, Resume(h, t)
    PROVE  StatesFit'
  <1> DEFINE on == Latest(t)
             row == checkpoints[t][on]
  <1>1. /\ loop[h] = Off /\ on # 0 /\ ~IsSettled(row)
        /\ UNCHANGED <<checkpoints, saving, options, merges>>
        /\ marks' = [marks EXCEPT ![t] =
                        IF RunningOn(t) = {} THEN @ ELSE @ \union {"raced"}]
    BY DEF Resume
  <1>2. PICK reply \in Replies :
           loop' = [loop EXCEPT ![h] =
              IF row.node = "ask" THEN Loop("ask", t, on, Answered(row, reply))
              ELSE Loop("apply", t, on, row.value)]
    BY DEF Resume, Moves
  <1> DEFINE new == IF row.node = "ask"
                    THEN Loop("ask", t, on, Answered(row, reply))
                    ELSE Loop("apply", t, on, row.value)
  <1>3. on \in DOMAIN checkpoints[t] /\ on \in Nat /\ RowFits(t, on)
    BY <1>1, LatestDoes DEF StatesFit, RowsFit, ClarificationTypeOK
  <1> HIDE DEF on
  <1>4. /\ new \in Loops /\ new.thread = t /\ new.on = on
        /\ \/ new.at = "ask" /\ row.node = "ask"
           \/ new.at = "apply" /\ row.node = "apply"
    <2>1. \/ row.node = "ask" /\ row.wrote \in Replies \union {None}
          \/ row.node = "apply" /\ row.value \in Replies
      BY <1>1, <1>3 DEF RowFits, IsSettled
    <2>2. Answered(row, reply) \in Replies \/ row.node = "apply"
      BY <2>1 DEF Answered
    <2> QED
      BY <1>3, <2>1, <2>2 DEF Loop, Loops
  <1> HIDE DEF new
  <1>5. ClarificationTypeOK'
    BY <1>1, <1>2, <1>4 DEF new, StatesFit, ClarificationTypeOK, CheckpointTypeOK, Marks
  <1>6. loop'[h] = new /\ \A g \in Mergers \ {h} : loop'[g] = loop[g]
    BY <1>2 DEF new, StatesFit, ClarificationTypeOK
  <1>7. checkpoints[t] # <<>>
    BY <1>3, EmptySeq
  <1>8. options[t] # {}
    BY <1>7 DEF StatesFit, UnaskedAreNew
  <1>9. LoopFits(h)'
    BY <1>1, <1>3, <1>4, <1>6, <1>8 DEF LoopFits
  <1>10. ASSUME NEW g \in Mergers \ {h}, loop'[g] # Off PROVE LoopFits(g)'
    <2>1. loop'[g] = loop[g] /\ LoopFits(g)
      BY <1>6, <1>10, Handlers
    <2> QED
      BY <1>1, <2>1 DEF LoopFits
  <1>11. SavesFit'
    BY <1>1, <1>6, Handlers DEF StatesFit, SavesFit, SaveFits
  <1>12. UnaskedAreNew'
    BY <1>1 DEF StatesFit, UnaskedAreNew
  <1> QED
    BY <1>1, <1>5, <1>9, <1>10, <1>11, <1>12, RowsStay DEF StatesFit, LoopsFit

\* The end of a superstep: its rows, its saves, and nothing of other threads.
Stepped(h, t, on, outcome, node, value) ==
    LET new == Len(checkpoints[t]) + 1 IN
    /\ CheckpointTypeOK'
    /\ new # 0 /\ new \in Nat /\ new \notin DOMAIN checkpoints[t]
    /\ on # 0 /\ on \in Nat /\ on # new
    /\ DOMAIN checkpoints'[t] = DOMAIN checkpoints[t] \union {new}
    /\ Len(checkpoints'[t]) = new
    /\ checkpoints'[t][new] = NewCheckpoint(node, value, FALSE)
    /\ \A i \in DOMAIN checkpoints[t] : checkpoints'[t][i] = checkpoints[t][i]
    /\ \A u \in Threads \ {t} : checkpoints'[u] = checkpoints[u]
    /\ \A g \in Mergers \ {h} : saving'[g] = saving[g]
    /\ saving'[h] = saving[h] \union
          {[thread |-> t, at |-> on, what |-> "writes", value |-> outcome],
           [thread |-> t, at |-> new, what |-> "checkpoint", value |-> None]}
    /\ HasLatest(t)' /\ \A i \in DOMAIN checkpoints'[t] : RowFits(t, i)'

LEMMA SuperstepDoes ==
    ASSUME StatesFit, NEW h \in Mergers, NEW t \in Threads,
           NEW on \in DOMAIN checkpoints[t], NEW outcome \in Replies \union {"done"},
           NEW node \in {"apply", "end"}, NEW value \in Replies \union {None},
           \/ node = "apply" /\ value \in Replies
           \/ node = "end" /\ value = None,
           Superstep(h, t, on, outcome, node, value)
    PROVE  Stepped(h, t, on, outcome, node, value)
  <1> DEFINE row == NewCheckpoint(node, value, FALSE)
             new == Len(checkpoints[t]) + 1
             writes == [thread |-> t, at |-> on, what |-> "writes", value |-> outcome]
             last == [thread |-> t, at |-> new, what |-> "checkpoint", value |-> None]
  <1>1. /\ checkpoints' = [checkpoints EXCEPT ![t] = Append(@, row)]
        /\ saving' = [saving EXCEPT ![h] = @ \union {writes, last}]
    BY DEF Superstep
  <1>2. /\ row \in Checkpoint /\ row.node = node /\ row.value = value
        /\ row.wrote = None
    BY DEF NewCheckpoint, Checkpoint
  <1>3. CheckpointTypeOK
    BY DEF StatesFit, ClarificationTypeOK
  <1> HIDE DEF row
  <1>4. /\ checkpoints' \in [Threads -> Seq(Checkpoint)]
        /\ Len(checkpoints[t]) \in Nat /\ new # 0
        /\ DOMAIN checkpoints[t] = 1..Len(checkpoints[t])
        /\ DOMAIN checkpoints'[t] = DOMAIN checkpoints[t] \union {new}
        /\ new \notin DOMAIN checkpoints[t]
        /\ Len(checkpoints'[t]) = new
        /\ checkpoints'[t][new] = row
        /\ \A i \in DOMAIN checkpoints[t] : checkpoints'[t][i] = checkpoints[t][i]
        /\ \A u \in Threads \ {t} : checkpoints'[u] = checkpoints[u]
    BY <1>1, <1>2, <1>3, AppendDoes
  <1>5. HasLatest(t)' /\ \A i \in DOMAIN checkpoints'[t] : RowFits(t, i)'
    BY <1>1, <1>2, NewRowFits
  <1>6. on \in Nat /\ on # 0 /\ on # new
    BY <1>4
  <1>7. writes \in Saves /\ last \in Saves
    BY <1>4, <1>6 DEF Saves
  <1> HIDE DEF writes, last
  <1>8. /\ saving' \in [Mergers -> SUBSET Saves]
        /\ \A g \in Mergers \ {h} : saving'[g] = saving[g]
        /\ saving'[h] = saving[h] \union {writes, last}
    BY <1>1, <1>3, <1>7 DEF CheckpointTypeOK
  <1> QED
    BY <1>4, <1>5, <1>6, <1>8 DEF CheckpointTypeOK, row, writes, last, Stepped

\* The answer is taken: the next checkpoint is to apply it.
LEMMA TakeAnswerDoes ==
    ASSUME StatesFit, NEW h \in Mergers, TakeAnswer(h),
           NEW t \in Threads, t = loop[h].thread
    PROVE  LET on == loop[h].on
               said == loop[h].said
               new == Len(checkpoints[t]) + 1
           IN
           /\ loop[h] # Off /\ loop[h].at = "ask"
           /\ on \in DOMAIN checkpoints[t] /\ checkpoints[t][on].node = "ask"
           /\ said \in Replies
           /\ Superstep(h, t, on, said, "apply", said)
           /\ loop'[h] = Loop("apply", t, new, said)
           /\ \A g \in Mergers \ {h} : loop'[g] = loop[g]
           /\ loop' = [loop EXCEPT ![h] = Loop("apply", t, new, said)]
           /\ UNCHANGED <<vars, options, merges, marks>>
  <1>1. /\ loop[h].at = "ask"
        /\ Superstep(h, t, loop[h].on, loop[h].said, "apply", loop[h].said)
        /\ loop' = [loop EXCEPT ![h] =
              Loop("apply", t, Len(checkpoints[t]) + 1, loop[h].said)]
        /\ UNCHANGED <<vars, options, merges, marks>>
    BY DEF TakeAnswer, Moves
  <1>2. loop[h] # Off /\ LoopFits(h) /\ loop[h] \in Loops
    BY <1>1, Handlers
  <1>3. loop \in [Mergers -> Loops \union {Off}]
    BY DEF StatesFit, ClarificationTypeOK
  <1> QED
    BY <1>1, <1>2, <1>3 DEF LoopFits, Loops

LEMMA TakeAnswerFits ==
    ASSUME StatesFit, NEW h \in Mergers, TakeAnswer(h)
    PROVE  StatesFit' /\ OnlyTouches(h)
  <1>. PICK t \in Threads : t = loop[h].thread
    <2>1. loop[h].at = "ask"
      BY DEF TakeAnswer
    <2> QED
      BY <2>1, Handlers
  <1> DEFINE on == loop[h].on
             said == loop[h].said
             new == Len(checkpoints[t]) + 1
             to == Loop("apply", t, new, said)
  <1>1. /\ loop[h] # Off /\ loop[h].at = "ask"
        /\ on \in DOMAIN checkpoints[t] /\ checkpoints[t][on].node = "ask"
        /\ said \in Replies
        /\ Superstep(h, t, on, said, "apply", said)
        /\ loop'[h] = to /\ loop' = [loop EXCEPT ![h] = to]
        /\ \A g \in Mergers \ {h} : loop'[g] = loop[g]
        /\ UNCHANGED <<vars, options, merges, marks>>
    BY TakeAnswerDoes
  <1>2. /\ CheckpointTypeOK'
        /\ new # 0 /\ new \in Nat /\ on # new
        /\ DOMAIN checkpoints'[t] = DOMAIN checkpoints[t] \union {new}
        /\ checkpoints'[t][new] = NewCheckpoint("apply", said, FALSE)
        /\ \A i \in DOMAIN checkpoints[t] : checkpoints'[t][i] = checkpoints[t][i]
        /\ \A u \in Threads \ {t} : checkpoints'[u] = checkpoints[u]
        /\ \A g \in Mergers \ {h} : saving'[g] = saving[g]
        /\ saving'[h] = saving[h] \union
              {[thread |-> t, at |-> on, what |-> "writes", value |-> said],
               [thread |-> t, at |-> new, what |-> "checkpoint", value |-> None]}
        /\ HasLatest(t)' /\ \A i \in DOMAIN checkpoints'[t] : RowFits(t, i)'
    <2>1. /\ Superstep(h, t, on, said, "apply", said) /\ on \in DOMAIN checkpoints[t]
          /\ said \in Replies \union {"done"} /\ said \in Replies \union {None}
          /\ said \in Replies
      BY <1>1
    <2> HIDE DEF on, said
    <2>2. Stepped(h, t, on, said, "apply", said)
      BY <2>1, SuperstepDoes
    <2> QED
      BY <2>2 DEF Stepped
  <1>3. /\ to \in Loops /\ to.thread = t /\ to.on = new /\ to.at = "apply"
        /\ to.said = said /\ to # Off
    BY <1>1, <1>2 DEF Loop, Loops, Off
  <1>4. LoopFits(h)
    BY <1>1, Handlers
  <1> HIDE DEF on, said, new, to
  <1>5. ClarificationTypeOK'
    BY <1>1, <1>2, <1>3 DEF StatesFit, ClarificationTypeOK
  <1>6. OnlyTouches(h)
    BY <1>1, <1>2, <1>3 DEF OnlyTouches
  <1>7. checkpoints'[t][new].node = "apply"
    BY <1>2 DEF NewCheckpoint
  <1>8. LoopFits(h)'
    BY <1>1, <1>2, <1>3, <1>4, <1>7 DEF LoopFits
  <1>9. ASSUME NEW s \in saving'[h] PROVE SaveFits(h, s)'
    <2>1. CASE s \in saving[h]
      <3>1. SaveFits(h, s)
        BY <2>1 DEF StatesFit, SavesFit
      <3> QED
        BY <1>1, <1>2, <1>3, <3>1 DEF SaveFits
    <2>2. CASE s = [thread |-> t, at |-> on, what |-> "writes", value |-> said]
      BY <1>1, <1>2, <1>3, <2>2 DEF SaveFits
    <2>3. CASE s = [thread |-> t, at |-> new, what |-> "checkpoint", value |-> None]
      BY <1>1, <1>2, <1>3, <2>3 DEF SaveFits
    <2> QED
      BY <1>2, <1>9, <2>1, <2>2, <2>3
  <1> QED
    BY <1>2, <1>5, <1>6, <1>8, <1>9, OwnSuffices
\* An answer is acted on to the end, with a merge or without.
Settles(h, did) ==
    \/ did = FALSE /\ (Abandon(h) \/ NothingToMerge(h))
    \/ did = TRUE /\ EndMerge(h)

Concluded(h, t, did) ==
    LET on == loop[h].on
        to == [loop[h] EXCEPT !.at = "exit", !.did = did]
    IN
    /\ loop[h] # Off /\ loop[h].at \in {"apply", "merge"} /\ loop[h] \in Loops
    /\ did => loop[h].said # Decline
    /\ options' = options /\ marks' = marks
    /\ loop' = [loop EXCEPT ![h] = to] /\ loop'[h] = to
    /\ \A g \in Mergers \ {h} : loop'[g] = loop[g]
    /\ merges'[t] = IF did THEN merges[t] + 1 ELSE merges[t]
    /\ \A u \in Threads \ {t} : merges'[u] = merges[u]
    /\ ClarificationTypeOK'
    /\ on \in DOMAIN checkpoints[t] /\ checkpoints[t][on].node = "apply"
    /\ Stepped(h, t, on, "done", "end", None)

LEMMA SettlesDoes ==
    ASSUME StatesFit, NEW h \in Mergers, NEW did \in BOOLEAN, Settles(h, did),
           NEW t \in Threads, t = loop[h].thread
    PROVE  Concluded(h, t, did)
  <1> DEFINE on == loop[h].on
             to == [loop[h] EXCEPT !.at = "exit", !.did = did]
  <1>1. /\ loop[h].at \in {"apply", "merge"}
        /\ did => loop[h].at = "merge"
        /\ Superstep(h, t, on, "done", "end", None)
        /\ loop' = [loop EXCEPT ![h] = to]
        /\ UNCHANGED <<options, marks>>
        /\ merges' = IF did THEN [merges EXCEPT ![t] = @ + 1] ELSE merges
    BY DEF Settles, Abandon, NothingToMerge, EndMerge, EndApply, Moves
  <1>2. loop[h] # Off /\ LoopFits(h) /\ loop[h] \in Loops
    BY <1>1, Handlers
  <1>3. /\ on \in DOMAIN checkpoints[t] /\ checkpoints[t][on].node = "apply"
        /\ did => loop[h].said # Decline
    BY <1>1, <1>2 DEF LoopFits
  <1>4. /\ loop \in [Mergers -> Loops \union {Off}] /\ merges \in [Threads -> Nat]
        /\ options \in [Threads -> SUBSET Names] /\ marks \in [Threads -> SUBSET Marks]
    BY DEF StatesFit, ClarificationTypeOK
  <1>5. to \in Loops
    BY <1>2 DEF Loops
  <1> HIDE DEF on, to
  <1>6. Stepped(h, t, on, "done", "end", None)
    <2>1. "done" \in Replies \union {"done"} /\ None \in Replies \union {None}
      OBVIOUS
    <2> QED
      BY <1>1, <1>3, <2>1, SuperstepDoes
  <1>7. CheckpointTypeOK'
    BY <1>6 DEF Stepped
  <1>8. /\ loop'[h] = to /\ \A g \in Mergers \ {h} : loop'[g] = loop[g]
        /\ loop' \in [Mergers -> Loops \union {Off}]
    BY <1>1, <1>4, <1>5
  <1>9. /\ merges'[t] = IF did THEN merges[t] + 1 ELSE merges[t]
        /\ \A u \in Threads \ {t} : merges'[u] = merges[u]
        /\ merges' \in [Threads -> Nat]
    BY <1>1, <1>4
  <1>10. ClarificationTypeOK'
    BY <1>1, <1>4, <1>7, <1>8, <1>9 DEF ClarificationTypeOK
  <1> QED
    BY <1>1, <1>2, <1>3, <1>6, <1>8, <1>9, <1>10 DEF Concluded, on, to

LEMMA SettlesFits ==
    ASSUME StatesFit, NEW h \in Mergers, NEW did \in BOOLEAN, Settles(h, did)
    PROVE  StatesFit' /\ OnlyTouches(h)
  <1>. PICK t \in Threads : t = loop[h].thread
    <2>1. loop[h].at \in {"apply", "merge"}
      BY DEF Settles, Abandon, NothingToMerge, EndMerge
    <2> QED
      BY <2>1, Handlers
  <1> PICK on, new, last, done :
         /\ on = loop[h].on /\ new = Len(checkpoints[t]) + 1
         /\ last = [thread |-> t, at |-> new, what |-> "checkpoint", value |-> None]
         /\ done = [thread |-> t, at |-> on, what |-> "writes", value |-> "done"]
    OBVIOUS
  <1>1. /\ Concluded(h, t, did) /\ Stepped(h, t, on, "done", "end", None)
    <2>1. Concluded(h, t, did)
      BY SettlesDoes
    <2> QED
      BY <2>1 DEF Concluded
  <1>2. /\ loop[h] # Off /\ loop[h] \in Loops /\ options' = options /\ marks' = marks
        /\ loop'[h] = [loop[h] EXCEPT !.at = "exit", !.did = did]
        /\ \A g \in Mergers \ {h} : loop'[g] = loop[g]
        /\ \A u \in Threads \ {t} : merges'[u] = merges[u]
        /\ ClarificationTypeOK'
        /\ on \in DOMAIN checkpoints[t] /\ checkpoints[t][on].node = "apply"
    BY <1>1 DEF Concluded
  <1>3. /\ DOMAIN checkpoints'[t] = DOMAIN checkpoints[t] \union {new}
        /\ \A i \in DOMAIN checkpoints[t] : checkpoints'[t][i] = checkpoints[t][i]
        /\ \A u \in Threads \ {t} : checkpoints'[u] = checkpoints[u]
        /\ \A g \in Mergers \ {h} : saving'[g] = saving[g]
        /\ saving'[h] = saving[h] \union {done, last}
        /\ HasLatest(t)' /\ \A i \in DOMAIN checkpoints'[t] : RowFits(t, i)'
    BY <1>1 DEF Stepped
  <1>4. /\ LoopFits(h)
        /\ loop'[h].thread = t /\ loop'[h].on = on /\ loop'[h].at = "exit"
        /\ loop'[h] # Off
    BY <1>2, Handlers DEF Loops, Off
  <1>5. OnlyTouches(h)
    BY <1>2, <1>3, <1>4 DEF OnlyTouches
  <1>6. LoopFits(h)'
    BY <1>2, <1>3, <1>4 DEF LoopFits
  <1>7. ASSUME NEW s \in saving'[h] PROVE SaveFits(h, s)'
    <2>1. CASE s \in saving[h]
      <3>1. SaveFits(h, s)
        BY <2>1 DEF StatesFit, SavesFit
      <3> QED
        BY <1>3, <1>4, <3>1 DEF SaveFits
    <2>2. CASE s = done
      BY <1>2, <1>3, <1>4, <2>2 DEF SaveFits
    <2>3. CASE s = last
      BY <1>3, <1>4, <2>3 DEF SaveFits
    <2> QED
      BY <1>3, <1>7, <2>1, <2>2, <2>3
  <1> QED
    BY <1>2, <1>3, <1>5, <1>6, <1>7, OwnSuffices

\* The handler only goes to another place of its task, and may leave its merge.
LEMMA PlaceFits ==
    ASSUME StatesFit, NEW h \in Mergers, NEW to \in Loops, loop[h] # Off,
           loop' = [loop EXCEPT ![h] = to],
           to.thread = loop[h].thread, to.on = loop[h].on, to.said = loop[h].said,
           UNCHANGED <<checkpoints, saving, options, merges, marks>>,
           \/ to.at = "exit"
           \/ to.at = "merge" /\ loop[h].at = "apply" /\ loop[h].said # Decline
    PROVE  StatesFit' /\ OnlyTouches(h)
  <1>. PICK t \in Threads : t = loop[h].thread
    BY Handlers
  <1>1. LoopFits(h) /\ to # Off
    BY Handlers
  <1>2. ClarificationTypeOK'
    BY DEF StatesFit, ClarificationTypeOK, CheckpointTypeOK
  <1>3. loop'[h] = to /\ \A g \in Mergers \ {h} : loop'[g] = loop[g]
    BY DEF StatesFit, ClarificationTypeOK
  <1>4. OnlyTouches(h)
    BY <1>1, <1>3 DEF OnlyTouches
  <1>5. LoopFits(h)'
    BY <1>1, <1>3 DEF LoopFits
  <1>6. \A s \in saving'[h] : SaveFits(h, s)'
    BY <1>1, <1>3 DEF StatesFit, SavesFit, SaveFits
  <1> QED
    BY <1>2, <1>4, <1>5, <1>6, OwnSuffices, RowsStay

\* Finding the row to keep, and giving up.
Moved(h) ==
    /\ loop[h] # Off /\ loop[h] \in Loops /\ loop[h].at \in {"apply", "merge"}
    /\ UNCHANGED <<checkpoints, saving, options, merges, marks>>
    /\ loop'[h] \in Loops /\ loop'[h].at \in {"merge", "exit"}
    /\ loop'[h].thread = loop[h].thread /\ loop'[h].on = loop[h].on
    /\ loop'[h].said = loop[h].said /\ loop'[h].did = loop[h].did
    /\ loop'[h] # Off

LEMMA MovesFit ==
    ASSUME EntityTypeOK, StatesFit, NEW h \in Mergers, Match(h) \/ ApplyFails(h)
    PROVE  StatesFit' /\ OnlyTouches(h) /\ Moved(h)
  <1>1. loop[h] # Off /\ loop[h] \in Loops /\ loop[h].at \in {"apply", "merge"}
    BY Handlers DEF Match, ApplyFails
  <1>2. loop \in [Mergers -> Loops \union {Off}]
    BY DEF StatesFit, ClarificationTypeOK
  <1>3. CASE Match(h)
    <2>. PICK i \in Found(loop[h].said) :
            loop' = [loop EXCEPT ![h] = [loop[h] EXCEPT !.at = "merge", !.keep = i]]
      BY <1>3 DEF Match, Moves
    <2>. PICK to : to = [loop[h] EXCEPT !.at = "merge", !.keep = i]
      OBVIOUS
    <2>1. i \in Ids
      BY DEF Found, Answers, Live, EntityTypeOK
    <2>2. loop[h].said # Decline
      BY DEF Found
    <2>3. /\ to \in Loops /\ to.thread = loop[h].thread /\ to.on = loop[h].on
          /\ to.said = loop[h].said /\ to.did = loop[h].did /\ to.at = "merge"
      BY <1>1, <2>1 DEF Loops
    <2>4. /\ UNCHANGED <<checkpoints, saving, options, merges, marks>>
          /\ loop[h].at = "apply"
      BY <1>3 DEF Match
    <2>5. StatesFit' /\ OnlyTouches(h)
      BY <1>1, <2>2, <2>3, <2>4, PlaceFits
    <2>6. Moved(h)
      BY <1>1, <1>2, <2>3, <2>4, Handlers DEF Moved
    <2> QED
      BY <2>5, <2>6
  <1>4. CASE ApplyFails(h)
    <2>. PICK to : to = [loop[h] EXCEPT !.at = "exit"]
      OBVIOUS
    <2>1. /\ UNCHANGED <<checkpoints, saving, options, merges, marks>>
          /\ loop' = [loop EXCEPT ![h] = to]
      BY <1>4 DEF ApplyFails, Moves
    <2>2. /\ to \in Loops /\ to.thread = loop[h].thread /\ to.on = loop[h].on
          /\ to.said = loop[h].said /\ to.did = loop[h].did /\ to.at = "exit"
      BY <1>1 DEF Loops
    <2>3. StatesFit' /\ OnlyTouches(h)
      BY <1>1, <2>1, <2>2, PlaceFits
    <2>4. Moved(h)
      BY <1>1, <1>2, <2>1, <2>2, Handlers DEF Moved
    <2> QED
      BY <2>3, <2>4
  <1> QED
    BY <1>3, <1>4
LEMMA SaveFitsAll ==
    ASSUME StatesFit, NEW h \in Mergers, SaveInBackground(h)
    PROVE  StatesFit' /\ OnlyTouches(h)
  <1>1. Save(h) /\ UNCHANGED <<options, loop, merges, marks>>
    BY DEF SaveInBackground
  <1>2. PICK s \in saving[h] : Landed(h, s)
    BY <1>1, SaveDoes
  <1> USE DEF Landed
  <1>. PICK t \in Threads : t = s.thread
    BY <1>2
  <1>3. /\ saving \in [Mergers -> SUBSET Saves]
        /\ loop[h] # Off /\ LoopFits(h) /\ SaveFits(h, s)
        /\ RowFits(t, s.at) /\ t = loop[h].thread
    BY <1>2, Handlers DEF StatesFit, ClarificationTypeOK, CheckpointTypeOK, SavesFit, RowsFit
  <1>4. /\ saving' \in [Mergers -> SUBSET Saves]
        /\ saving'[h] = saving[h] \ {s}
        /\ \A g \in Mergers \ {h} : saving'[g] = saving[g]
    BY <1>2, <1>3
  <1>5. ClarificationTypeOK'
    BY <1>1, <1>2, <1>4 DEF StatesFit, ClarificationTypeOK, CheckpointTypeOK
  <1>6. \A i \in DOMAIN checkpoints[t] :
           /\ i \in DOMAIN checkpoints'[t]
           /\ checkpoints'[t][i].node = checkpoints[t][i].node
           /\ checkpoints'[t][i].value = checkpoints[t][i].value
    BY <1>2
  <1>7. OnlyTouches(h)
    BY <1>1, <1>2, <1>3, <1>4, <1>6 DEF OnlyTouches
  <1>8. ASSUME NEW i \in DOMAIN checkpoints'[t] PROVE RowFits(t, i)'
    <2>1. i \in DOMAIN checkpoints[t] /\ RowFits(t, i)
      BY <1>2, <1>8 DEF StatesFit, RowsFit
    <2>2. CASE i # s.at
      BY <1>2, <2>1, <2>2 DEF RowFits
    <2>3. CASE i = s.at
      <3> DEFINE old == checkpoints[t][i]
                 new == checkpoints'[t][i]
      <3>1. new.node = old.node /\ new.value = old.value
        BY <1>2, <2>3
      <3>2. \/ new.wrote = old.wrote
            \/ old.node = "ask" /\ new.wrote \in Replies
            \/ old.node = "apply" /\ new.wrote = "done"
        BY <1>2, <1>3, <2>3 DEF SaveFits
      <3> HIDE DEF old, new
      <3> QED
        BY <2>1, <3>1, <3>2 DEF RowFits, old, new
    <2> QED
      BY <2>2, <2>3
  <1>9. HasLatest(t)'
    <2>1. Saved(t)' = IF s.what = "checkpoint" THEN Saved(t) \union {s.at} ELSE Saved(t)
      <3>1. \A i \in DOMAIN checkpoints[t] :
               checkpoints'[t][i].saved
               <=> checkpoints[t][i].saved \/ (i = s.at /\ s.what = "checkpoint")
        BY <1>2
      <3> QED
        BY <1>2, <3>1 DEF Saved
    <2>2. \A i \in Saved(t) \union {s.at} : i \in Nat
      <3>1. DOMAIN checkpoints[t] = 1..Len(checkpoints[t]) /\ Len(checkpoints[t]) \in Nat
        BY LenProperties DEF StatesFit, ClarificationTypeOK, CheckpointTypeOK
      <3> QED
        BY <1>2, <3>1 DEF Saved
    <2>3. Saved(t) # {} => \E i \in Saved(t) : \A j \in Saved(t) : j <= i
      BY DEF StatesFit, LatestExists, HasLatest
    <2>4. \E i \in Saved(t) \union {s.at} : \A j \in Saved(t) \union {s.at} : j <= i
      <3>1. CASE Saved(t) = {}
        BY <2>2, <3>1
      <3>2. ASSUME NEW i \in Saved(t), \A j \in Saved(t) : j <= i
            PROVE  \E k \in Saved(t) \union {s.at} : \A j \in Saved(t) \union {s.at} : j <= k
        <4>1. CASE s.at <= i
          BY <2>2, <3>2, <4>1
        <4>2. CASE ~(s.at <= i)
          BY <2>2, <3>2, <4>2
        <4> QED
          BY <4>1, <4>2
      <3> QED
        BY <2>3, <3>1, <3>2
    <2> QED
      BY <2>1, <2>3, <2>4 DEF HasLatest
  <1>10. LoopFits(h)'
    BY <1>1, <1>3, <1>6 DEF LoopFits
  <1>11. ASSUME NEW r \in saving'[h] PROVE SaveFits(h, r)'
    <2>1. r \in saving[h] /\ SaveFits(h, r)
      BY <1>4, <1>11 DEF StatesFit, SavesFit
    <2> QED
      BY <1>1, <1>3, <1>6, <2>1 DEF SaveFits
  <1> QED
    BY <1>3, <1>5, <1>7, <1>8, <1>9, <1>10, <1>11, OwnSuffices

\* A handler that returns or is cut leaves nothing in the background.
LEMMA LeaveFits ==
    ASSUME StatesFit, NEW h \in Mergers, loop[h] # Off,
           Moves(h, Off), LoseSaves(h), UNCHANGED <<options, merges>>,
           marks' \in [Threads -> SUBSET Marks],
           \A u \in Threads : marks[u] \subseteq marks'[u]
    PROVE  StatesFit' /\ OnlyTouches(h) /\ saving'[h] = {} /\ loop'[h] = Off
  <1>. PICK t \in Threads : t = loop[h].thread
    BY Handlers
  <1>1. /\ loop' = [loop EXCEPT ![h] = Off] /\ saving' = [saving EXCEPT ![h] = {}]
        /\ checkpoints' = checkpoints
    BY DEF Moves, LoseSaves
  <1>2. ClarificationTypeOK'
    BY <1>1 DEF StatesFit, ClarificationTypeOK, CheckpointTypeOK
  <1>3. /\ loop'[h] = Off /\ saving'[h] = {}
        /\ \A g \in Mergers \ {h} : loop'[g] = loop[g] /\ saving'[g] = saving[g]
    BY <1>1 DEF StatesFit, ClarificationTypeOK, CheckpointTypeOK
  <1>4. OnlyTouches(h)
    BY <1>1, <1>3 DEF OnlyTouches
  <1> QED
    BY <1>1, <1>2, <1>3, <1>4, OwnSuffices, RowsStay

LEMMA ReturnFits ==
    ASSUME StatesFit, NEW h \in Mergers, Return(h)
    PROVE  StatesFit' /\ OnlyTouches(h)
  <1>1. loop[h] # Off
    BY Handlers DEF Return
  <1>2. marks' \in [Threads -> SUBSET Marks] /\ marks' = marks
    BY DEF Return, StatesFit, ClarificationTypeOK
  <1> QED
    BY <1>1, <1>2, LeaveFits DEF Return

LEMMA CutFits ==
    ASSUME StatesFit, NEW h \in Mergers, Cut(h)
    PROVE  StatesFit' /\ OnlyTouches(h)
  <1>1. loop[h] # Off /\ Moves(h, Off) /\ LoseSaves(h) /\ UNCHANGED <<options, merges>>
    BY DEF Cut
  <1>2. marks' = [marks EXCEPT ![loop[h].thread] =
           IF loop[h].did /\ ~EndIsSaved(loop[h].thread) THEN @ \union {"torn"} ELSE @]
    BY DEF Cut
  <1>3. /\ marks' \in [Threads -> SUBSET Marks]
        /\ \A u \in Threads : marks[u] \subseteq marks'[u]
    BY <1>2 DEF StatesFit, ClarificationTypeOK, Marks
  <1> QED
    BY <1>1, <1>3, LeaveFits

\* Every step of a handler that is running, but for what it does to entities.
Works(h) ==
    \/ TakeAnswer(h) \/ Settles(h, FALSE) \/ Settles(h, TRUE) \/ Match(h)
    \/ ApplyFails(h) \/ SaveInBackground(h) \/ Return(h) \/ Cut(h)

LEMMA StepsFit ==
    ASSUME EntityTypeOK, StatesFit, NEW h \in Mergers, Works(h)
    PROVE  StatesFit' /\ OnlyTouches(h)
  BY TakeAnswerFits, SettlesFits, MovesFit, SaveFitsAll, ReturnFits, CutFits DEF Works

\* What a step is.
Quiet ==
    \/ UNCHANGED clarificationVars \/ Elsewhere
    \/ \E h \in Mergers : BeginMerge(h) \/ MergeAliases(h)

LEMMA StepsAre ==
    ASSUME [ClarificationNext]_clarificationVars
    PROVE  \/ Quiet /\ UNCHANGED <<checkpoints, saving, options, loop, merges, marks>>
           \/ \E h \in Mergers : Works(h) \/ \E t \in Threads : Ask(h, t) \/ Resume(h, t)
  BY DEF ClarificationNext, Quiet, Works, Settles, Elsewhere, BeginMerge, MergeAliases,
         clarificationVars

LEMMA AlwaysFit ==
    ASSUME EntityTypeOK, StatesFit, [ClarificationNext]_clarificationVars
    PROVE  StatesFit'
  BY StepsAre, QuietFits, AskFits, ResumeFits, StepsFit

-----------------------------------------------------------------------------
\* Races are marked

LEMMA RacesStayMarked ==
    ASSUME EntityTypeOK, StatesFit, RacesMarked, [ClarificationNext]_clarificationVars
    PROVE  RacesMarked'
  <1>1. ASSUME UNCHANGED <<loop, marks>> PROVE RacesMarked'
    BY <1>1 DEF RacesMarked
  <1>2. ASSUME NEW h \in Mergers, OnlyTouches(h) PROVE RacesMarked'
    <2>1. \A g \in Mergers : loop'[g] # Off =>
             /\ loop[g] # Off /\ loop'[g].thread = loop[g].thread
             /\ loop[g].thread \in Threads
      BY <1>2, Handlers DEF OnlyTouches
    <2> QED
      BY <1>2, <2>1 DEF RacesMarked, OnlyTouches
  <1>3. ASSUME NEW h \in Mergers, NEW t \in Threads, Resume(h, t) PROVE RacesMarked'
    <2>1. /\ \A g \in Mergers \ {h} : loop'[g] = loop[g]
          /\ loop'[h].thread = t /\ loop[h] = Off
      BY <1>3 DEF Resume, Moves, Loop, StatesFit, ClarificationTypeOK
    <2>2. /\ marks' = [marks EXCEPT ![t] =
                IF RunningOn(t) = {} THEN @ ELSE @ \union {"raced"}]
          /\ marks \in [Threads -> SUBSET Marks]
      BY <1>3 DEF Resume, StatesFit, ClarificationTypeOK
    <2>3. \A g \in Mergers : loop[g] # Off /\ loop[g].thread = t => "raced" \in marks'[t]
      BY <2>2 DEF RunningOn
    <2>4. \A u \in Threads : marks[u] \subseteq marks'[u]
      BY <2>2
    <2>5. \A g \in Mergers : loop[g] # Off => loop[g].thread \in Threads
      BY Handlers
    <2> QED
      BY <2>1, <2>3, <2>4, <2>5 DEF RacesMarked
  <1> QED
    BY <1>1, <1>2, <1>3, StepsAre, StepsFit DEF Ask
-----------------------------------------------------------------------------
\* One row is merged away

\* What is saved of a thread depends on its own rows.
LEMMA SavedStays ==
    ASSUME NEW t \in Threads, checkpoints'[t] = checkpoints[t]
    PROVE  /\ Saved(t)' = Saved(t) /\ Latest(t)' = Latest(t)
           /\ EndIsSaved(t)' <=> EndIsSaved(t)
           /\ \A i : Said(t, i)' = Said(t, i)
  <1>1. Saved(t)' = Saved(t)
    BY DEF Saved
  <1>2. Latest(t)' = Latest(t)
    BY <1>1 DEF Latest
  <1> QED
    BY <1>1, <1>2 DEF EndIsSaved, Said, IsSettled

\* A saved end is the newest checkpoint when it is the last one.
LEMMA SavedEndTells ==
    ASSUME StatesFit, NEW t \in Threads,
           Len(checkpoints[t]) # 0,
           checkpoints[t][Len(checkpoints[t])].node = "end",
           checkpoints[t][Len(checkpoints[t])].saved
    PROVE  EndIsSaved(t)
  <1> DEFINE last == Len(checkpoints[t])
  <1>1. /\ DOMAIN checkpoints[t] = 1..last /\ last \in Nat
        /\ Saved(t) \subseteq DOMAIN checkpoints[t]
        /\ \A i \in Saved(t) : (\A j \in Saved(t) : j <= i) => Latest(t) = i
    BY LatestDoes DEF StatesFit, ClarificationTypeOK
  <1>2. last \in Saved(t)
    BY <1>1 DEF Saved
  <1>3. Latest(t) = last
    BY <1>1, <1>2
  <1> QED
    BY <1>3 DEF EndIsSaved, IsSettled

\* Other threads are not touched.
LEMMA OthersOnce ==
    ASSUME StatesFit, NEW h \in Mergers, OnlyTouches(h),
           NEW u \in Threads, loop[h].thread # u
    PROVE  Once(u) => Once(u)'
  <1>1. /\ checkpoints'[u] = checkpoints[u] /\ merges'[u] = merges[u]
        /\ marks[u] \subseteq marks'[u]
    BY DEF OnlyTouches
  <1>2. \A g \in Mergers :
           /\ g \in RunningOn(u)' <=> g \in RunningOn(u)
           /\ g \in RunningOn(u) => loop'[g] = loop[g] /\ saving'[g] = saving[g]
    BY DEF RunningOn, OnlyTouches
  <1>3. RunningOn(u)' = RunningOn(u)
    BY <1>2 DEF RunningOn
  <1>4. EndIsSaved(u)' <=> EndIsSaved(u)
    BY <1>1, SavedStays
  <1>5. ASSUME NEW g \in RunningOn(u), EndIsComing(g) PROVE EndIsComing(g)'
    <2>1. loop'[g] = loop[g] /\ saving'[g] = saving[g] /\ loop[g].thread = u
      BY <1>2 DEF RunningOn
    <2> QED
      BY <1>1, <1>5, <2>1 DEF EndIsComing
  <1>6. RunningOn(u) \subseteq Mergers
    BY DEF RunningOn
  <1> QED
    BY <1>1, <1>2, <1>3, <1>4, <1>5, <1>6 DEF Once

\* The only handler of an unraced thread.
LEMMA OnlyHandler ==
    ASSUME RacesMarked, NEW h \in Mergers, loop[h] # Off,
           "raced" \notin marks[loop[h].thread]
    PROVE  RunningOn(loop[h].thread) = {h}
  BY DEF RacesMarked, RunningOn

\* The handler's own thread, for a step after which the handler is off.
LEMMA LeavingOnce ==
    ASSUME NEW t \in Threads, RunningOn(t)' = {}, merges'[t] \in Nat,
           marks'[t] = {} =>
              \/ merges'[t] = 0
              \/ merges'[t] = 1 /\ EndIsSaved(t)'
    PROVE  Once(t)'
  BY DEF Once

\* And for one after which it goes on alone.
LEMMA GoingOnOnce ==
    ASSUME NEW t \in Threads, NEW h \in Mergers, RunningOn(t)' = {h},
           \/ merges'[t] = 0 /\ ~loop'[h].did
           \/ merges'[t] = 1 /\ loop'[h].did /\ EndIsComing(h)'
    PROVE  Once(t)'
  BY DEF Once

LEMMA OwnOnce ==
    ASSUME StatesFit, StatesFit', RacesMarked, RacesMarked',
           NEW h \in Mergers, NEW t \in Threads, OnlyTouches(h),
           t = loop[h].thread, Once(t), EntityTypeOK, Works(h)
    PROVE  Once(t)'
  <1>1. SUFFICES ASSUME marks'[t] = {} PROVE Once(t)'
    BY DEF Once
  <1>2. /\ loop[h] # Off /\ marks[t] = {}
        /\ RunningOn(t) = {h}
        /\ ~loop[h].did => merges[t] = 0
        /\ loop[h].did => EndIsComing(h)
        /\ merges[t] \in Nat /\ merges[t] <= 1 /\ merges'[t] \in Nat
        /\ LoopFits(h) /\ loop[h] \in Loops
        /\ \A g \in Mergers : loop[g] # Off /\ loop[g].thread = t => g = h
    <2>1. loop[h] # Off /\ marks[t] = {}
      BY <1>1 DEF OnlyTouches
    <2>2. RunningOn(t) = {h}
      BY <2>1, OnlyHandler
    <2> QED
      BY <2>1, <2>2, Handlers DEF Once, StatesFit, ClarificationTypeOK, RunningOn
  <1>3. loop'[h] = Off => RunningOn(t)' = {}
    BY <1>2 DEF OnlyTouches, RunningOn
  <1>4. loop'[h] # Off => RunningOn(t)' = {h}
    BY <1>2 DEF OnlyTouches, RunningOn
  <1>5. loop \in [Mergers -> Loops \union {Off}]
    BY DEF StatesFit, ClarificationTypeOK
  <1>6. CASE TakeAnswer(h)
    <2>1. loop[h].at = "ask" /\ merges' = merges
      BY <1>6 DEF TakeAnswer
    <2>2. merges[t] = 0
      BY <1>2, <2>1 DEF EndIsComing
    <2>3. ~loop'[h].did /\ loop'[h].at = "apply"
      BY <1>5, <1>6 DEF TakeAnswer, Moves, Loop
    <2>4. loop'[h] # Off
      BY <2>3 DEF Off
    <2> QED
      BY <1>4, <2>1, <2>2, <2>3, <2>4, GoingOnOnce
  <1>7. ASSUME NEW did \in BOOLEAN, Settles(h, did) PROVE Once(t)'
    <2> PICK new : new = Len(checkpoints[t]) + 1
      OBVIOUS
    <2>1. Concluded(h, t, did)
      BY <1>7, SettlesDoes
    <2>2. /\ loop[h].at \in {"apply", "merge"}
          /\ merges'[t] = IF did THEN merges[t] + 1 ELSE merges[t]
          /\ loop'[h] = [loop[h] EXCEPT !.at = "exit", !.did = did]
          /\ Stepped(h, t, loop[h].on, "done", "end", None)
      BY <2>1 DEF Concluded
    <2>3. /\ Len(checkpoints'[t]) = new /\ new # 0
          /\ checkpoints'[t][new] = NewCheckpoint("end", None, FALSE)
          /\ [thread |-> t, at |-> new, what |-> "checkpoint", value |-> None]
                \in saving'[h]
      BY <2>2 DEF Stepped
    <2>4. merges[t] = 0
      BY <1>2, <2>2 DEF EndIsComing
    <2>5. /\ loop'[h].at = "exit" /\ loop'[h].did = did /\ loop'[h].thread = t
          /\ loop'[h] # Off
      BY <1>2, <2>2 DEF Loops, Off
    <2>6. EndIsComing(h)'
      BY <2>3, <2>5 DEF EndIsComing, NewCheckpoint
    <2>7. merges'[t] = IF did THEN 1 ELSE 0
      BY <2>2, <2>4
    <2>8. RunningOn(t)' = {h}
      BY <1>4, <2>5
    <2> QED
      BY <2>5, <2>6, <2>7, <2>8, GoingOnOnce
  <1>8. CASE Match(h) \/ ApplyFails(h)
    <2>1. Moved(h)
      BY <1>8, MovesFit
    <2>2. merges[t] = 0 /\ ~loop[h].did
      BY <1>2, <2>1 DEF EndIsComing, Moved
    <2> QED
      BY <1>4, <2>1, <2>2, GoingOnOnce DEF Moved
  <1>9. CASE SaveInBackground(h)
    <2>1. Save(h) /\ UNCHANGED <<loop, merges>>
      BY <1>9 DEF SaveInBackground
    <2>. PICK s \in saving[h] : Landed(h, s)
      BY <2>1, SaveDoes
    <2>2. /\ s.thread = t /\ s.at \in DOMAIN checkpoints[t]
          /\ saving' = [saving EXCEPT ![h] = @ \ {s}]
          /\ Len(checkpoints'[t]) = Len(checkpoints[t])
          /\ \A i \in DOMAIN checkpoints[t] : i # s.at =>
                checkpoints'[t][i] = checkpoints[t][i]
          /\ checkpoints'[t][s.at].node = checkpoints[t][s.at].node
          /\ checkpoints'[t][s.at].saved
                = (checkpoints[t][s.at].saved \/ s.what = "checkpoint")
      BY DEF Landed
    <2>3. CASE ~loop[h].did
      BY <1>2, <1>4, <2>1, <2>3, GoingOnOnce
    <2>4. CASE loop[h].did
      <3> DEFINE last == Len(checkpoints[t])
      <3>1. /\ loop[h].at = "exit" /\ last # 0 /\ checkpoints[t][last].node = "end"
            /\ \/ checkpoints[t][last].saved
               \/ \E r \in saving[h] : r.what = "checkpoint" /\ r.at = last
        BY <1>2, <2>4 DEF EndIsComing
      <3>2. last \in DOMAIN checkpoints[t]
        BY <3>1, LatestDoes DEF StatesFit, ClarificationTypeOK
      <3>3. saving'[h] = saving[h] \ {s}
        BY <2>2 DEF StatesFit, ClarificationTypeOK, CheckpointTypeOK
      <3>4. checkpoints'[t][last].node = "end"
        BY <2>2, <3>1, <3>2
      <3>5. \/ checkpoints'[t][last].saved
            \/ \E r \in saving'[h] : r.what = "checkpoint" /\ r.at = last
        <4>1. CASE s.at = last /\ s.what = "checkpoint"
          BY <2>2, <4>1
        <4>2. CASE ~(s.at = last /\ s.what = "checkpoint")
          BY <2>2, <3>1, <3>2, <3>3, <4>2
        <4> QED
          BY <4>1, <4>2
      <3>6. EndIsComing(h)'
        BY <2>1, <2>2, <3>1, <3>4, <3>5 DEF EndIsComing
      <3>7. merges[t] # 0 => merges[t] = 1
        BY <1>2
      <3>8. CASE merges[t] = 0
        BY <1>1, <1>4, <1>2, <2>1, <2>4, <3>6, <3>8 DEF Once
      <3> QED
        BY <1>2, <1>4, <2>1, <2>4, <3>6, <3>7, <3>8, GoingOnOnce
    <2> QED
      BY <2>3, <2>4
  <1>10. CASE Return(h)
    <2>1. /\ saving[h] = {} /\ loop'[h] = Off /\ merges' = merges
          /\ checkpoints' = checkpoints
      BY <1>5, <1>10 DEF Return, AllSaved, Moves, LoseSaves
    <2>2. loop[h].did => EndIsSaved(t)
      BY <1>2, <2>1, SavedEndTells DEF EndIsComing
    <2>3. EndIsSaved(t)' <=> EndIsSaved(t)
      BY <2>1, SavedStays
    <2> QED
      BY <1>2, <1>3, <2>1, <2>2, <2>3, LeavingOnce
  <1>11. CASE Cut(h)
    <2>1. /\ loop'[h] = Off /\ merges' = merges /\ checkpoints' = checkpoints
          /\ marks' = [marks EXCEPT ![t] =
                IF loop[h].did /\ ~EndIsSaved(t) THEN @ \union {"torn"} ELSE @]
      BY <1>5, <1>11 DEF Cut, Moves, LoseSaves
    <2>2. loop[h].did => EndIsSaved(t)
      BY <1>1, <2>1 DEF StatesFit, ClarificationTypeOK
    <2>3. EndIsSaved(t)' <=> EndIsSaved(t)
      BY <2>1, SavedStays
    <2> QED
      BY <1>2, <1>3, <2>1, <2>2, <2>3, LeavingOnce
  <1> QED
    BY <1>6, <1>7, <1>8, <1>9, <1>10, <1>11 DEF Works

\* A handler that starts on a thread: what it finds there, and what it leaves
\* alone.
StartsOn(h, t) ==
    /\ loop[h] = Off /\ UNCHANGED <<checkpoints, saving, merges>>
    /\ loop'[h] \in Loops /\ loop'[h].thread = t /\ ~loop'[h].did /\ loop'[h] # Off
    /\ \A g \in Mergers \ {h} : loop'[g] = loop[g]
    /\ \A u \in Threads \ {t} : marks'[u] = marks[u]
    /\ \A u \in Threads : marks[u] \subseteq marks'[u]

LEMMA ResumeStarts ==
    ASSUME StatesFit, StatesFit', NEW h \in Mergers, NEW t \in Threads, Resume(h, t)
    PROVE  LET on == Latest(t)
               row == checkpoints[t][on] IN
           /\ StartsOn(h, t)
           /\ "raced" \notin marks'[t] => RunningOn(t) = {}
           /\ ~EndIsSaved(t) /\ on \in Saved(t) /\ on # 0
           /\ \A j \in Saved(t) : j <= on
           /\ \/ row.node = "ask" /\ row.wrote = None
              \/ /\ row.node = "ask" /\ row.wrote \in Replies
                 /\ loop'[h].said = row.wrote
              \/ /\ row.node = "apply" /\ row.value \in Replies
                 /\ loop'[h].said = row.value
  <1> DEFINE on == Latest(t)
             row == checkpoints[t][on]
  <1>1. /\ loop[h] = Off /\ on # 0 /\ ~IsSettled(row)
        /\ UNCHANGED <<checkpoints, saving, options, merges>>
        /\ marks' = [marks EXCEPT ![t] =
                        IF RunningOn(t) = {} THEN @ ELSE @ \union {"raced"}]
        /\ marks \in [Threads -> SUBSET Marks]
    BY DEF Resume, StatesFit, ClarificationTypeOK
  <1>2. PICK reply \in Replies :
           loop' = [loop EXCEPT ![h] =
              IF row.node = "ask" THEN Loop("ask", t, on, Answered(row, reply))
              ELSE Loop("apply", t, on, row.value)]
    BY DEF Resume, Moves
  <1>3. /\ on \in Saved(t) /\ on \in DOMAIN checkpoints[t] /\ RowFits(t, on)
        /\ \A j \in Saved(t) : j <= on
    BY <1>1, LatestDoes DEF StatesFit, RowsFit, ClarificationTypeOK
  <1>4. ~EndIsSaved(t)
    BY <1>1 DEF EndIsSaved
  <1> HIDE DEF on
  <1>5. /\ \A g \in Mergers \ {h} : loop'[g] = loop[g]
        /\ loop'[h].thread = t /\ ~loop'[h].did
        /\ loop'[h].at \in {"ask", "apply"}
        /\ loop'[h].said = IF row.node = "ask" THEN Answered(row, reply) ELSE row.value
    BY <1>2 DEF Loop, StatesFit, ClarificationTypeOK
  <1>6. loop'[h] # Off
    BY <1>5 DEF Off
  <1>7. loop'[h] \in Loops
    BY <1>6 DEF StatesFit, ClarificationTypeOK
  <1>8. \/ row.node = "ask" /\ row.wrote = None
        \/ /\ row.node = "ask" /\ row.wrote \in Replies
           /\ loop'[h].said = row.wrote
        \/ /\ row.node = "apply" /\ row.value \in Replies
           /\ loop'[h].said = row.value
    BY <1>1, <1>3, <1>5, WordsDiffer DEF RowFits, IsSettled, Answered
  <1>9. StartsOn(h, t)
    BY <1>1, <1>5, <1>6, <1>7 DEF StartsOn
  <1>10. "raced" \notin marks'[t] => RunningOn(t) = {}
    BY <1>1
  <1> QED
    BY <1>1, <1>3, <1>4, <1>8, <1>9, <1>10 DEF on

\* What is said and done of other threads, and of a new one, stays as it is.
LEMMA StartElsewhere ==
    ASSUME StatesFit, NEW h \in Mergers, NEW t \in Threads, StartsOn(h, t),
           NEW u \in Threads \ {t}
    PROVE  /\ Once(u) => Once(u)'
           /\ OneAnswer(u) => OneAnswer(u)'
           /\ Agreed(u) => Agreed(u)'
  <1>1. /\ RunningOn(u)' = RunningOn(u) /\ RunningOn(u) \subseteq Mergers \ {h}
        /\ \A g \in RunningOn(u) : loop'[g] = loop[g]
    BY DEF StartsOn, RunningOn
  <1>2. checkpoints' = checkpoints /\ saving' = saving /\ merges' = merges
    BY DEF StartsOn
  <1>3. /\ EndIsSaved(u)' <=> EndIsSaved(u)
        /\ Saved(u)' = Saved(u) /\ \A i : Said(u, i)' = Said(u, i)
    BY <1>2, SavedStays
  <1>4. \A g \in RunningOn(u) : EndIsComing(g) => EndIsComing(g)'
    BY <1>1, <1>2 DEF EndIsComing
  <1>5. \A g \in RunningOn(u) : ActsOnAnswer(g) => ActsOnAnswer(g)'
    <2>1. \A g \in RunningOn(u) : loop[g].thread = u
      BY DEF RunningOn
    <2> QED
      BY <1>1, <1>2, <1>3, <2>1 DEF ActsOnAnswer
  <1>6. marks'[u] = marks[u]
    BY DEF StartsOn
  <1> QED
    BY <1>1, <1>2, <1>3, <1>4, <1>5, <1>6 DEF Once, OneAnswer, Agreed

\* A question that is asked says nothing yet, and the others stay as they are.
LEMMA AskElsewhere ==
    ASSUME StatesFit, NEW h \in Mergers, NEW t \in Threads, Ask(h, t),
           NEW u \in Threads
    PROVE  /\ Once(u) => Once(u)'
           /\ OneAnswer(u) => OneAnswer(u)'
           /\ Agreed(u) => Agreed(u)'
  <1>1. /\ \A g \in Mergers : loop[g] # Off => loop[g].thread # t
        /\ checkpoints[t] = <<>> /\ merges[t] = 0
        /\ checkpoints' = [checkpoints EXCEPT
              ![t] = Append(@, NewCheckpoint("ask", None, TRUE))]
        /\ \A v \in Threads \ {t} : checkpoints'[v] = checkpoints[v]
        /\ UNCHANGED <<saving, loop, merges, marks>>
    BY AskDoes
  <1>2. RunningOn(u)' = RunningOn(u) /\ (u = t => RunningOn(u) = {})
    BY <1>1 DEF RunningOn
  <1>3. CASE u # t
    <2>1. /\ Saved(u)' = Saved(u) /\ \A i : Said(u, i)' = Said(u, i)
          /\ EndIsSaved(u)' <=> EndIsSaved(u)
          /\ checkpoints'[u] = checkpoints[u]
      BY <1>1, <1>3, SavedStays
    <2>2. \A g \in RunningOn(u) : EndIsComing(g) => EndIsComing(g)'
      <3>1. \A g \in RunningOn(u) : loop[g].thread = u
        BY DEF RunningOn
      <3> QED
        BY <1>1, <2>1, <3>1 DEF EndIsComing
    <2>3. \A g \in RunningOn(u) : ActsOnAnswer(g) => ActsOnAnswer(g)'
      <3>1. \A g \in RunningOn(u) : loop[g].thread = u
        BY DEF RunningOn
      <3> QED
        BY <1>1, <2>1, <3>1 DEF ActsOnAnswer
    <2> QED
      BY <1>1, <1>2, <2>1, <2>2, <2>3 DEF Once, OneAnswer, Agreed
  <1>4. CASE u = t
    <2>1. checkpoints'[t] = <<NewCheckpoint("ask", None, TRUE)>>
      <3>1. checkpoints \in [Threads -> Seq(Checkpoint)]
        BY DEF StatesFit, ClarificationTypeOK, CheckpointTypeOK
      <3>2. checkpoints'[t] = Append(<<>>, NewCheckpoint("ask", None, TRUE))
        BY <1>1, <3>1
      <3> QED
        BY <3>2
    <2>2. ASSUME NEW i \in Saved(t)' PROVE Said(t, i)' = {}
      <3>1. i = 1
        <4>1. DOMAIN checkpoints'[t] = {1}
          BY <2>1
        <4> QED
          BY <4>1 DEF Saved
      <3>2. checkpoints'[t][1].wrote = None /\ checkpoints'[t][1].value = None
        BY <2>1 DEF NewCheckpoint
      <3> QED
        BY <3>1, <3>2, WordsDiffer DEF Said
    <2>3. RunningOn(t)' = {} /\ merges'[t] = 0
      BY <1>1, <1>2, <1>4
    <2> QED
      BY <1>4, <2>2, <2>3 DEF Once, OneAnswer, Agreed
  <1> QED
    BY <1>3, <1>4

\* And nothing that is said of a thread depends on the entities.
LEMMA QuietElsewhere ==
    ASSUME UNCHANGED <<checkpoints, saving, options, loop, merges, marks>>,
           NEW u \in Threads
    PROVE  /\ Once(u) => Once(u)'
           /\ OneAnswer(u) => OneAnswer(u)'
           /\ Agreed(u) => Agreed(u)'
  <1>1. /\ Saved(u)' = Saved(u) /\ \A i : Said(u, i)' = Said(u, i)
        /\ EndIsSaved(u)' <=> EndIsSaved(u)
    BY SavedStays
  <1>2. RunningOn(u)' = RunningOn(u) /\ \A g \in RunningOn(u) : loop[g].thread = u
    BY DEF RunningOn
  <1>3. \A g \in RunningOn(u) : /\ EndIsComing(g) => EndIsComing(g)'
                                /\ ActsOnAnswer(g) => ActsOnAnswer(g)'
    BY <1>1, <1>2 DEF EndIsComing, ActsOnAnswer
  <1> QED
    BY <1>1, <1>2, <1>3 DEF Once, OneAnswer, Agreed

LEMMA OnceAlways ==
    ASSUME EntityTypeOK, StatesFit, StatesFit', RacesMarked, RacesMarked',
           \A t \in Threads : Once(t), [ClarificationNext]_clarificationVars
    PROVE  \A t \in Threads : Once(t)'
  <1>1. ASSUME NEW h \in Mergers, Works(h) PROVE \A t \in Threads : Once(t)'
    <2>1. OnlyTouches(h)
      BY <1>1, StepsFit
    <2> QED
      BY <1>1, <2>1, OthersOnce, OwnOnce
  <1>2. ASSUME NEW h \in Mergers, NEW t \in Threads, Resume(h, t)
        PROVE  \A u \in Threads : Once(u)'
    <2>1. /\ StartsOn(h, t) /\ ~EndIsSaved(t)
          /\ "raced" \notin marks'[t] => RunningOn(t) = {}
      BY <1>2, ResumeStarts
    <2>2. marks[t] \subseteq marks'[t] /\ merges[t] \in Nat
      BY <2>1 DEF StartsOn, StatesFit, ClarificationTypeOK
    <2>3. marks'[t] = {} => RunningOn(t) = {} /\ merges[t] = 0
      BY <2>1, <2>2 DEF Once
    <2>4. RunningOn(t) = {} => RunningOn(t)' = {h}
      BY <2>1 DEF StartsOn, RunningOn
    <2>5. ~loop'[h].did /\ merges' = merges
      BY <2>1 DEF StartsOn
    <2>6. Once(t)'
      BY <2>3, <2>4, <2>5, GoingOnOnce DEF Once
    <2> QED
      BY <2>1, <2>6, StartElsewhere
  <1> QED
    BY <1>1, <1>2, StepsAre, AskElsewhere, QuietElsewhere
-----------------------------------------------------------------------------
\* The first answer holds

Agree(t) == \A i, j \in Saved(t) : \A a \in Said(t, i), b \in Said(t, j) : a = b

\* What a thread's checkpoints say when one was added.
LEMMA NewRowSays ==
    ASSUME NEW t, NEW new,
           DOMAIN checkpoints'[t] = DOMAIN checkpoints[t] \union {new},
           new \notin DOMAIN checkpoints[t],
           \A i \in DOMAIN checkpoints[t] : checkpoints'[t][i] = checkpoints[t][i]
    PROVE  /\ Saved(t) \subseteq DOMAIN checkpoints[t]
           /\ Saved(t)' \subseteq Saved(t) \union {new}
           /\ ~checkpoints'[t][new].saved => Saved(t)' = Saved(t)
           /\ \A i \in DOMAIN checkpoints[t] : Said(t, i)' = Said(t, i)
           /\ Said(t, new)' = {checkpoints'[t][new].wrote, checkpoints'[t][new].value}
                                 \intersect Replies
  BY DEF Saved, Said

LEMMA OthersAnswer ==
    ASSUME StatesFit, NEW h \in Mergers, OnlyTouches(h),
           NEW u \in Threads, loop[h].thread # u
    PROVE  OneAnswer(u) => OneAnswer(u)'
  <1>1. /\ checkpoints'[u] = checkpoints[u] /\ marks[u] \subseteq marks'[u]
    BY DEF OnlyTouches
  <1>2. /\ RunningOn(u)' = RunningOn(u)
        /\ \A g \in RunningOn(u) : /\ loop'[g] = loop[g] /\ saving'[g] = saving[g]
                                   /\ loop[g].thread = u
    BY DEF RunningOn, OnlyTouches
  <1>3. Saved(u)' = Saved(u) /\ \A i : Said(u, i)' = Said(u, i)
    BY <1>1, SavedStays
  <1>4. \A g \in RunningOn(u) : ActsOnAnswer(g) => ActsOnAnswer(g)'
    BY <1>2, <1>3 DEF ActsOnAnswer
  <1> QED
    BY <1>1, <1>2, <1>3, <1>4 DEF OneAnswer

\* The handler's own thread, when it goes on with the answer it acts on.
LEMMA GoingOnAnswer ==
    ASSUME NEW t \in Threads, NEW h \in Mergers, RunningOn(t)' = {h},
           Agree(t)', ActsOnAnswer(h)'
    PROVE  OneAnswer(t)'
  BY DEF OneAnswer, Agree

LEMMA OwnAnswer ==
    ASSUME StatesFit, StatesFit', RacesMarked, RacesMarked',
           NEW h \in Mergers, NEW t \in Threads, OnlyTouches(h),
           t = loop[h].thread, OneAnswer(t), EntityTypeOK, Works(h)
    PROVE  OneAnswer(t)'
  <1>1. SUFFICES ASSUME "raced" \notin marks'[t] PROVE OneAnswer(t)'
    BY DEF OneAnswer
  <1>2. /\ loop[h] # Off /\ RunningOn(t) = {h}
        /\ ActsOnAnswer(h)
        /\ Agree(t)
        /\ LoopFits(h) /\ loop[h] \in Loops
        /\ \A g \in Mergers : loop[g] # Off /\ loop[g].thread = t => g = h
    <2>1. loop[h] # Off /\ "raced" \notin marks[t]
      BY <1>1 DEF OnlyTouches
    <2>2. RunningOn(t) = {h}
      BY <2>1, OnlyHandler
    <2> QED
      BY <2>1, <2>2, Handlers DEF OneAnswer, RunningOn, Agree
  <1>3. loop'[h] = Off => RunningOn(t)' = {}
    BY <1>2 DEF OnlyTouches, RunningOn
  <1>4. loop'[h] # Off => RunningOn(t)' = {h}
    BY <1>2 DEF OnlyTouches, RunningOn
  <1>5. loop \in [Mergers -> Loops \union {Off}]
    BY DEF StatesFit, ClarificationTypeOK
  <1>6. CASE TakeAnswer(h)
    <2> PICK on, said, new : /\ on = loop[h].on /\ said = loop[h].said
                           /\ new = Len(checkpoints[t]) + 1
      OBVIOUS
    <2>1. /\ on \in DOMAIN checkpoints[t] /\ said \in Replies
          /\ Superstep(h, t, on, said, "apply", said)
          /\ loop'[h] = Loop("apply", t, new, said)
      BY <1>6, TakeAnswerDoes
    <2>2. Stepped(h, t, on, said, "apply", said)
      <3>1. /\ Superstep(h, t, on, said, "apply", said) /\ on \in DOMAIN checkpoints[t]
            /\ said \in Replies \union {"done"} /\ said \in Replies \union {None}
            /\ said \in Replies
        BY <2>1
      <3> QED
        BY <3>1, SuperstepDoes
    <2>3. /\ on # 0
          /\ DOMAIN checkpoints'[t] = DOMAIN checkpoints[t] \union {new}
          /\ checkpoints'[t][new] = NewCheckpoint("apply", said, FALSE)
          /\ \A i \in DOMAIN checkpoints[t] : checkpoints'[t][i] = checkpoints[t][i]
          /\ new \notin DOMAIN checkpoints[t]
          /\ saving'[h] = saving[h] \union
              {[thread |-> t, at |-> on, what |-> "writes", value |-> said],
               [thread |-> t, at |-> new, what |-> "checkpoint", value |-> None]}
      BY <2>2 DEF Stepped
    <2>4. ActsOnAnswer(h)
      BY <1>2, <2>3
    <2>5. /\ loop'[h].thread = t /\ loop'[h].said = said /\ loop'[h] # Off
          /\ \A s \in saving[h] : s.thread = t /\ s.at \in DOMAIN checkpoints[t]
      BY <1>2, <2>1 DEF Loop, Off, StatesFit, SavesFit, SaveFits
    <2>6. /\ Saved(t)' = Saved(t) /\ Saved(t) \subseteq DOMAIN checkpoints[t]
          /\ \A i \in DOMAIN checkpoints[t] : Said(t, i)' = Said(t, i)
          /\ Said(t, new)' \subseteq {said}
      <3>1. /\ ~checkpoints'[t][new].saved /\ checkpoints'[t][new].wrote = None
            /\ checkpoints'[t][new].value = said
        BY <2>3 DEF NewCheckpoint
      <3>2. Said(t, new)' = {None, said} \intersect Replies
        BY <3>1 DEF Said
      <3>3. Saved(t)' = Saved(t) /\ Saved(t) \subseteq DOMAIN checkpoints[t]
        BY <2>3, <3>1, NewRowSays
      <3>4. \A i \in DOMAIN checkpoints[t] : Said(t, i)' = Said(t, i)
        BY <2>3, NewRowSays
      <3> QED
        BY <3>2, <3>3, <3>4, WordsDiffer
    <2>7. \A i \in Saved(t)' : Said(t, i)' \subseteq {said}
      BY <2>4, <2>6 DEF ActsOnAnswer
    <2>8. ASSUME NEW s \in saving'[h]
          PROVE  /\ s.value \in {said, "done", None}
                 /\ s.what = "checkpoint" => Said(t, s.at)' \subseteq {said}
      <3>1. CASE s \in saving[h]
        BY <2>4, <2>5, <2>6, <3>1 DEF ActsOnAnswer
      <3>2. CASE s = [thread |-> t, at |-> on, what |-> "writes", value |-> said]
        BY <3>2
      <3>3. CASE s = [thread |-> t, at |-> new, what |-> "checkpoint", value |-> None]
        <4>1. s.at = new /\ s.value = None
          BY <3>3
        <4> QED
          BY <2>6, <4>1
      <3> QED
        BY <2>3, <2>8, <3>1, <3>2, <3>3
    <2>9. ActsOnAnswer(h)'
      BY <2>5, <2>7, <2>8 DEF ActsOnAnswer
    <2>10. Agree(t)'
      BY <2>7 DEF Agree
    <2> QED
      BY <1>4, <2>5, <2>9, <2>10, GoingOnAnswer
  <1>7. ASSUME NEW did \in BOOLEAN, Settles(h, did) PROVE OneAnswer(t)'
    <2> PICK on, said, new : /\ on = loop[h].on /\ said = loop[h].said
                             /\ new = Len(checkpoints[t]) + 1
      OBVIOUS
    <2>1. Concluded(h, t, did)
      BY <1>7, SettlesDoes
    <2>2. /\ loop'[h] = [loop[h] EXCEPT !.at = "exit", !.did = did]
          /\ Stepped(h, t, on, "done", "end", None)
      BY <2>1 DEF Concluded
    <2>3. /\ DOMAIN checkpoints'[t] = DOMAIN checkpoints[t] \union {new}
          /\ new \notin DOMAIN checkpoints[t]
          /\ \A i \in DOMAIN checkpoints[t] : checkpoints'[t][i] = checkpoints[t][i]
          /\ checkpoints'[t][new] = NewCheckpoint("end", None, FALSE)
          /\ saving'[h] = saving[h] \union
               {[thread |-> t, at |-> on, what |-> "writes", value |-> "done"],
                [thread |-> t, at |-> new, what |-> "checkpoint", value |-> None]}
      BY <2>2 DEF Stepped
    <2>4. /\ loop'[h].thread = t /\ loop'[h].said = said /\ loop'[h] # Off
          /\ \A s \in saving[h] : s.thread = t /\ s.at \in DOMAIN checkpoints[t]
      <3>1. loop'[h].thread = t /\ loop'[h].said = said /\ loop'[h] # Off
        BY <1>2, <2>2 DEF Loops, Off
      <3> QED
        BY <3>1 DEF StatesFit, SavesFit, SaveFits
    <2>5. /\ Saved(t)' = Saved(t) /\ Saved(t) \subseteq DOMAIN checkpoints[t]
          /\ \A i \in DOMAIN checkpoints[t] : Said(t, i)' = Said(t, i)
          /\ Said(t, new)' = {}
      <3>1. /\ checkpoints'[t][new].wrote = None /\ ~checkpoints'[t][new].saved
            /\ checkpoints'[t][new].value = None
        BY <2>3 DEF NewCheckpoint
      <3>2. Said(t, new)' = {}
        BY <3>1, WordsDiffer DEF Said
      <3> QED
        BY <2>3, <3>1, <3>2, NewRowSays
    <2>6. Agree(t)'
      BY <1>2, <2>5 DEF Agree
    <2>7. \A i \in Saved(t)' : Said(t, i)' \subseteq {said}
      BY <1>2, <2>5 DEF ActsOnAnswer
    <2>8. ASSUME NEW s \in saving'[h]
          PROVE  /\ s.value \in {said, "done", None}
                 /\ s.what = "checkpoint" => Said(t, s.at)' \subseteq {said}
      <3>1. CASE s \in saving[h]
        BY <1>2, <2>4, <2>5, <3>1 DEF ActsOnAnswer
      <3>2. CASE s = [thread |-> t, at |-> on, what |-> "writes", value |-> "done"]
        BY <3>2
      <3>3. CASE s = [thread |-> t, at |-> new, what |-> "checkpoint", value |-> None]
        <4>1. s.at = new /\ s.value = None
          BY <3>3
        <4> QED
          BY <2>5, <4>1
      <3> QED
        BY <2>3, <2>8, <3>1, <3>2, <3>3
    <2>9. ActsOnAnswer(h)'
      BY <2>4, <2>7, <2>8 DEF ActsOnAnswer
    <2> QED
      BY <1>4, <2>4, <2>6, <2>9, GoingOnAnswer
  <1>8. CASE Match(h) \/ ApplyFails(h)
    <2>1. /\ UNCHANGED <<checkpoints, saving>> /\ loop'[h].thread = t
          /\ loop'[h].said = loop[h].said /\ loop'[h] # Off
      <3>1. Moved(h)
        BY <1>8, MovesFit
      <3> QED
        BY <3>1 DEF Moved
    <2>2. Agree(t)' /\ ActsOnAnswer(h)'
      BY <1>2, <2>1, SavedStays DEF Agree, ActsOnAnswer
    <2> QED
      BY <1>4, <2>1, <2>2, GoingOnAnswer
  <1>9. CASE SaveInBackground(h)
    <2> DEFINE said == loop[h].said
    <2>1. Save(h) /\ loop' = loop
      BY <1>9 DEF SaveInBackground
    <2>. PICK s \in saving[h] : Landed(h, s)
      BY <2>1, SaveDoes
    <2>2. /\ s.thread = t /\ s.at \in DOMAIN checkpoints[t] /\ s \in Saves
          /\ saving' = [saving EXCEPT ![h] = @ \ {s}]
          /\ DOMAIN checkpoints'[t] = DOMAIN checkpoints[t]
          /\ \A i \in DOMAIN checkpoints[t] : i # s.at =>
                checkpoints'[t][i] = checkpoints[t][i]
          /\ checkpoints'[t][s.at].value = checkpoints[t][s.at].value
          /\ checkpoints'[t][s.at].saved
                = (checkpoints[t][s.at].saved \/ s.what = "checkpoint")
          /\ checkpoints'[t][s.at].wrote
                = IF s.what = "writes" /\ checkpoints[t][s.at].wrote = None
                  THEN s.value ELSE checkpoints[t][s.at].wrote
      BY DEF Landed
    <2>3. ActsOnAnswer(h)
      BY <1>2
    <2>4. s.value \in {said, "done", None}
      BY <2>3 DEF ActsOnAnswer
    <2>5. saving'[h] = saving[h] \ {s}
      BY <2>2 DEF StatesFit, ClarificationTypeOK, CheckpointTypeOK
    <2>6. \A i \in DOMAIN checkpoints[t] : Said(t, i)' \subseteq Said(t, i) \union {said}
      BY <2>2, <2>4, WordsDiffer DEF Said
    <2>7. \A i \in Saved(t)' : Said(t, i)' \subseteq {said}
      <3>1. ASSUME NEW i \in Saved(t)' PROVE Said(t, i) \subseteq {said}
        <4>1. i \in DOMAIN checkpoints[t]
          BY <2>2 DEF Saved
        <4>2. CASE i \in Saved(t)
          BY <2>3, <4>2 DEF ActsOnAnswer
        <4>3. CASE i \notin Saved(t)
          <5>1. i = s.at /\ s.what = "checkpoint"
            BY <2>2, <4>1, <4>3 DEF Saved
          <5> QED
            BY <2>3, <5>1 DEF ActsOnAnswer
        <4> QED
          BY <4>2, <4>3
      <3> QED
        BY <2>2, <2>6, <3>1 DEF Saved
    <2>8. ASSUME NEW r \in saving'[h]
          PROVE  /\ r.value \in {said, "done", None}
                 /\ r.what = "checkpoint" => Said(t, r.at)' \subseteq {said}
      <3>1. r \in saving[h] /\ r.at \in DOMAIN checkpoints[t]
        BY <1>2, <2>5, <2>8 DEF StatesFit, SavesFit, SaveFits
      <3> QED
        BY <2>3, <2>6, <3>1 DEF ActsOnAnswer
    <2>9. ActsOnAnswer(h)'
      BY <2>1, <2>7, <2>8 DEF ActsOnAnswer
    <2>10. Agree(t)'
      BY <2>7 DEF Agree
    <2> QED
      BY <1>2, <1>4, <2>1, <2>9, <2>10, GoingOnAnswer
  <1>10. CASE Return(h) \/ Cut(h)
    <2>1. loop'[h] = Off /\ checkpoints' = checkpoints
      BY <1>5, <1>10 DEF Return, Cut, Moves, LoseSaves
    <2>2. Agree(t)'
      BY <1>2, <2>1, SavedStays DEF Agree
    <2> QED
      BY <1>3, <2>1, <2>2 DEF OneAnswer, Agree
  <1> QED
    BY <1>6, <1>7, <1>8, <1>9, <1>10 DEF Works

LEMMA ResumeAnswer ==
    ASSUME StatesFit, StatesFit', NEW h \in Mergers, NEW t \in Threads,
           Resume(h, t), OneAnswer(t)
    PROVE  OneAnswer(t)'
  <1>1. SUFFICES ASSUME "raced" \notin marks'[t] PROVE OneAnswer(t)'
    BY DEF OneAnswer
  <1> PICK on, said : on = Latest(t) /\ said = loop'[h].said
    OBVIOUS
  <1>2. /\ StartsOn(h, t) /\ RunningOn(t) = {}
        /\ on \in Saved(t) /\ \A j \in Saved(t) : j <= on
        /\ \/ checkpoints[t][on].node = "ask" /\ checkpoints[t][on].wrote = None
           \/ /\ checkpoints[t][on].node = "ask"
              /\ checkpoints[t][on].wrote \in Replies /\ said = checkpoints[t][on].wrote
           \/ /\ checkpoints[t][on].node = "apply"
              /\ checkpoints[t][on].value \in Replies /\ said = checkpoints[t][on].value
    BY <1>1, ResumeStarts
  <1>3. /\ checkpoints' = checkpoints /\ saving' = saving /\ loop[h] = Off
        /\ loop'[h].thread = t /\ "raced" \notin marks[t] /\ loop'[h] # Off
        /\ \A g \in Mergers \ {h} : loop'[g] = loop[g]
    BY <1>1, <1>2 DEF StartsOn
  <1>4. Agree(t) /\ saving[h] = {}
    BY <1>3 DEF OneAnswer, Agree, StatesFit, SavesFit, SaveFits
  <1>5. RunningOn(t)' = {h}
    BY <1>2, <1>3 DEF RunningOn
  <1>6. \A i \in Saved(t) : Said(t, i) \subseteq {said}
    <2>1. CASE checkpoints[t][on].node = "ask" /\ checkpoints[t][on].wrote = None
      <3>1. RowFits(t, on) /\ DOMAIN checkpoints[t] = 1..Len(checkpoints[t])
        BY <1>2, LatestDoes DEF StatesFit, RowsFit, ClarificationTypeOK, Saved
      <3>2. on = 1 /\ checkpoints[t][1].value = None
        BY <2>1, <3>1 DEF RowFits
      <3>3. \A i \in Saved(t) : i = 1
        BY <1>2, <3>1, <3>2 DEF Saved
      <3>4. Said(t, 1) = {}
        BY <2>1, <3>2, WordsDiffer DEF Said
      <3> QED
        BY <3>3, <3>4
    <2>2. CASE said \in Replies /\ said \in Said(t, on)
      BY <1>2, <1>4, <2>2 DEF Agree
    <2> QED
      BY <1>2, <2>1, <2>2 DEF Said
  <1>7. Agree(t)' /\ ActsOnAnswer(h)'
    BY <1>3, <1>4, <1>6, SavedStays DEF Agree, ActsOnAnswer
  <1> QED
    BY <1>5, <1>7, GoingOnAnswer

LEMMA AnswerAlways ==
    ASSUME EntityTypeOK, StatesFit, StatesFit', RacesMarked, RacesMarked',
           \A t \in Threads : OneAnswer(t), [ClarificationNext]_clarificationVars
    PROVE  \A t \in Threads : OneAnswer(t)'
  <1>1. ASSUME NEW h \in Mergers, Works(h) PROVE \A t \in Threads : OneAnswer(t)'
    <2>1. OnlyTouches(h)
      BY <1>1, StepsFit
    <2>2. PICK t : t = loop[h].thread
      OBVIOUS
    <2>3. t \in Threads
      BY <2>1, <2>2, Handlers DEF OnlyTouches
    <2>4. OneAnswer(t)'
      BY <1>1, <2>1, <2>2, <2>3, OwnAnswer
    <2> QED
      BY <2>1, <2>2, <2>4, OthersAnswer
  <1>2. ASSUME NEW h \in Mergers, NEW t \in Threads, Resume(h, t)
        PROVE  \A u \in Threads : OneAnswer(u)'
    <2>1. StartsOn(h, t)
      BY <1>2, ResumeStarts
    <2>2. OneAnswer(t)'
      BY <1>2, ResumeAnswer
    <2> QED
      BY <2>1, <2>2, StartElsewhere
  <1> QED
    BY <1>1, <1>2, StepsAre, AskElsewhere, QuietElsewhere
-----------------------------------------------------------------------------
\* A refusal stands

\* While a handler works, its answer stays, and only a merge is counted.
LEMMA AnswerStays ==
    ASSUME EntityTypeOK, StatesFit, NEW h \in Mergers, Works(h),
           NEW t \in Threads, t = loop[h].thread
    PROVE  /\ loop'[h] # Off => loop'[h].said = loop[h].said
           /\ loop'[h] = Off => UNCHANGED <<checkpoints, merges>>
           /\ merges'[t] = merges[t] \/ loop[h].said # Decline
  <1>1. loop \in [Mergers -> Loops \union {Off}]
    BY DEF StatesFit, ClarificationTypeOK
  <1>2. CASE TakeAnswer(h)
    <2>1. /\ loop'[h] = Loop("apply", t, Len(checkpoints[t]) + 1, loop[h].said)
          /\ merges' = merges
      BY <1>2, TakeAnswerDoes
    <2> QED
      BY <2>1 DEF Loop, Off
  <1>3. ASSUME NEW did \in BOOLEAN, Settles(h, did)
        PROVE  /\ loop'[h] # Off /\ loop'[h].said = loop[h].said
               /\ merges'[t] = merges[t] \/ loop[h].said # Decline
    <2>1. Concluded(h, t, did)
      BY <1>3, SettlesDoes
    <2>2. /\ loop'[h] = [loop[h] EXCEPT !.at = "exit", !.did = did]
          /\ loop[h] \in Loops /\ (did => loop[h].said # Decline)
          /\ merges'[t] = IF did THEN merges[t] + 1 ELSE merges[t]
      BY <2>1 DEF Concluded
    <2> QED
      BY <2>2 DEF Loops, Off
  <1>4. CASE Match(h) \/ ApplyFails(h)
    <2>1. Moved(h)
      BY <1>4, MovesFit
    <2> QED
      BY <2>1 DEF Moved
  <1>5. CASE SaveInBackground(h)
    <2>1. loop[h] # Off
      BY <1>5, SaveFitsAll DEF OnlyTouches
    <2> QED
      BY <1>5, <2>1 DEF SaveInBackground
  <1>6. CASE Return(h) \/ Cut(h)
    BY <1>1, <1>6 DEF Return, Cut, Moves, LoseSaves
  <1> QED
    BY <1>2, <1>3, <1>4, <1>5, <1>6 DEF Works

LEMMA OwnAgreed ==
    ASSUME EntityTypeOK, StatesFit, RacesMarked, NEW h \in Mergers, Works(h),
           NEW t \in Threads, t = loop[h].thread, Agreed(t), OneAnswer(t)'
    PROVE  Agreed(t)'
  <1> SUFFICES ASSUME marks'[t] = {}, merges'[t] # 0
               PROVE  /\ \A i \in Saved(t)' : Decline \notin Said(t, i)'
                      /\ \A g \in RunningOn(t)' : loop'[g].said # Decline
    BY DEF Agreed
  <1>1. OnlyTouches(h)
    BY StepsFit
  <1>2. loop[h] # Off /\ marks[t] = {} /\ RunningOn(t) = {h}
    BY <1>1, OnlyHandler DEF OnlyTouches
  <1>3. loop[h].said # Decline
    <2>1. CASE merges[t] # 0
      BY <1>2, <2>1 DEF Agreed
    <2>2. CASE merges[t] = 0
      BY <2>2, AnswerStays
    <2> QED
      BY <2>1, <2>2
  <1>4. CASE loop'[h] = Off
    <2>1. checkpoints' = checkpoints /\ merges'[t] = merges[t]
      BY <1>4, AnswerStays
    <2>2. RunningOn(t)' = {}
      BY <1>1, <1>2, <1>4 DEF RunningOn, OnlyTouches
    <2>3. \A i \in Saved(t) : Decline \notin Said(t, i)
      BY <1>2, <2>1 DEF Agreed
    <2> QED
      BY <2>1, <2>2, <2>3, SavedStays
  <1>5. CASE loop'[h] # Off
    <2>1. RunningOn(t)' = {h} /\ loop'[h].said = loop[h].said /\ loop'[h].thread = t
      <3>1. RunningOn(t)' = {h} /\ loop'[h].thread = t
        BY <1>1, <1>2, <1>5 DEF RunningOn, OnlyTouches
      <3> QED
        BY <1>5, <3>1, AnswerStays
    <2>2. \A i \in Saved(t)' : Said(t, i)' \subseteq {loop'[h].said}
      BY <2>1 DEF OneAnswer, ActsOnAnswer
    <2> QED
      BY <1>3, <2>1, <2>2
  <1> QED
    BY <1>4, <1>5

LEMMA OthersAgreed ==
    ASSUME StatesFit, NEW h \in Mergers, OnlyTouches(h),
           NEW u \in Threads, loop[h].thread # u
    PROVE  Agreed(u) => Agreed(u)'
  <1>1. /\ checkpoints'[u] = checkpoints[u] /\ marks[u] \subseteq marks'[u]
        /\ merges'[u] = merges[u]
    BY DEF OnlyTouches
  <1>2. RunningOn(u)' = RunningOn(u) /\ \A g \in RunningOn(u) : loop'[g] = loop[g]
    BY DEF RunningOn, OnlyTouches
  <1>3. Saved(u)' = Saved(u) /\ \A i : Said(u, i)' = Said(u, i)
    BY <1>1, SavedStays
  <1> QED
    BY <1>1, <1>2, <1>3 DEF Agreed

LEMMA AgreedAlways ==
    ASSUME EntityTypeOK, StatesFit, StatesFit', RacesMarked,
           \A t \in Threads : Once(t) /\ OneAnswer(t)' /\ Agreed(t),
           [ClarificationNext]_clarificationVars
    PROVE  \A t \in Threads : Agreed(t)'
  <1>1. ASSUME NEW h \in Mergers, Works(h) PROVE \A t \in Threads : Agreed(t)'
    <2>1. OnlyTouches(h)
      BY <1>1, StepsFit
    <2>2. PICK t : t = loop[h].thread
      OBVIOUS
    <2>3. t \in Threads
      BY <2>1, <2>2, Handlers DEF OnlyTouches
    <2>4. Agreed(t)'
      BY <1>1, <2>2, <2>3, OwnAgreed
    <2> QED
      BY <2>1, <2>2, <2>4, OthersAgreed
  <1>2. ASSUME NEW h \in Mergers, NEW t \in Threads, Resume(h, t)
        PROVE  \A u \in Threads : Agreed(u)'
    <2>1. /\ StartsOn(h, t) /\ ~EndIsSaved(t)
          /\ "raced" \notin marks'[t] => RunningOn(t) = {}
      BY <1>2, ResumeStarts
    <2>2. marks[t] \subseteq marks'[t] /\ merges[t] \in Nat /\ merges' = merges
      BY <2>1 DEF StartsOn, StatesFit, ClarificationTypeOK
    <2>3. marks'[t] = {} => merges'[t] = 0
      BY <2>1, <2>2 DEF Once
    <2>4. Agreed(t)'
      BY <2>3 DEF Agreed
    <2> QED
      BY <2>1, <2>4, StartElsewhere
  <1> QED
    BY <1>1, <1>2, StepsAre, AskElsewhere, QuietElsewhere

-----------------------------------------------------------------------------
\* Only doubtful rows are absorbed

LEMMA DoubtStays ==
    ASSUME [Next]_vars
    PROVE  unsure \subseteq unsure'
  BY DEF Next, vars, entityVars, linkVars, mergeVars, BeginCommit, Resolve, LandCommit,
         LoseCommit, ReadBoth, CarryAliases, Absorb, RefuseAbsorb, AbandonMerge

\* The step of a merge leaves nothing but what the handler had read.
LEMMA AbsorbsStayDoubtful ==
    ASSUME EntityTypeOK, [Next]_vars, AbsorbsDoubtful,
           [ClarificationNext]_clarificationVars
    PROVE  AbsorbsDoubtful'
  <1>1. merge \in [Mergers -> Merges \union {Idle}] /\ unsure \subseteq unsure'
    BY DoubtStays DEF EntityTypeOK
  <1>2. ASSUME UNCHANGED merge PROVE AbsorbsDoubtful'
    BY <1>1, <1>2 DEF AbsorbsDoubtful
  <1>3. ASSUME NEW h \in Mergers, merge' = [merge EXCEPT ![h] = Idle]
        PROVE  AbsorbsDoubtful'
    BY <1>1, <1>3 DEF AbsorbsDoubtful
  <1>4. ASSUME NEW h \in Mergers, BeginMerge(h) PROVE AbsorbsDoubtful'
    <2>1. \A g \in Mergers \ {h} : merge'[g] = merge[g]
      BY <1>1, <1>4 DEF BeginMerge, ReadRows, ReadBoth
    <2>2. merge'[h].absorb \in unsure
      BY <1>4 DEF BeginMerge, ReadRows, Absorbable
    <2> QED
      BY <1>1, <2>1, <2>2 DEF AbsorbsDoubtful
  <1>5. ASSUME NEW h \in Mergers, MergeAliases(h) PROVE AbsorbsDoubtful'
    <2>1. /\ merge[h].pc = "read"
          /\ merge' = [merge EXCEPT ![h].pc = "carried"]
      BY <1>5 DEF MergeAliases, CarryAliases
    <2>2. merge[h] # Idle /\ merge[h] \in Merges
      BY <1>1, <2>1, JobWords
    <2>3. /\ \A g \in Mergers \ {h} : merge'[g] = merge[g]
          /\ merge'[h].absorb = merge[h].absorb
      BY <1>1, <2>1, <2>2 DEF Merges
    <2> QED
      BY <1>1, <2>2, <2>3 DEF AbsorbsDoubtful
  <1>6. ASSUME NEW h \in Mergers, DropsMerge(h) PROVE AbsorbsDoubtful'
    BY <1>2, <1>3, <1>6 DEF DropsMerge, RefuseAbsorb, AbandonMerge, vars, mergeVars
  <1>7. ASSUME NEW h \in Mergers, EndMerge(h) PROVE AbsorbsDoubtful'
    BY <1>3, <1>7 DEF EndMerge, Absorb
  <1>8. CASE Elsewhere \/ UNCHANGED clarificationVars
    BY <1>2, <1>8 DEF Elsewhere, BeginCommit, Resolve, LandCommit, LoseCommit,
                      mergeVars, clarificationVars, vars
  <1>9. ASSUME NEW h \in Mergers,
               \/ \E t \in Threads : Ask(h, t) \/ Resume(h, t)
               \/ TakeAnswer(h) \/ Abandon(h) \/ Match(h) \/ NothingToMerge(h)
               \/ SaveInBackground(h) \/ Return(h)
        PROVE  AbsorbsDoubtful'
    BY <1>2, <1>9 DEF Ask, Resume, TakeAnswer, Abandon, Match, NothingToMerge,
                      SaveInBackground, Return, vars, mergeVars
  <1> QED
    BY <1>4, <1>5, <1>6, <1>7, <1>8, <1>9 DEF ClarificationNext, ApplyFails, Cut

LEMMA AbsorbedStayDoubtful ==
    ASSUME EntityTypeOK, [Next]_vars, AbsorbsDoubtful, OnlyDoubtfulAbsorbed
    PROVE  OnlyDoubtfulAbsorbed'
  <1>1. CASE RowsGrow
    <2>1. \A i \in known' \ known : into[i] = Nobody
      <3>1. known' \subseteq Ids
        BY EntityTypesStay DEF EntityTypeOK
      <3> QED
        BY <3>1 DEF EntityTypeOK
    <2> QED
      BY <1>1, <2>1 DEF RowsGrow, OnlyDoubtfulAbsorbed
  <1>2. ASSUME NEW m \in Mergers, Absorb(m) PROVE OnlyDoubtfulAbsorbed'
    <2>1. /\ merge[m] # Idle /\ UNCHANGED <<known, unsure>>
          /\ \A i \in Ids \ {merge[m].absorb} : into'[i] = into[i]
      BY <1>2, AbsorbDoes
    <2>2. merge[m].absorb \in unsure /\ known \subseteq Ids
      BY <2>1 DEF AbsorbsDoubtful, EntityTypeOK
    <2> QED
      BY <2>1, <2>2 DEF OnlyDoubtfulAbsorbed
  <1> QED
    BY <1>1, <1>2, AbsorbOrGrow

-----------------------------------------------------------------------------
\* The theorems about clarifications

LEMMA ClarificationsFitInit == ClarificationInit => ClarificationsFit
  <1> SUFFICES ASSUME ClarificationInit PROVE ClarificationsFit
    OBVIOUS
  <1> USE DEF ClarificationInit, CheckpointInit
  <1>1. /\ \A t \in Threads : checkpoints[t] = <<>> /\ options[t] = {}
        /\ \A t \in Threads : merges[t] = 0 /\ marks[t] = {}
        /\ \A h \in Mergers : loop[h] = Off /\ saving[h] = {} /\ merge[h] = Idle
        /\ \A i \in known : into[i] = Nobody
    BY EntityTypesInit DEF Init, EntityTypeOK
  <1>2. \A t \in Threads : DOMAIN checkpoints[t] = {} /\ Saved(t) = {}
    BY <1>1 DEF Saved
  <1>3. ClarificationTypeOK
    BY DEF ClarificationTypeOK, CheckpointTypeOK, Marks
  <1>4. StatesFit
    BY <1>1, <1>2, <1>3 DEF StatesFit, RowsFit, SavesFit, LoopsFit, LatestExists,
                            HasLatest, UnaskedAreNew
  <1>5. RacesMarked /\ AbsorbsDoubtful /\ OnlyDoubtfulAbsorbed
    BY <1>1 DEF RacesMarked, AbsorbsDoubtful, OnlyDoubtfulAbsorbed
  <1>6. \A t \in Threads : RunningOn(t) = {}
    BY <1>1 DEF RunningOn
  <1>7. \A t \in Threads : Once(t)
    BY <1>1, <1>6 DEF Once
  <1>8. \A t \in Threads : OneAnswer(t) /\ Agreed(t)
    BY <1>1, <1>2, <1>6 DEF OneAnswer, Agreed
  <1> QED
    BY <1>4, <1>5, <1>7, <1>8 DEF ClarificationsFit

LEMMA ClarificationsFitNext ==
    EntityTypeOK /\ [Next]_vars /\ ClarificationsFit
        /\ [ClarificationNext]_clarificationVars => ClarificationsFit'
  <1> SUFFICES ASSUME EntityTypeOK, [Next]_vars, ClarificationsFit,
                      [ClarificationNext]_clarificationVars
               PROVE  ClarificationsFit'
    OBVIOUS
  <1> USE DEF ClarificationsFit
  <1>1. StatesFit' /\ RacesMarked'
    BY AlwaysFit, RacesStayMarked
  <1>2. \A t \in Threads : Once(t)'
    BY <1>1, OnceAlways
  <1>3. \A t \in Threads : OneAnswer(t)'
    BY <1>1, AnswerAlways
  <1>4. \A t \in Threads : Agreed(t)'
    BY <1>1, <1>3, AgreedAlways
  <1>5. AbsorbsDoubtful' /\ OnlyDoubtfulAbsorbed'
    BY AbsorbsStayDoubtful, AbsorbedStayDoubtful
  <1> QED
    BY <1>1, <1>2, <1>3, <1>4, <1>5

\* Handlers, checkpoints, what is still being saved and the merges under way fit
\* together in every reachable state, cuts and races included, however many
\* handlers there are.
THEOREM InvariantOfClarifications == ClarificationSpec => []ClarificationsFit
  <1>1. ClarificationSpec => Spec
    BY EntitiesBeside
  <1>2. ClarificationSpec => []EntityTypeOK /\ [][Next]_vars
    BY <1>1, EntityTypes, PTL DEF Spec
  <1>3. ClarificationSpec => ClarificationInit /\ [][ClarificationNext]_clarificationVars
    BY DEF ClarificationSpec
  <1> QED
    BY <1>2, <1>3, ClarificationsFitInit, ClarificationsFitNext, PTL

\* A question folds away at most one row, however often it is answered, unless
\* two handlers ran on it at once or one was cut after its merge and before
\* anything saved said so.
THEOREM QuestionsMergeOnce == ClarificationSpec => []AbsorbedOnce
  <1>1. ClarificationsFit => AbsorbedOnce
    <2> SUFFICES ASSUME ClarificationsFit, NEW t \in Threads, merges[t] > 1
                 PROVE  marks[t] # {}
      BY DEF AbsorbedOnce
    <2>1. merges[t] \in Nat /\ ~(merges[t] <= 1)
      BY DEF ClarificationsFit, StatesFit, ClarificationTypeOK
    <2> QED
      BY <2>1 DEF ClarificationsFit, Once
  <1> QED
    BY <1>1, InvariantOfClarifications, PTL

\* For any number of handlers, what a clarification absorbs was flagged as
\* ambiguous when it was created; and of a question that neither two handlers
\* ran on at once nor a cut befell between its merge and the save of it, a saved
\* answer that declines leaves nothing merged.  Where two handlers did race, one
\* may decline and the other merge: nothing is proved of a refusal there.
THEOREM RefusalsStand == ClarificationSpec => []AbsorbedAsAgreed
  <1>1. ClarificationsFit => NoMeansNo
    <2> SUFFICES ASSUME ClarificationsFit, NEW t \in Threads, marks[t] = {},
                        NEW i \in Saved(t),
                        Decline \in {checkpoints[t][i].wrote, checkpoints[t][i].value}
                 PROVE  merges[t] = 0
      BY DEF NoMeansNo
    <2>1. Decline \in Said(t, i)
      BY DEF Said, Replies
    <2> QED
      BY <2>1 DEF ClarificationsFit, Agreed
  <1>2. ClarificationsFit => AbsorbedAsAgreed
    BY <1>1 DEF ClarificationsFit, StatesFit, AbsorbedAsAgreed
  <1> QED
    BY <1>2, InvariantOfClarifications, PTL
=============================================================================
