-------------------------- MODULE EntityResolution --------------------------
(***************************************************************************)
(* EntityService and the entity part of MemoryService.commit: how the      *)
(* names a message mentions become rows of entities, and how rows are      *)
(* merged.                                                                 *)
(*                                                                         *)
(* A commit resolves its mentions one after another and then writes all it *)
(* decided in one transaction.  find_by_name reads on a connection of its  *)
(* own, so a resolution sees what other commits have committed and nothing *)
(* of its own transaction.  A merge reads both rows, adds aliases in one   *)
(* transaction and absorbs in another.  The extraction slots let several   *)
(* commits run at once; merges are the explicit acts of a user.            *)
(*                                                                         *)
(* A row is identified by the commit that created it and the name it was   *)
(* created for.  Each mention stands for one memory about it.              *)
(***************************************************************************)
EXTENDS Naturals, FiniteSets, Sequences, Functions

CONSTANTS
    Commits,      \* attempts to commit an extraction
    Mergers,      \* callers of merge
    Slots,        \* commits that may run at once
    MaxMerges,    \* bound on the merges asked for
    Names,        \* names up to case
    SelfNames,    \* the first-person ones, SELF_ALIASES
    TheUser,      \* SELF_ENTITY_NAME
    Foldable,     \* names that SQL's lower and Python's casefold map alike
    Spellings,    \* ways to write a name that differ in case
    Utterances,   \* the mentions of a message, in order
    Legacy,       \* names of first-person rows from before resolve_self
    Nobody

Mentions == [name : Names, spelling : Spellings]

ASSUME EntityAssumption ==
    /\ Slots \in Nat \ {0} /\ MaxMerges \in Nat
    /\ TheUser \in SelfNames /\ SelfNames \subseteq Names
    /\ Foldable \subseteq Names
    /\ Utterances \subseteq Seq(Mentions)
    /\ Legacy \subseteq SelfNames
    /\ Nobody \notin Commits
    /\ Nobody \notin (Commits \union {Nobody}) \X Names

Ids == (Commits \union {Nobody}) \X Names

VARIABLES
    known,      \* the rows of entities
    unsure,     \* those that are provisional
    into,       \* merged_into
    aliases,    \* entity_aliases
    subjects,   \* which row each memory was linked to, fact_subjects
    ties,       \* relationships
    job,        \* what each commit has resolved
    merge,      \* where each merge stands
    asked,      \* how many merges were asked for
    before      \* history: the commits that had landed when each began

entityVars == <<known, unsure, into, aliases>>
linkVars == <<subjects, ties>>
mergeVars == <<merge, asked>>
vars == <<entityVars, linkVars, job, mergeVars, before>>

Idle    == [pc |-> "idle"]
Unused  == [pc |-> "unused"]
Ended(how) == [pc |-> how]

Merges == [pc : {"read", "carried"}, keep : Ids, absorb : Ids, names : SUBSET Names]

\* What a commit has decided: each name it met is a row there is or its own.
Decided(c, said, picked, flagged, adopted) ==
    /\ said \in Utterances
    /\ DOMAIN picked \subseteq Range(said)
    /\ \A m \in DOMAIN picked : picked[m] \in known \union {<<c, m.name>>}
    /\ flagged \subseteq {i \in Range(picked) : i[1] = c}
    /\ adopted \subseteq known

JobTypeOK(c) ==
    \/ job[c] \in {Unused, Ended("landed"), Ended("lost")}
    \/ /\ DOMAIN job[c] = {"pc", "said", "picked", "flagged", "adopted"}
       /\ job[c].pc = "resolving"
       /\ Decided(c, job[c].said, job[c].picked, job[c].flagged, job[c].adopted)

\* No row is absorbed into itself and none is related to itself: CHECK
\* constraints of entities and relationships.
EntityTypeOK ==
    /\ known \subseteq Ids /\ unsure \subseteq known
    /\ into \in [Ids -> known \union {Nobody}]
    /\ \A i \in Ids : into[i] # i /\ (into[i] # Nobody => i \in known)
    /\ aliases \in [Ids -> SUBSET Names]
    /\ ties \subseteq known \X known
    /\ \A tie \in ties : tie[1] # tie[2]
    /\ subjects \subseteq [memory : Commits, mention : Mentions,
                           entity : known \union {Nobody}]
    /\ DOMAIN job = Commits /\ \A c \in Commits : JobTypeOK(c)
    /\ merge \in [Mergers -> Merges \union {Idle}]
    /\ \A m \in Mergers : merge[m] # Idle =>
          /\ {merge[m].keep, merge[m].absorb} \subseteq known
          /\ merge[m].keep # merge[m].absorb
    /\ asked \in 0..MaxMerges
    /\ before \in [Commits -> SUBSET Commits]

Init ==
    /\ known = {Nobody} \X Legacy
    /\ unsure = {}
    /\ into = [i \in Ids |-> Nobody]
    /\ aliases = [i \in Ids |-> {}]
    /\ subjects = {} /\ ties = {}
    /\ job = [c \in Commits |-> Unused]
    /\ merge = [m \in Mergers |-> Idle] /\ asked = 0
    /\ before = [c \in Commits |-> {}]

\* The name a row carries: the canonical one when resolve_self created it.
NameOf(i) == IF i[1] # Nobody /\ i[2] \in SelfNames THEN TheUser ELSE i[2]

\* Variant: get returns absorbed rows too.
KnownRows == known

Live == {i \in known : into[i] = Nobody}

\* What get can return.
Gettable == Live

\* Variant: aliases are not searched.
AnswersByName(name) == {i \in Live : name \in Foldable /\ NameOf(i) = name}

\* find_by_name: the live rows that carry the name or have it as an alias.
Answers(name) ==
    {i \in Live : name \in Foldable /\ (NameOf(i) = name \/ name \in aliases[i])}

-----------------------------------------------------------------------------
\* Resolution during a commit

BeginCommit(c) ==
    /\ job[c] = Unused
    /\ Cardinality({d \in Commits : job[d].pc = "resolving"}) < Slots
    /\ \E said \in Utterances :
          job' = [job EXCEPT ![c] = [pc |-> "resolving", said |-> said,
                                     picked |-> <<>>, flagged |-> {},
                                     adopted |-> {}]]
    /\ before' = [before EXCEPT ![c] = {d \in Commits : job[d].pc = "landed"}]
    /\ UNCHANGED <<entityVars, linkVars, mergeVars>>

\* A mention whose name this commit has met in any spelling is skipped.
Seen(c, mention) == \E m \in DOMAIN job[c].picked : m.name = mention.name

Decide(c, mention, id, flagged, adopted) ==
    LET picked == job[c].picked IN
    job' = [job EXCEPT ![c].picked = [m \in DOMAIN picked \union {mention} |->
                                         IF m = mention THEN id ELSE picked[m]],
                       ![c].flagged = @ \union flagged,
                       ![c].adopted = @ \union adopted]

\* One match is linked.  Several are never chosen from: a provisional row is
\* created, as a plain one is when there is none.
ResolveName(c, mention) ==
    LET found == Answers(mention.name)
        own == <<c, mention.name>>
    IN  \/ \E i \in found : found = {i} /\ Decide(c, mention, i, {}, {})
        \/ Cardinality(found) > 1 /\ Decide(c, mention, own, {own}, {})
        \/ found = {} /\ Decide(c, mention, own, {}, {})

\* The row is being given the first-person aliases by a transaction that is
\* still open: who inserts the same alias waits for that transaction to end.
Adopting(i) == \E c \in Commits : job[c].pc = "resolving" /\ i \in job[c].adopted

\* The canonical row, or any first-person row to adopt, or a new one.
ResolveSelf(c, mention) ==
    LET canonical == Answers(TheUser)
        adoptable == UNION {Answers(alias) : alias \in SelfNames}
    IN  \/ \E i \in canonical : Decide(c, mention, i, {}, {})
        \/ /\ canonical = {}
           /\ \E i \in adoptable :
                 /\ ~Adopting(i) \/ i \in job[c].adopted
                 /\ Decide(c, mention, i, {}, {i})
        \/ adoptable = {} /\ Decide(c, mention, <<c, mention.name>>, {}, {})

Resolve(c) ==
    /\ job[c].pc = "resolving"
    /\ \E n \in DOMAIN job[c].said : LET mention == job[c].said[n] IN
          /\ ~Seen(c, mention)
          /\ \A earlier \in 1..(n - 1) : Seen(c, job[c].said[earlier])
          /\ IF mention.name \in SelfNames THEN ResolveSelf(c, mention)
                                           ELSE ResolveName(c, mention)
    /\ UNCHANGED <<entityVars, linkVars, mergeVars, before>>

\* A relationship whose ends resolved to the same row is dropped.
Relatable(a, b) == a # b

\* The transaction: the new rows, the adopted aliases, the memories with the
\* rows their mentions resolved to, looked up by exact spelling, and at most
\* one relationship.
LandCommit(c) ==
    /\ job[c].pc = "resolving"
    /\ \A mention \in Range(job[c].said) : Seen(c, mention)
    /\ LET picked == job[c].picked
           own == {i \in Range(picked) : i[1] = c}
       IN  /\ known' = known \union own
           /\ unsure' = unsure \union job[c].flagged
           /\ aliases' = [i \in Ids |->
                 IF i \in job[c].adopted \/ (i \in own /\ i[2] \in SelfNames)
                 THEN aliases[i] \union SelfNames ELSE aliases[i]]
           /\ subjects' = subjects \union
                 {[memory |-> c, mention |-> m,
                   entity |-> IF m \in DOMAIN picked THEN picked[m] ELSE Nobody] :
                     m \in Range(job[c].said)}
           /\ \/ UNCHANGED ties
              \/ \E a, b \in Range(picked) :
                    /\ Relatable(a, b)
                    /\ ties' = ties \union {<<a, b>>}
    /\ job' = [job EXCEPT ![c] = Ended("landed")]
    /\ UNCHANGED <<into, mergeVars, before>>

\* A failed statement, a timeout or a crash: the transaction leaves nothing.
LoseCommit(c) ==
    /\ job[c].pc = "resolving"
    /\ job' = [job EXCEPT ![c] = Ended("lost")]
    /\ UNCHANGED <<entityVars, linkVars, mergeVars, before>>

-----------------------------------------------------------------------------
\* Merging

\* Variant: the aliases of the absorbed row are not carried, its name is.
CarriedName(keep, absorb) == {NameOf(absorb)} \ {NameOf(keep)}

\* The names the survivor takes over.
Carried(keep, absorb) == ({NameOf(absorb)} \union aliases[absorb]) \ {NameOf(keep)}

\* Both rows must be live when they are read.
ReadBoth(m) ==
    /\ merge[m] = Idle
    /\ asked < MaxMerges /\ asked' = asked + 1
    /\ \E keep, absorb \in Gettable :
          /\ keep # absorb
          /\ merge' = [merge EXCEPT ![m] =
                [pc |-> "read", keep |-> keep, absorb |-> absorb,
                 names |-> Carried(keep, absorb)]]
    /\ UNCHANGED <<entityVars, linkVars, job, before>>

CarryAliases(m) ==
    /\ merge[m].pc = "read"
    /\ ~(Adopting(merge[m].keep) /\ merge[m].names \intersect SelfNames # {})
    /\ aliases' = [aliases EXCEPT ![merge[m].keep] = @ \union merge[m].names]
    /\ merge' = [merge EXCEPT ![m].pc = "carried"]
    /\ UNCHANGED <<known, unsure, into, linkVars, job, asked, before>>

\* Related rows cannot be merged: repointing their relationship would make it
\* a relationship of the survivor with itself, which the CHECK refuses before
\* the statement that deletes such rows is reached.
Related(a, b) == <<a, b>> \in ties \/ <<b, a>> \in ties

\* Variant: the memories of the absorbed row are left with it.
LeftLinks(keep, absorb) == subjects

\* The memories of the absorbed row go to the survivor.
MovedLinks(keep, absorb) ==
    {IF s.entity = absorb THEN [s EXCEPT !.entity = keep] ELSE s : s \in subjects}

Absorb(m) ==
    /\ merge[m].pc = "carried"
    /\ ~Related(merge[m].keep, merge[m].absorb)
    /\ LET keep == merge[m].keep
           absorb == merge[m].absorb
           Repointed(i) == IF i = absorb THEN keep ELSE i
       IN  /\ into' = [into EXCEPT ![absorb] = keep]
           /\ subjects' = MovedLinks(keep, absorb)
           /\ ties' = {<<Repointed(tie[1]), Repointed(tie[2])>> : tie \in ties}
    /\ merge' = [merge EXCEPT ![m] = Idle]
    /\ UNCHANGED <<known, unsure, aliases, job, asked, before>>

RefuseAbsorb(m) ==
    /\ merge[m].pc = "carried"
    /\ Related(merge[m].keep, merge[m].absorb)
    /\ merge' = [merge EXCEPT ![m] = Idle]
    /\ UNCHANGED <<entityVars, linkVars, job, asked, before>>

\* The process dies or the store fails between the transactions of a merge.
AbandonMerge(m) ==
    /\ merge[m].pc \in {"read", "carried"}
    /\ merge' = [merge EXCEPT ![m] = Idle]
    /\ UNCHANGED <<entityVars, linkVars, job, asked, before>>

Next ==
    \/ \E c \in Commits : \/ BeginCommit(c) \/ Resolve(c)
                          \/ LandCommit(c) \/ LoseCommit(c)
    \/ \E m \in Mergers : \/ ReadBoth(m) \/ CarryAliases(m) \/ Absorb(m)
                          \/ RefuseAbsorb(m) \/ AbandonMerge(m)

Spec == Init /\ [][Next]_vars

-----------------------------------------------------------------------------
\* Safety

\* Following merged_into from an absorbed row ends, and at a live one, however
\* merges were chained: of any absorbed rows, one was absorbed into a row that
\* is not among them.
SurvivorIsLive ==
    \A rows \in SUBSET {i \in known : into[i] # Nobody} :
        rows # {} => \E i \in rows : into[i] \notin rows

\* A name a row was created under is never forgotten: some live row answers to
\* it after any chain of merges, finished, refused or cut short.
NamesKept ==
    \A i \in known : NameOf(i) \in Foldable => Answers(NameOf(i)) # {}

\* Two rows of one name that nobody was told about come from commits that
\* overlapped: whoever resolves after a row has landed, and after whatever
\* merges followed, links to it or flags the new row as ambiguous.
OnlyRacesDuplicate ==
    \A i, j \in known \ unsure :
        /\ NameOf(i) = NameOf(j) /\ NameOf(i) \in Foldable
        /\ i[1] # j[1] /\ Nobody \notin {i[1], j[1]}
        => i[1] \notin before[j[1]] /\ j[1] \notin before[i[1]]

\* Merges take the links of memories along: a mention that is linked to a live
\* row stays linked to a live row, whatever is merged into what.  Only a commit
\* that had resolved the name before the merge lands a link to an absorbed row.
Linked(mention) == \E s \in subjects : s.entity # Nobody /\ into[s.entity] = Nobody
                                      /\ <<s.memory, s.mention>> = mention
LinksFollowMerges ==
    [][\A s \in subjects :
          Linked(<<s.memory, s.mention>>) => Linked(<<s.memory, s.mention>>)']_vars

\* The rows keep their types and the schema's constraints, and whatever is
\* absorbed leads to a row that is not.
EntityInvariant == EntityTypeOK /\ SurvivorIsLive
=============================================================================
