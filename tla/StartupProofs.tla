---------------------------- MODULE StartupProofs ----------------------------
(***************************************************************************)
(* Theorems about Startup, for any number of processes, migrations and     *)
(* releases, however often they are started, cut and deployed.             *)
(***************************************************************************)
EXTENDS Startup, TLAPS

USE DEF Down, Stages, Starting

\* The database goes on from what it holds: nothing recorded is changed, what is
\* recorded anew is of the release deployed, and no column is lost but to a
\* script that drops it.
Grows ==
    /\ DOMAIN recorded \subseteq DOMAIN recorded'
    /\ \A v \in DOMAIN recorded : recorded'[v] = recorded[v]
    /\ \A v \in DOMAIN recorded' \ DOMAIN recorded :
          v \in Files(release) /\ recorded'[v] = release.files[v]
    /\ ran \subseteq ran'
    /\ columns \ columns' \subseteq UNION {s[2].drops : s \in ran'}

\* The part of the type invariant about the schema.
SchemaTyped ==
    columns \subseteq Columns /\ tables \subseteq Versions /\ ran \subseteq Versions \X Scripts

USE DEF schemaVars, SchemaTyped

\* A step in which only process p moves.
MovesOnly(p) == \A q \in Processes \ {p} : process'[q] = process[q]

\* What a release is, in the terms the proofs use.
LEMMA ReleaseIs ==
    ASSUME NEW r \in Releases
    PROVE  /\ Files(r) \subseteq Versions /\ r.needs \subseteq Columns
           /\ \A v \in Files(r) : r.files[v] \in Scripts
           /\ \A v \in Files(r) : \A c \in r.needs : c \notin r.files[v].drops
           /\ \A v, w \in Versions : v < w /\ w \in Files(r) => v \in Files(r)
  BY StartupAssumption DEF Files

\* A release loses only columns that scripts of others drop.
LEMMA LostToOthers ==
    ASSUME Grows, NEW r \in Releases, r.needs \ columns \subseteq DroppedBeside(r)
    PROVE  r.needs \ columns' \subseteq DroppedBeside(r)'
  <1> SUFFICES ASSUME NEW c \in r.needs, c \notin columns'
               PROVE  \E s \in ran' : /\ s[1] \notin Files(r) \/ r.files[s[1]] # s[2]
                                      /\ c \in s[2].drops
    BY DEF DroppedBeside, Files
  <1>1. CASE c \in columns
    <2>1. PICK s \in ran' : c \in s[2].drops
      BY <1>1 DEF Grows
    <2> QED
      BY <2>1, ReleaseIs
  <1>2. CASE c \notin columns
    <2>1. PICK s \in ran : /\ s[1] \notin Files(r) \/ r.files[s[1]] # s[2]
                           /\ c \in s[2].drops
      BY <1>2 DEF DroppedBeside
    <2> QED
      BY <2>1 DEF Grows
  <1> QED
    BY <1>1, <1>2

\* A process that stands still is still right about a database that goes on.
LEMMA StillTrue ==
    ASSUME StartupInvariant, release' = release, Grows,
           NEW p \in Processes, process'[p] = process[p]
    PROVE  ProgressIsTrue(p)'
  <1>1. ProgressIsTrue(p) /\ (Starting(p) => process[p].loaded = release)
    BY DEF StartupInvariant, StartsTheRelease
  <1>2. process[p] \in Started \union {Down}
    BY DEF StartupInvariant, StartupTypeOK
  <1>3. CASE process[p] = Down
    BY <1>3 DEF ProgressIsTrue
  <1>4. CASE process[p] \in Started
    <2>1. process[p].loaded \in Releases
      BY <1>4 DEF Started
    <2>2. process[p].at \in {"graph", "recover", "up"}
          => process[p].loaded.needs \ columns' \subseteq DroppedBeside(process[p].loaded)'
      BY <1>1, <2>1, LostToOthers DEF ProgressIsTrue
    <2>3. Starting(p) /\ ~process[p].blind =>
             \A v \in DOMAIN recorded' : /\ v \in Files(process[p].loaded)
                                         /\ recorded'[v] = process[p].loaded.files[v]
      BY <1>1 DEF ProgressIsTrue, Grows
    <2>4. process[p].at = "up" /\ ~process[p].blind =>
             \A v \in Files(process[p].loaded) :
                 recorded'[v] = process[p].loaded.files[v]
      BY <1>1 DEF ProgressIsTrue, Grows
    <2>5. /\ process[p].at \in {"script", "record"} =>
                /\ process[p].pending \subseteq Files(process[p].loaded)
                /\ Files(process[p].loaded) \ process[p].pending \subseteq DOMAIN recorded'
          /\ process[p].at = "record" =>
                \A v \in process[p].pending :
                    (\A w \in process[p].pending : v <= w)
                    => <<v, process[p].loaded.files[v]>> \in ran'
          /\ process[p].at \in {"drift", "graph", "recover", "up"} =>
                Files(process[p].loaded) \subseteq DOMAIN recorded'
      BY <1>1 DEF ProgressIsTrue, Grows
    <2> QED
      BY <2>2, <2>3, <2>4, <2>5 DEF ProgressIsTrue, Files, DroppedBeside
  <1> QED
    BY <1>2, <1>3, <1>4

\* A step of process p keeps the invariant when it leaves the database growing,
\* what can be repeated repeatable, and p right about where it has come to.
LEMMA StepKeeps ==
    ASSUME StartupInvariant, NEW p \in Processes, MovesOnly(p),
           release' = release, Grows, StartupTypeOK', StartsAreRepeatable',
           Starting(p)' => process'[p].loaded = release, ProgressIsTrue(p)'
    PROVE  StartupInvariant'
  <1>1. \A q \in Processes : ProgressIsTrue(q)'
    BY StillTrue DEF MovesOnly, StartupTypeOK, StartupInvariant
  <1>2. StartsTheRelease'
    BY DEF StartsTheRelease, MovesOnly, StartupInvariant
  <1> QED
    BY <1>1, <1>2 DEF StartupInvariant

\* The database as it is.
LEMMA Unmoved ==
    ASSUME StartupInvariant, UNCHANGED dbVars
    PROVE  Grows /\ StartsAreRepeatable'
  BY DEF dbVars, Grows, StartupInvariant, StartsAreRepeatable

\* A process that is not starting any more, or not yet.
LEMMA GoneDown ==
    ASSUME StartupInvariant, NEW p \in Processes, Refuse(p),
           release' = release, Grows, StartsAreRepeatable',
           SchemaTyped', DOMAIN recorded' \subseteq Versions, rows' \in BOOLEAN
    PROVE  StartupInvariant'
  <1>1. process' = [process EXCEPT ![p] = Down]
    BY DEF Refuse
  <1>2. process \in [Processes -> Started \union {Down}] /\ release \in Releases
    BY DEF StartupInvariant, StartupTypeOK
  <1>3. StartupTypeOK'
    BY <1>1, <1>2 DEF StartupTypeOK
  <1>4. ProgressIsTrue(p)' /\ ~Starting(p)' /\ MovesOnly(p)
    BY <1>1, <1>2 DEF ProgressIsTrue, MovesOnly
  <1> QED
    BY <1>3, <1>4, StepKeeps

\* A process goes on over a database as it is.
LEMMA GoesOn ==
    ASSUME StartupInvariant, NEW p \in Processes, NEW next \in Started,
           process' = [process EXCEPT ![p] = next], release' = release,
           UNCHANGED dbVars, next.at # "up" => next.loaded = release,
           ProgressIsTrue(p)'
    PROVE  StartupInvariant'
  <1>1. process \in [Processes -> Started \union {Down}]
    BY DEF StartupInvariant, StartupTypeOK
  <1>2. StartupTypeOK'
    BY <1>1 DEF StartupInvariant, StartupTypeOK, dbVars
  <1>3. process'[p] = next /\ MovesOnly(p)
    BY <1>1 DEF MovesOnly
  <1>4. Grows /\ StartsAreRepeatable'
    BY Unmoved
  <1> QED
    BY <1>2, <1>3, <1>4, StepKeeps

\* What the invariant says of a process that is starting.
LEMMA WhoIsStarting ==
    ASSUME StartupInvariant, NEW p \in Processes, process[p] # Down
    PROVE  /\ process[p] \in Started
           /\ Starting(p) => process[p].loaded = release
           /\ ProgressIsTrue(p)
           /\ process[p].loaded \in Releases
  <1>1. process[p] \in Started \union {Down}
    BY DEF StartupInvariant, StartupTypeOK
  <1> QED
    BY <1>1 DEF StartupInvariant, StartsTheRelease, Started

-----------------------------------------------------------------------------
\* One lemma per step

LEMMA BeginKeeps ==
    ASSUME StartupInvariant, NEW p \in Processes, Begin(p)
    PROVE  StartupInvariant'
  <1> DEFINE next == [at |-> "verify", loaded |-> release, pending |-> {},
                      blind |-> TRUE]
  <1>1. next \in Started
    BY DEF Started, StartupInvariant, StartupTypeOK
  <1>2. process' = [process EXCEPT ![p] = next]
    BY DEF Begin
  <1>3. process'[p] = next
    BY <1>2 DEF StartupInvariant, StartupTypeOK
  <1>4. ProgressIsTrue(p)'
    BY <1>3 DEF ProgressIsTrue
  <1> QED
    BY <1>1, <1>2, <1>4, GoesOn DEF Begin

LEMMA VerifyKeeps ==
    ASSUME StartupInvariant, NEW p \in Processes, Verify(p)
    PROVE  StartupInvariant'
  <1>1. process[p] # Down /\ process[p].at \in {"verify", "reverify"}
    BY DEF Verify
  <1>2. PICK applied \in Applied :
            IF Matches(applied, process[p].loaded)
            THEN process' = [process EXCEPT ![p] = Verified(@, applied)]
            ELSE Refuse(p)
    BY DEF Verify
  <1>3. UNCHANGED <<release, dbVars>>
    BY DEF Verify
  <1>4. CASE Matches(applied, process[p].loaded)
    <2> DEFINE next == Verified(process[p], applied)
    <2>1. next \in Started /\ next.loaded = process[p].loaded
      BY <1>1, WhoIsStarting DEF Started, Verified
    <2>2. process' = [process EXCEPT ![p] = next]
      BY <1>2, <1>4
    <2>3. process'[p] = next
      BY <2>2 DEF StartupInvariant, StartupTypeOK
    <2>4. ~next.blind => \A v \in DOMAIN recorded : /\ v \in Files(next.loaded)
                                                  /\ recorded[v] = next.loaded.files[v]
      <3>1. CASE applied = recorded
        BY <1>4, <2>1, <3>1 DEF Matches
      <3>2. CASE applied # recorded
        <4>1. next.blind = process[p].blind
          BY <1>1, <3>2, WhoIsStarting DEF Started, Verified
        <4> QED
          BY <1>1, <2>1, <4>1, WhoIsStarting DEF ProgressIsTrue
      <3> QED
        BY <3>1, <3>2
    <2>5. next.at \in {"reverify", "list"}
      BY <1>1, WhoIsStarting DEF Started, Verified
    <2>6. ProgressIsTrue(p)'
      BY <1>3, <2>3, <2>4, <2>5 DEF ProgressIsTrue, dbVars
    <2> QED
      BY <1>1, <1>3, <2>1, <2>2, <2>6, WhoIsStarting, GoesOn
  <1>5. CASE ~Matches(applied, process[p].loaded)
    BY <1>2, <1>3, <1>5, Unmoved, GoneDown
    DEF dbVars, StartupInvariant, StartupTypeOK
  <1> QED
    BY <1>4, <1>5

LEMMA ListPendingKeeps ==
    ASSUME StartupInvariant, NEW p \in Processes, ListPending(p)
    PROVE  StartupInvariant'
  <1>1. process[p] # Down /\ process[p].at = "list"
    BY DEF ListPending
  <1>2. /\ process[p] \in Started /\ process[p].loaded = release
        /\ ProgressIsTrue(p)
    BY <1>1, WhoIsStarting
  <1>3. PICK applied \in Applied :
            process' = [process EXCEPT
                ![p].pending = Files(process[p].loaded) \ DOMAIN applied,
                ![p].at = IF Files(process[p].loaded) \ DOMAIN applied = {}
                          THEN "drift" ELSE "script"]
    BY DEF ListPending
  <1>4. UNCHANGED <<release, dbVars>>
    BY DEF ListPending
  <1> DEFINE pending == Files(process[p].loaded) \ DOMAIN applied
             next == [process[p] EXCEPT !.pending = pending,
                          !.at = IF pending = {} THEN "drift" ELSE "script"]
  <1>5. /\ next \in Started /\ next.pending = pending
        /\ next.loaded = process[p].loaded /\ next.blind = process[p].blind
        /\ next.at = IF pending = {} THEN "drift" ELSE "script"
    <2>1. pending \subseteq Versions
      BY <1>1, WhoIsStarting, ReleaseIs
    <2> QED
      BY <1>2, <2>1 DEF Started
  <1>6. process' = [process EXCEPT ![p] = next]
    BY <1>3
  <1>7. process'[p] = next
    BY <1>6 DEF StartupInvariant, StartupTypeOK
  <1>8. Files(process[p].loaded) \ pending \subseteq DOMAIN recorded
    BY DEF Applied
  <1>9. ProgressIsTrue(p)'
    BY <1>1, <1>2, <1>4, <1>5, <1>7, <1>8 DEF ProgressIsTrue, dbVars, Files
  <1> QED
    BY <1>2, <1>4, <1>5, <1>6, <1>9, GoesOn

\* What a script that has committed leaves.
LEMMA ScriptLeaves ==
    ASSUME StartupInvariant, NEW loaded \in Releases, NEW v \in Files(loaded),
           Execute(v, loaded.files[v]), UNCHANGED <<recorded, rows>>,
           \A w \in Versions : w < v => w \in DOMAIN recorded
    PROVE  /\ SchemaTyped' /\ Grows /\ StartsAreRepeatable'
           /\ <<v, loaded.files[v]>> \in ran'
  <1>1. v \in Versions /\ loaded.files[v] \in Scripts
    BY ReleaseIs
  <1>2. SchemaTyped /\ StartsAreRepeatable
    BY DEF StartupInvariant, StartupTypeOK
  <1>3. ran' = ran \union {<<v, loaded.files[v]>>}
    BY DEF Execute
  <1>4. SchemaTyped'
    BY <1>1, <1>2 DEF Execute, SchemaTyped, Scripts
  <1>5. columns \ columns' \subseteq UNION {s[2].drops : s \in ran'}
    <2>1. columns \ columns' \subseteq loaded.files[v].drops
      BY DEF Execute
    <2>2. <<v, loaded.files[v]>>[2] = loaded.files[v] /\ <<v, loaded.files[v]>> \in ran'
      BY <1>3
    <2> QED
      BY <2>1, <2>2
  <1>6. StartsAreRepeatable'
    <2>1. ASSUME NEW script \in ran', NEW w \in Versions, w < script[1]
          PROVE  w \in DOMAIN recorded
      BY <1>2, <1>3, <2>1 DEF StartsAreRepeatable
    <2> QED
      BY <1>2, <1>3, <2>1 DEF StartsAreRepeatable
  <1> QED
    BY <1>3, <1>4, <1>5, <1>6 DEF Grows

\* The next of the pending migrations has everything before it recorded.
LEMMA NextIsNext ==
    ASSUME StartupInvariant, NEW p \in Processes,
           process[p].at \in {"script", "record"}, NEW v \in NextOf(process[p].pending)
    PROVE  /\ v \in process[p].pending /\ v \in Files(process[p].loaded)
           /\ \A w \in process[p].pending : v <= w
           /\ \A w \in Versions : w < v => w \in DOMAIN recorded
  <1>1. /\ process[p] \in Started /\ ProgressIsTrue(p)
        /\ process[p].loaded \in Releases
    BY WhoIsStarting
  <1>2. /\ v \in process[p].pending /\ v \in Files(process[p].loaded)
        /\ \A w \in process[p].pending : v <= w
    BY <1>1 DEF NextOf, ProgressIsTrue
  <1>3. ASSUME NEW w \in Versions, w < v
        PROVE  w \in DOMAIN recorded
    <2>1. v \in Nat /\ w \in Nat /\ v \in Versions
      BY <1>1, <1>2, StartupAssumption, ReleaseIs
    <2>2. w \in Files(process[p].loaded)
      BY <1>1, <1>2, <1>3, <2>1, ReleaseIs
    <2>3. w \notin process[p].pending
      BY <1>2, <1>3, <2>1
    <2> QED
      BY <1>1, <2>2, <2>3 DEF ProgressIsTrue
  <1> QED
    BY <1>2, <1>3

LEMMA RunScriptKeeps ==
    ASSUME StartupInvariant, NEW p \in Processes, RunScript(p)
    PROVE  StartupInvariant'
  <1>1. process[p].at = "script" /\ UNCHANGED <<release, recorded, rows>>
    BY DEF RunScript
  <1>2. /\ process[p] \in Started /\ process[p].loaded = release
        /\ ProgressIsTrue(p) /\ process[p].loaded \in Releases
    BY <1>1, WhoIsStarting
  <1>3. PICK v \in NextOf(process[p].pending) :
            \/ /\ Execute(v, process[p].loaded.files[v])
               /\ Go(p, "record") \/ Refuse(p)
            \/ UNCHANGED schemaVars /\ Refuse(p)
    BY DEF RunScript
  <1>4. /\ v \in process[p].pending /\ v \in Files(process[p].loaded)
        /\ \A w \in process[p].pending : v <= w
        /\ \A w \in Versions : w < v => w \in DOMAIN recorded
    BY <1>1, <1>3, NextIsNext
  <1>5. StartupTypeOK /\ rows' \in BOOLEAN /\ DOMAIN recorded' \subseteq Versions
    BY <1>1 DEF StartupInvariant, StartupTypeOK
  <1>6. CASE UNCHANGED schemaVars /\ Refuse(p)
    BY <1>1, <1>5, <1>6, Unmoved, GoneDown DEF dbVars, StartupTypeOK
  <1>7. CASE Execute(v, process[p].loaded.files[v])
    <2>1. /\ SchemaTyped' /\ Grows /\ StartsAreRepeatable'
          /\ <<v, process[p].loaded.files[v]>> \in ran'
      BY <1>1, <1>2, <1>4, <1>7, ScriptLeaves
    <2>2. CASE Refuse(p)
      BY <1>1, <1>5, <2>1, <2>2, GoneDown
    <2>3. CASE Go(p, "record")
      <3> DEFINE next == [process[p] EXCEPT !.at = "record"]
      <3>1. /\ next \in Started /\ next.at = "record"
            /\ next.loaded = process[p].loaded /\ next.pending = process[p].pending
            /\ next.blind = process[p].blind
        BY <1>2 DEF Started
      <3>2. process' = [process EXCEPT ![p] = next]
        BY <2>3 DEF Go
      <3>3. process'[p] = next /\ MovesOnly(p)
        BY <1>5, <3>2 DEF MovesOnly, StartupTypeOK
      <3>4. StartupTypeOK'
        BY <1>1, <1>5, <2>1, <3>1, <3>2 DEF StartupTypeOK
      <3>5. \A w \in process[p].pending :
                (\A u \in process[p].pending : w <= u) => w = v
        <4>1. \A w \in process[p].pending : w \in Nat
          BY <1>2, StartupAssumption DEF Started
        <4> QED
          BY <1>4, <4>1
      <3>6. ProgressIsTrue(p)'
        BY <1>1, <1>2, <2>1, <3>1, <3>3, <3>5 DEF ProgressIsTrue, Files
      <3> QED
        BY <1>1, <1>2, <2>1, <3>1, <3>3, <3>4, <3>6, StepKeeps
    <2> QED
      BY <1>3, <1>6, <2>2, <2>3
  <1> QED
    BY <1>3, <1>6, <1>7

LEMMA RecordRowKeeps ==
    ASSUME StartupInvariant, NEW p \in Processes, RecordRow(p)
    PROVE  StartupInvariant'
  <1>1. process[p].at = "record" /\ UNCHANGED <<release, schemaVars, rows>>
    BY DEF RecordRow
  <1>2. /\ process[p] \in Started /\ process[p].loaded = release
        /\ ProgressIsTrue(p) /\ process[p].loaded \in Releases
    BY <1>1, WhoIsStarting
  <1> DEFINE Next(left) == [process[p] EXCEPT !.pending = left,
                               !.at = IF left = {} THEN "drift" ELSE "script"]
  <1>3. PICK v \in NextOf(process[p].pending) :
            \/ /\ Insert(v, process[p].loaded.files[v])
               /\ \/ process' = [process EXCEPT ![p] = Next(process[p].pending \ {v})]
                  \/ Refuse(p)
            \/ UNCHANGED recorded /\ Refuse(p)
    BY DEF RecordRow
  <1>4. /\ v \in process[p].pending /\ v \in Files(process[p].loaded)
        /\ \A w \in process[p].pending : v <= w
        /\ \A w \in Versions : w < v => w \in DOMAIN recorded
    BY <1>1, <1>3, NextIsNext
  <1>5. StartupTypeOK /\ StartsAreRepeatable
    BY DEF StartupInvariant
  <1>6. CASE UNCHANGED recorded /\ Refuse(p)
    BY <1>1, <1>5, <1>6, Unmoved, GoneDown DEF dbVars, StartupTypeOK
  <1>7. CASE Insert(v, process[p].loaded.files[v])
    <2>1. /\ v \notin DOMAIN recorded /\ DOMAIN recorded' = DOMAIN recorded \union {v}
          /\ recorded'[v] = release.files[v]
          /\ \A w \in DOMAIN recorded : recorded'[w] = recorded[w]
      BY <1>2, <1>7 DEF Insert
    <2>2. Grows
      BY <1>1, <1>2, <1>4, <2>1 DEF Grows
    <2>3. <<v, release.files[v]>> \in ran
      BY <1>1, <1>2, <1>4 DEF ProgressIsTrue
    <2>4. StartsAreRepeatable'
      BY <1>1, <1>5, <2>1, <2>3 DEF StartsAreRepeatable
    <2>5. DOMAIN recorded' \subseteq Versions
      BY <1>2, <1>4, <1>5, <2>1, ReleaseIs DEF StartupTypeOK
    <2>6. CASE Refuse(p)
      BY <1>1, <1>5, <2>2, <2>4, <2>5, <2>6, GoneDown DEF StartupTypeOK
    <2>7. CASE process' = [process EXCEPT ![p] = Next(process[p].pending \ {v})]
      <3> DEFINE left == process[p].pending \ {v}
      <3>1. /\ Next(left) \in Started /\ Next(left).pending = left
            /\ Next(left).loaded = process[p].loaded
            /\ Next(left).blind = process[p].blind
            /\ Next(left).at = IF left = {} THEN "drift" ELSE "script"
        BY <1>2 DEF Started
      <3> HIDE DEF Next
      <3>2. process'[p] = Next(left) /\ MovesOnly(p)
        BY <1>5, <2>7 DEF MovesOnly, StartupTypeOK
      <3>3. StartupTypeOK'
        BY <1>1, <1>5, <2>5, <2>7, <3>1 DEF StartupTypeOK
      <3>4. /\ left \subseteq Files(process[p].loaded)
            /\ Files(process[p].loaded) \ left \subseteq DOMAIN recorded'
        BY <1>1, <1>2, <2>1 DEF ProgressIsTrue
      <3>5. ~process[p].blind =>
                \A w \in DOMAIN recorded' : /\ w \in Files(process[p].loaded)
                                            /\ recorded'[w] = process[p].loaded.files[w]
        BY <1>1, <1>2, <1>4, <2>1 DEF ProgressIsTrue
      <3>6. ProgressIsTrue(p)'
        BY <3>1, <3>2, <3>4, <3>5 DEF ProgressIsTrue, Files
      <3> QED
        BY <1>1, <1>2, <2>2, <2>4, <3>1, <3>2, <3>3, <3>6, StepKeeps
    <2> QED
      BY <1>3, <1>6, <2>6, <2>7
  <1> QED
    BY <1>3, <1>6, <1>7

\* The comparison with the schema, the graph, and the recoveries: a process goes
\* on to the next of them, or ends.
LEMMA StageKeeps ==
    ASSUME StartupInvariant, NEW p \in Processes,
           CheckDrift(p) \/ InitialiseGraph(p) \/ RecoverAndServe(p)
    PROVE  StartupInvariant'
  <1>1. /\ process[p].at \in {"drift", "graph", "recover"}
        /\ UNCHANGED <<release, dbVars>>
    BY DEF CheckDrift, InitialiseGraph, RecoverAndServe
  <1>2. /\ process[p] \in Started /\ process[p].loaded = release
        /\ ProgressIsTrue(p)
    BY <1>1, WhoIsStarting
  <1>3. PICK to \in {"graph", "recover", "up"} :
            \/ /\ Go(p, to)
               /\ to = "graph" => process[p].loaded.needs \subseteq columns
               /\ to = "graph" <=> process[p].at = "drift"
            \/ Refuse(p)
    BY DEF CheckDrift, InitialiseGraph, RecoverAndServe
  <1>4. CASE Refuse(p)
    BY <1>1, <1>4, Unmoved, GoneDown DEF dbVars, StartupInvariant, StartupTypeOK
  <1>5. CASE ~Refuse(p)
    <2> DEFINE next == [process[p] EXCEPT !.at = to]
    <2>1. /\ next \in Started /\ next.at = to /\ next.loaded = process[p].loaded
          /\ next.blind = process[p].blind
      BY <1>2 DEF Started
    <2>2. process' = [process EXCEPT ![p] = next]
      BY <1>3, <1>5 DEF Go
    <2>3. process'[p] = next
      BY <2>2 DEF StartupInvariant, StartupTypeOK
    <2>4. process[p].loaded.needs \ columns \subseteq DroppedBeside(process[p].loaded)
      BY <1>1, <1>2, <1>3, <1>5 DEF ProgressIsTrue
    <2>5. ProgressIsTrue(p)'
      BY <1>1, <1>2, <2>1, <2>3, <2>4 DEF ProgressIsTrue, dbVars, Files, DroppedBeside
    <2> QED
      BY <1>1, <1>2, <2>1, <2>2, <2>5, GoesOn
  <1> QED
    BY <1>4, <1>5

LEMMA ServingKeeps ==
    ASSUME StartupInvariant, NEW p \in Processes, Checkpoint(p) \/ Exit(p)
    PROVE  StartupInvariant'
  <1>1. CASE Exit(p)
    BY <1>1, Unmoved, GoneDown DEF Exit, dbVars, schemaVars, StartupInvariant, StartupTypeOK
  <1>2. CASE Checkpoint(p)
    <2>1. /\ process[p].at = "up" /\ Guarded \in Files(process[p].loaded)
          /\ rows' = TRUE /\ UNCHANGED <<release, process, schemaVars, recorded>>
      BY <1>2 DEF Checkpoint
    <2>2. Guarded \in DOMAIN recorded
      BY <2>1, WhoIsStarting DEF ProgressIsTrue
    <2>3. StartupTypeOK' /\ StartsAreRepeatable'
      BY <2>1, <2>2 DEF StartupInvariant, StartupTypeOK, StartsAreRepeatable
    <2>4. Grows
      BY <2>1 DEF Grows
    <2>5. ProgressIsTrue(p)'
      BY <2>1, <2>4, StillTrue DEF StartupInvariant, StartupTypeOK
    <2> QED
      BY <2>1, <2>3, <2>4, <2>5, StepKeeps DEF MovesOnly
  <1> QED
    BY <1>1, <1>2

\* Deploying changes nothing for a process that serves; nobody is starting.
LEMMA DeployKeeps ==
    ASSUME StartupInvariant, Deploy
    PROVE  StartupInvariant'
  <1>1. /\ release' \in Releases /\ UNCHANGED <<process, dbVars>>
        /\ \A p \in Processes : ~Starting(p)
    BY DEF Deploy
  <1>2. StartupTypeOK' /\ StartsAreRepeatable' /\ StartsTheRelease'
    BY <1>1 DEF StartupInvariant, StartupTypeOK, StartsAreRepeatable,
                StartsTheRelease, dbVars
  <1>3. ASSUME NEW p \in Processes PROVE ProgressIsTrue(p)'
    BY <1>1 DEF StartupInvariant, ProgressIsTrue, dbVars, Files, DroppedBeside
  <1> QED
    BY <1>2, <1>3 DEF StartupInvariant

-----------------------------------------------------------------------------
\* Theorems

LEMMA InitHolds == StartupInit => StartupInvariant
  <1> SUFFICES ASSUME StartupInit PROVE StartupInvariant
    OBVIOUS
  <1>1. /\ DOMAIN recorded = {} /\ ran = {} /\ rows = FALSE
        /\ columns = {} /\ tables = {} /\ release \in Releases
        /\ process \in [Processes -> {Down}]
    BY DEF StartupInit
  <1>2. \A p \in Processes : process[p].at = "down"
    BY <1>1
  <1>3. StartupTypeOK /\ StartsAreRepeatable
    BY <1>1 DEF StartupTypeOK, StartsAreRepeatable
  <1>4. StartsTheRelease /\ \A p \in Processes : ProgressIsTrue(p)
    BY <1>2 DEF StartsTheRelease, ProgressIsTrue
  <1> QED
    BY <1>3, <1>4 DEF StartupInvariant

LEMMA NextKeeps == StartupInvariant /\ [StartupNext]_startupVars => StartupInvariant'
  <1>1. ASSUME StartupInvariant, UNCHANGED startupVars
        PROVE  StartupInvariant'
    BY <1>1 DEF startupVars, dbVars, StartupInvariant, StartupTypeOK,
                StartsAreRepeatable, StartsTheRelease, ProgressIsTrue, Files,
                DroppedBeside
  <1> QED
    BY <1>1, BeginKeeps, VerifyKeeps, ListPendingKeeps, RunScriptKeeps,
       RecordRowKeeps, StageKeeps, ServingKeeps, DeployKeeps DEF StartupNext

\* The inductive invariant: where each process stands, what it believes to be
\* recorded, what is recorded and what has run fit together, through crashes,
\* failed reads, edited files and starts beside each other; in particular every
\* start can be repeated.
THEOREM InvariantOfStartup == StartupSpec => []StartupInvariant
  BY InitHolds, NextKeeps, PTL DEF StartupSpec

\* No process serves on a schema that lacks a migration of its release or, but
\* for what scripts of other releases dropped, a column its code declares; nor,
\* unless its reads had failed, on one that was recorded with other contents.
THEOREM ServesOnItsSchema == StartupSpec => []ServesWhatItDeclares
  <1>1. ASSUME StartupInvariant, NEW p \in Processes, process[p].at = "up",
               NEW v \in Files(process[p].loaded)
        PROVE  /\ v \in DOMAIN recorded
               /\ recorded[v] = process[p].loaded.files[v] \/ process[p].blind
    BY <1>1, WhoIsStarting DEF ProgressIsTrue, Files
  <1>2. ASSUME StartupInvariant, NEW p \in Processes, process[p].at = "up"
        PROVE  process[p].loaded.needs \ columns \subseteq DroppedBeside(process[p].loaded)
    BY <1>2 DEF StartupInvariant, ProgressIsTrue
  <1>3. StartupInvariant => ServesWhatItDeclares
    BY <1>1, <1>2 DEF ServesWhatItDeclares
  <1> QED
    BY <1>3, InvariantOfStartup, PTL
=============================================================================
