------------------------------- MODULE Startup -------------------------------
(***************************************************************************)
(* start: verify the migrations, apply those that are pending, compare the *)
(* schema with what the code declares, check the graph, recover, serve.    *)
(*                                                                         *)
(* A migration's script and the row that records it are two transactions,  *)
(* and the process may die between them.  Another process may be started   *)
(* beside the first, and between starts another release may be deployed:   *)
(* one with more migrations, with fewer, or with one that was edited.      *)
(* Reading what is recorded may fail, which is taken for a new database.   *)
(***************************************************************************)
EXTENDS Naturals, FiniteSets

CONSTANTS
    Processes,
    Versions,    \* of migrations: 1, 2, ...
    Columns,     \* of all tables
    Releases,    \* [files: the script of each of its versions, needs: columns]
    Guarded,     \* the version whose script refuses when checkpoints exist
    MaxStarts,   \* bound on the starts
    MaxDeploys   \* bound on the deployments

\* What a script does to the columns: it creates tables that do not exist, drops
\* columns, and adds those that are missing.  Types, keys and indices, which
\* the comparison with the schema does not look at either, are left out.
Scripts == [creates : SUBSET Columns, drops : SUBSET Columns, adds : SUBSET Columns]

\* A release has no gap in its versions, and declares no column that one of its
\* own scripts drops.
ASSUME StartupAssumption ==
    /\ Versions \subseteq Nat \ {0} /\ Guarded \in Versions
    /\ \A r \in Releases :
          /\ DOMAIN r.files \subseteq Versions
          /\ \A v \in DOMAIN r.files : /\ r.files[v] \in Scripts
                                      /\ r.needs \intersect r.files[v].drops = {}
          /\ \A v, w \in Versions : v < w /\ w \in DOMAIN r.files => v \in DOMAIN r.files
          /\ r.needs \subseteq Columns
    /\ {MaxStarts, MaxDeploys} \subseteq Nat

VARIABLES
    release,     \* what is deployed
    columns,     \* that exist
    tables,      \* the versions whose tables exist
    recorded,    \* schema_migrations: of each version, the script by its checksum
    rows,        \* whether workflow_checkpoints holds a row
    process,     \* where each process is, and what it has loaded
    starts,      \* how many starts there were
    deploys,     \* how many deployments
    ran          \* history: the scripts that have committed, with their versions

schemaVars == <<columns, tables, ran>>
dbVars == <<schemaVars, recorded, rows>>
startupVars == <<release, process, starts, deploys, dbVars>>

Down == [at |-> "down"]
Stages == {"verify", "reverify", "list", "script", "record", "drift",
           "graph", "recover", "up"}
Starting(p) == process[p].at \notin {"down", "up"}

\* A process that was started: where it is, and what it has loaded and read.
Started == [at : Stages, loaded : Releases, pending : SUBSET Versions,
            blind : BOOLEAN]

StartupTypeOK ==
    /\ release \in Releases
    /\ columns \subseteq Columns /\ tables \subseteq Versions
    /\ DOMAIN recorded \subseteq Versions
    /\ rows \in BOOLEAN
    /\ process \in [Processes -> Started \union {Down}]
    /\ ran \subseteq Versions \X Scripts

StartupInit ==
    /\ release \in Releases
    /\ columns = {} /\ tables = {}
    /\ recorded = <<>>
    /\ rows = FALSE
    /\ process = [p \in Processes |-> Down]
    /\ starts = 0 /\ deploys = 0
    /\ ran = {}

-----------------------------------------------------------------------------
Files(r) == DOMAIN r.files
Go(p, to) == process' = [process EXCEPT ![p].at = to]
Refuse(p) == process' = [process EXCEPT ![p] = Down]

Begin(p) ==
    /\ process[p] = Down /\ starts < MaxStarts
    /\ starts' = starts + 1
    /\ process' = [process EXCEPT ![p] =
                      [at |-> "verify", loaded |-> release, pending |-> {},
                       blind |-> TRUE]]
    /\ UNCHANGED <<release, deploys, dbVars>>

\* applied: what is recorded, or nothing when the read fails for any reason.
Applied == {recorded, <<>>}

\* verify_checksums, on what it has read.
Matches(applied, loaded) ==
    \A v \in DOMAIN applied : v \in Files(loaded) /\ loaded.files[v] = applied[v]

\* start verifies once, and apply_pending once more.  blind is history: nothing
\* recorded has been seen by either.
Verified(me, applied) ==
    [me EXCEPT !.at = IF @ = "verify" THEN "reverify" ELSE "list",
               !.blind = @ /\ applied # recorded]

Verify(p) ==
    /\ process[p].at \in {"verify", "reverify"}
    /\ \E applied \in Applied :
          IF Matches(applied, process[p].loaded)
          THEN process' = [process EXCEPT ![p] = Verified(@, applied)]
          ELSE Refuse(p)
    /\ UNCHANGED <<release, starts, deploys, dbVars>>

ListPending(p) ==
    /\ process[p].at = "list"
    /\ \E applied \in Applied :
          LET pending == Files(process[p].loaded) \ DOMAIN applied IN
          process' = [process EXCEPT ![p].pending = pending,
                                     ![p].at = IF pending = {} THEN "drift" ELSE "script"]
    /\ UNCHANGED <<release, starts, deploys, dbVars>>

\* Variant: the files in whatever order they are found.
AnyOf(pending) == pending

\* discover sorts the files.
NextOf(pending) == {v \in pending : \A w \in pending : v <= w}

\* A script is one transaction.  The tables that exist it leaves as they are,
\* whatever is different in their text by now; columns it adds and drops.
Execute(v, script) ==
    /\ v = Guarded => ~rows
    /\ LET there == IF v \in tables THEN columns ELSE columns \union script.creates
       IN  columns' = (there \ script.drops) \union script.adds
    /\ tables' = tables \union {v}
    /\ ran' = ran \union {<<v, script>>}

\* The script is executed; or raises, or its answer is lost: start raises too.
RunScript(p) ==
    /\ process[p].at = "script"
    /\ \E v \in NextOf(process[p].pending) :
          \/ /\ Execute(v, process[p].loaded.files[v])
             /\ Go(p, "record") \/ Refuse(p)
          \/ UNCHANGED schemaVars /\ Refuse(p)
    /\ UNCHANGED <<release, starts, deploys, recorded, rows>>

\* The row, in a transaction of its own, which the primary key may refuse.
Insert(v, script) ==
    /\ v \notin DOMAIN recorded
    /\ recorded' = [w \in DOMAIN recorded \union {v} |->
                       IF w = v THEN script ELSE recorded[w]]

RecordRow(p) ==
    /\ process[p].at = "record"
    /\ \E v \in NextOf(process[p].pending) :
          LET left == process[p].pending \ {v} IN
          \/ /\ Insert(v, process[p].loaded.files[v])
             /\ \/ process' = [process EXCEPT
                       ![p].pending = left,
                       ![p].at = IF left = {} THEN "drift" ELSE "script"]
                \/ Refuse(p)
          \/ UNCHANGED recorded /\ Refuse(p)
    /\ UNCHANGED <<release, starts, deploys, schemaVars, rows>>

\* Variant: the comparison only warns.
WarnOfDrift(p) ==
    /\ process[p].at = "drift"
    /\ Go(p, "graph")
    /\ UNCHANGED <<release, starts, deploys, dbVars>>

\* assert_matches: every column that is declared exists.
CheckDrift(p) ==
    /\ process[p].at = "drift"
    /\ \/ /\ process[p].loaded.needs \subseteq columns
          /\ Go(p, "graph")
       \/ Refuse(p)
    /\ UNCHANGED <<release, starts, deploys, dbVars>>

\* The graph's version and its indices; then the two recoveries.
InitialiseGraph(p) ==
    /\ process[p].at = "graph"
    /\ Go(p, "recover") \/ Refuse(p)
    /\ UNCHANGED <<release, starts, deploys, dbVars>>

RecoverAndServe(p) ==
    /\ process[p].at = "recover"
    /\ Go(p, "up") \/ Refuse(p)
    /\ UNCHANGED <<release, starts, deploys, dbVars>>

\* A process that serves keeps checkpoints, if its release does.
Checkpoint(p) ==
    /\ process[p].at = "up"
    /\ Guarded \in Files(process[p].loaded)
    /\ rows' = TRUE
    /\ UNCHANGED <<release, process, starts, deploys, schemaVars, recorded>>

\* Stopped, or dead.
Exit(p) ==
    /\ process[p] # Down
    /\ Refuse(p)
    /\ UNCHANGED <<release, starts, deploys, dbVars>>

\* Another release, while nobody is starting.
Deploy ==
    /\ deploys < MaxDeploys /\ deploys' = deploys + 1
    /\ \A p \in Processes : ~Starting(p)
    /\ release' \in Releases
    /\ UNCHANGED <<process, starts, dbVars>>

StartupNext ==
    \/ Deploy
    \/ \E p \in Processes :
          \/ Begin(p) \/ Verify(p) \/ ListPending(p) \/ RunScript(p) \/ RecordRow(p)
          \/ CheckDrift(p) \/ InitialiseGraph(p) \/ RecoverAndServe(p)
          \/ Checkpoint(p) \/ Exit(p)

StartupSpec == StartupInit /\ [][StartupNext]_startupVars

-----------------------------------------------------------------------------
\* The columns dropped by scripts that are not of a release.
DroppedBeside(r) ==
    UNION {s[2].drops : s \in {x \in ran : x[1] \notin Files(r) \/ r.files[x[1]] # x[2]}}

\* Whatever crashed, failed or ran beside it, and whatever was edited, a process
\* serves only on a schema that has every migration of its release recorded and
\* every column its code declares; and on one recorded with other contents only
\* when both of its reads of what is recorded had failed.  What it can lose
\* while it serves is a column that a script of another release drops: nothing
\* stops a newer release from being started beside an older one.
ServesWhatItDeclares ==
    \A p \in Processes : process[p].at = "up" =>
        /\ process[p].loaded.needs \ columns \subseteq DroppedBeside(process[p].loaded)
        /\ \A v \in Files(process[p].loaded) :
              /\ v \in DOMAIN recorded
              /\ recorded[v] = process[p].loaded.files[v] \/ process[p].blind

\* A start that is cut anywhere can be repeated: what is recorded has run, a
\* script runs only when every one before it is recorded, and the one script
\* that cannot run twice is recorded before anybody writes what it guards.
StartsAreRepeatable ==
    /\ \A v \in DOMAIN recorded : <<v, recorded[v]>> \in ran
    /\ \A script \in ran : \A v \in Versions :
          v < script[1] => v \in DOMAIN recorded
    /\ rows => Guarded \in DOMAIN recorded

\* Everybody who is starting starts the release that is deployed.
StartsTheRelease ==
    \A p \in Processes : Starting(p) => process[p].loaded = release

\* How far a process has come is true of the database, whatever others do.
ProgressIsTrue(p) ==
    LET me == process[p] IN
    /\ me.at \in {"script", "record"} =>
          /\ me.pending \subseteq Files(me.loaded)
          /\ Files(me.loaded) \ me.pending \subseteq DOMAIN recorded
    /\ me.at = "record" =>
          \A v \in me.pending :
              (\A w \in me.pending : v <= w) => <<v, me.loaded.files[v]>> \in ran
    /\ me.at \in {"drift", "graph", "recover", "up"} =>
          Files(me.loaded) \subseteq DOMAIN recorded
    /\ me.at \in {"graph", "recover", "up"} =>
          me.loaded.needs \ columns \subseteq DroppedBeside(me.loaded)
    /\ Starting(p) /\ ~me.blind =>
          \A v \in DOMAIN recorded : v \in Files(me.loaded) /\ recorded[v] = me.loaded.files[v]
    /\ me.at = "up" /\ ~me.blind =>
          \A v \in Files(me.loaded) : recorded[v] = me.loaded.files[v]

\* Processes, what is recorded and what has run fit together.
StartupInvariant ==
    /\ StartupTypeOK
    /\ StartsAreRepeatable
    /\ StartsTheRelease
    /\ \A p \in Processes : ProgressIsTrue(p)
=============================================================================
