------------------------- MODULE ExtractionWorkflow -------------------------
(***************************************************************************)
(* The background write path of one episode: the LangGraph nodes load,     *)
(* ingest, extract, detect, commit and reconcile, each a handful of        *)
(* awaits over the stores.  Several episodes run at once, interleaved at   *)
(* node boundaries; who may run, and when a run is cut short, is decided   *)
(* by ExtractionCoordinator, which extends this module.                    *)
(*                                                                         *)
(* The data of an episode is abstracted to what the control flow tells     *)
(* apart: whether the extractor found nothing, entities only, or memories  *)
(* (facts, events, relationships, the rows that get provenance), and which *)
(* kinds of finding the model reported.                                    *)
(***************************************************************************)
EXTENDS Naturals, FiniteSets

CONSTANTS
    Episodes,        \* one per message or document ever recorded
    Findings,        \* kinds of finding a model call may report
    Anchored,        \* those whose facts, if any, name a subject
    CandidateLimit   \* episodes whose facts one detection compares against

FindingKinds == {"change", "contradiction", "unclear"}

ASSUME WorkflowAssumption ==
    /\ IsFiniteSet(Episodes)
    /\ Findings \subseteq FindingKinds
    /\ Anchored \subseteq Episodes
    /\ CandidateLimit \in Nat \ {0}

VARIABLES
    \* volatile, one run of the graph per episode
    node,          \* the node the run of an episode has reached
    yield,         \* what the extract node found
    found,         \* findings so far: conflict kinds, then "unclear" at commit
    seen,          \* episodes whose memories the detect node read
    \* durable
    saved,         \* episodes whose row is in PostgreSQL
    inGraph,       \* episodes added to the graph
    ingested,      \* episodes whose ingestion watermark is set in PostgreSQL
    commits,       \* commit transactions that wrote memories, per episode
    unreconciled   \* committed with a TEMPORAL_CHANGE, reconcile not yet run

runVars     == <<node, yield, found, seen>>
memoryVars  == <<commits, unreconciled>>
episodeVars == <<saved, inGraph, ingested>>
workflowVars == <<runVars, memoryVars, episodeVars>>

WorkingNodes == {"load", "ingest", "extract", "detect", "commit", "reconcile"}
Nodes  == WorkingNodes \union {"idle", "returned", "raised"}
Yields == {"nothing", "entities", "memories"}

WorkflowTypeOK ==
    /\ node \in [Episodes -> Nodes]
    /\ yield \in [Episodes -> Yields]
    /\ found \in [Episodes -> SUBSET Findings]
    /\ seen \in [Episodes -> SUBSET Episodes]
    /\ saved \subseteq Episodes
    /\ inGraph \subseteq Episodes
    /\ ingested \subseteq Episodes
    /\ commits \in [Episodes -> Nat]
    /\ unreconciled \subseteq Episodes

\* Every field of a run at rest.
RunsAtRest ==
    /\ node = [e \in Episodes |-> "idle"]
    /\ yield = [e \in Episodes |-> "nothing"]
    /\ found = [e \in Episodes |-> {}]
    /\ seen = [e \in Episodes |-> {}]

WorkflowInit ==
    /\ RunsAtRest
    /\ saved = {}
    /\ inGraph = {}
    /\ ingested = {}
    /\ commits = [e \in Episodes |-> 0]
    /\ unreconciled = {}

\* memories_from_episode: provenance rows exist for facts, events and
\* relationships, never for entities.
Committed == {e \in Episodes : commits[e] > 0}

-----------------------------------------------------------------------------
\* record_message: the episode row, before anything is owed for it.
RecordMessage(e) ==
    /\ e \notin saved
    /\ saved' = saved \union {e}
    /\ UNCHANGED <<runVars, memoryVars, inGraph, ingested>>

\* run(episode_id): the graph is entered at START with empty state.
BeginRun(e) ==
    /\ node' = [node EXCEPT ![e] = "load"]
    /\ yield' = [yield EXCEPT ![e] = "nothing"]
    /\ found' = [found EXCEPT ![e] = {}]
    /\ UNCHANGED <<seen, memoryVars, episodeVars>>

\* What is worth remembering of a finished run: seen is history only for the
\* episodes whose memories were committed.
Forget(E) ==
    /\ seen' = [e \in Episodes |-> IF e \in E \ Committed THEN {} ELSE seen[e]]
    /\ yield' = [e \in Episodes |-> IF e \in E THEN "nothing" ELSE yield[e]]
    /\ found' = [e \in Episodes |-> IF e \in E THEN {} ELSE found[e]]

\* The run of e is over, by returning, raising or being cancelled; what it
\* found stays with _run until the status row is written.
EndRun(e) ==
    /\ node' = [node EXCEPT ![e] = "idle"]
    /\ UNCHANGED <<yield, found, seen, memoryVars, episodeVars>>

\* The coroutines of a set of episodes are gone, with all they held.
DropRuns(E) ==
    /\ node' = [e \in Episodes |-> IF e \in E THEN "idle" ELSE node[e]]
    /\ Forget(E)

\* Variant: the run trusts the claim alone and looks for no earlier commit.
AfterLoadUnchecked(e) == IF e \notin saved THEN "raised" ELSE "ingest"

\* A missing episode raises; one with provenance rows skips all that follows.
AfterLoad(e) ==
    IF e \notin saved THEN "raised"
    ELSE IF e \in Committed THEN "returned" ELSE "ingest"

Load(e) ==
    /\ node[e] = "load"
    /\ node' = [node EXCEPT ![e] = AfterLoad(e)]
    /\ UNCHANGED <<yield, found, seen, memoryVars, episodeVars>>

\* Variant: the watermark is set before the graph has answered.
IngestMarkFirst(e) ==
    /\ node[e] = "ingest"
    /\ ingested' = ingested \union {e}
    /\ inGraph' \in {inGraph, inGraph \union {e}}
    /\ node' = [node EXCEPT ![e] = "extract"]
    /\ UNCHANGED <<yield, found, seen, memoryVars, saved>>

\* The graph call may fail (with or without having added the episode) and the
\* run goes on; a watermark that cannot be written raises.
Ingest(e) ==
    /\ node[e] = "ingest"
    /\ \/ /\ inGraph' \in {inGraph, inGraph \union {e}}
          /\ node' = [node EXCEPT ![e] = "extract"]
          /\ UNCHANGED ingested
       \/ /\ inGraph' = inGraph \union {e}
          /\ \/ /\ ingested' = ingested \union {e}
                /\ node' = [node EXCEPT ![e] = "extract"]
             \/ /\ node' = [node EXCEPT ![e] = "raised"]
                /\ UNCHANGED ingested
    /\ UNCHANGED <<yield, found, seen, memoryVars, saved>>

Extract(e) ==
    /\ node[e] = "extract"
    /\ \E y \in Yields :
          /\ yield' = [yield EXCEPT ![e] = y]
          /\ node' = [node EXCEPT ![e] =
                         IF y = "nothing" THEN "returned" ELSE "detect"]
    /\ UNCHANGED <<found, seen, memoryVars, episodeVars>>

\* What one detection may read of the store: all of it up to the limit, a
\* superseded fact as its replacement, which has the same episode.
Readable ==
    {S \in SUBSET Committed :
        Cardinality(S) = IF Cardinality(Committed) < CandidateLimit
                         THEN Cardinality(Committed) ELSE CandidateLimit}

\* Each existing fact read is classified by a model call of its own; a call
\* that fails reports nothing.  Facts that name no subject are compared with
\* nothing.
Detect(e) ==
    /\ node[e] = "detect"
    /\ \E S \in IF yield[e] = "memories" /\ e \in Anchored
                 THEN Readable ELSE {{}} :
          /\ seen' = [seen EXCEPT ![e] = S]
          /\ \E F \in SUBSET (IF S = {} THEN {} ELSE Findings \ {"unclear"}) :
                found' = [found EXCEPT ![e] = F]
    /\ node' = [node EXCEPT ![e] = "commit"]
    /\ UNCHANGED <<yield, memoryVars, episodeVars>>

\* Variant: the findings of the detection are not acted on.
ReconcileNot(e) ==
    /\ node[e] = "reconcile"
    /\ node' = [node EXCEPT ![e] = "returned"]
    /\ UNCHANGED <<yield, found, seen, memoryVars, episodeVars>>

\* One transaction, whose entities leave nothing a later run looks for.  The
\* connection may be lost after COMMIT took effect: the rows are there and the
\* run raises.
Commit(e) ==
    /\ node[e] = "commit"
    /\ IF yield[e] = "memories"
       THEN /\ commits' = [commits EXCEPT ![e] = @ + 1]
            /\ unreconciled' = IF "change" \in found[e]
                               THEN unreconciled \union {e} ELSE unreconciled
       ELSE UNCHANGED memoryVars
    /\ \/ \E U \in SUBSET (Findings \intersect {"unclear"}) :
             /\ found' = [found EXCEPT ![e] = @ \union U]
             /\ node' = [node EXCEPT ![e] = "reconcile"]
       \/ /\ node' = [node EXCEPT ![e] = "raised"]
          /\ UNCHANGED found
    /\ UNCHANGED <<yield, seen, episodeVars>>

\* A supersession that raises is swallowed: the node never fails the run.
Reconcile(e) ==
    /\ node[e] = "reconcile"
    /\ unreconciled' = unreconciled \ {e}
    /\ node' = [node EXCEPT ![e] = "returned"]
    /\ UNCHANGED <<yield, found, seen, commits, episodeVars>>

\* A store or provider exception that rolls back.  Ingest has its own above and
\* reconcile swallows what it meets.
NodeRaises(e) ==
    /\ node[e] \in {"load", "extract", "detect", "commit"}
    /\ node' = [node EXCEPT ![e] = "raised"]
    /\ UNCHANGED <<yield, found, seen, memoryVars, episodeVars>>

RunStep(e) ==
    \/ Load(e) \/ Ingest(e) \/ Extract(e) \/ Detect(e)
    \/ Commit(e) \/ Reconcile(e) \/ NodeRaises(e)

\* What ExtractionOutcome carries to _queue_notices: contradictions and
\* needs_clarification.  Empty when nothing was committed by this run.
Reported(e) == found[e] \ {"change"}
=============================================================================
