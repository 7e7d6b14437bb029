# Verification of Personal Context AI

TLA+ models of Personal Context AI (`src/src/pca`, with the SQL of `src/migrations`):
its write path, its temporal memory, the workflows that change memory after a
question, its read path and its start; the TLC runs that check them on small
instances, and the theorems TLAPS proves about them. Paths below are relative
to `src/src/pca` unless they start with `migrations`.

## The system

A single-user assistant, one asyncio process over PostgreSQL (the system of record)
and a graph store (a rebuildable projection). A user message is stored, answered
from memory, and then *extracted* in the background into facts, events, entities and
relationships, each with two time axes: when it was true and when it was believed.

| Component | State it keeps | Operations that change it | Interacts with |
|---|---|---|---|
| Conversation turn (`api/conversation.py`) | messages; per response: notices, reply | `send_message`: append, barrier, notices, stream, record, submit, done | coordinator, episodes, reply workflows, degradation |
| Extraction coordinator (`services/extraction_coordinator.py`, `extraction_status`) | status rows; tasks, gate, semaphore, notices | `submit`, `await_barrier`, `take_notices`, `recover_pending`, `drain`, `quiesce`, `resume`, `_run` | workflow (its runner), status repository, the process |
| Extraction workflow (`orchestration/extraction_workflow.py`) | one graph run per episode | load, ingest, extract, detect, commit, reconcile | episodes, extraction, conflicts, memory, provenance |
| Episodes (`services/episodes.py`) | episode rows with an ingestion watermark | `record_message`, `ingest`, `recover_pending` | graph |
| Memory (`services/memory.py`, tables of `migrations/0002`) | facts, events, relationships, entities, provenance | `commit`, `correct`, `supersede`, `retract` | belief history, entities, operation log |
| Belief history (`services/belief_history.py`, `migrations/0003`) | one row per belief window | assertion, correction, supersession, retraction | memory |
| Conflict detection (`services/conflicts.py`) | none | `detect` (a model call per pair) | facts, provider |
| Entities (`services/entities.py`) | entities, aliases, merges | `resolve_for_extraction`, `resolve_self`, `merge` | memory, clarification |
| Correction, clarification (`orchestration/`) | checkpoints of interrupted graphs | `run`, `resume` | memory, entities, checkpointer |
| Checkpointer (`orchestration/checkpointer.py`) | checkpoints and pending writes | `aput`, `aput_writes`, delete | both workflows |
| Provider (`adapters/gemini/provider.py`) | a bulkhead of slots | `complete`, `structured`, `stream`, retries | everything that asks the model |
| Reply (`orchestration/intent_router.py`, `conversation_workflow.py`, `historical_workflow.py`, `services/retrieval.py` and its helpers) | none | retrieval, fusion, budget, context, streaming | facts, graph, provider |
| Timeline (`services/timeline.py`) | none | as-of reads and diffs over both axes | facts, belief history, historical workflow |
| Time (`services/time_resolver.py`) | none | a descriptor and an anchor to dates | extraction, correction |
| Process (`composition.py`, `config/`) | life of the process, schema | start with migrations and recovery, stop with drain | all |

**What is hard.** Several extractions interleave at their awaits; a run can be cut by
its timeout, by cancellation or by a crash anywhere between its transactions; status
writes fail with or without effect; a response can be abandoned at any await; turns
of one conversation overlap; facts are read, thought about by a model or a person,
and written later; a question to the user outlives the process that asked it, and its
answer meets a memory that has changed; a graph that lags behind the database ranks
what a reply is told; a start dies between a migration and its record. `PROJECT.json` lists these hazards line by line, with the
properties that cover each.

**What makes the parts correct.** Coordinator: slots are never lost nor overdrawn,
owed work is never forgotten nor done twice, what is settled stays settled, every
task and every stop ends. Turn: nothing disclosed means nothing pending, a finding is
reported once, a message nothing is disclosed of stays owed until its extraction has ended. Timeline: one current belief
per fact that agrees with its row, history that is only ever appended to, and two
axes no operation confuses. Entities: no merge loses a name or strands a link, and
nobody is silently created twice but by commits that overlap. Corrections and
clarifications: an answer is acted on once, and on what the question was about.
History: what was believed at an instant that no write under way reaches back to is
answered the same for ever, and a correction is never told as a change of the world. Reply: it rests on the database,
hides nothing without a reason, and says what could not be searched. Start: a process
serves only on the schema its release declares, unless another release drops part of it.

## Modules

| Module | Models |
|---|---|
| `ExtractionWorkflow` | one run of the graph per episode, and what it leaves in the stores |
| `ExtractionCoordinator` | extends it with rows, tasks, gate, slots, notices and the process |
| `EpisodeLedger` | the abstract promise about one episode: owed, written at most once, settled |
| `ConversationTurn` | extends the coordinator with the turns of a conversation |
| `BeliefTimeline` | facts, belief windows, and concurrent writers with stale reads |
| `EntityResolution` | names resolved during commits, and merges of their rows |
| `ProviderBulkhead` | attempts, backoffs and streams behind the provider's semaphore |
| `Checkpoints` | what a paused workflow saves, in the background and out of order |
| `CorrectionWorkflow` | extends `BeliefTimeline`, over `Checkpoints`: from a complaint to a correction |
| `ClarificationWorkflow` | extends `EntityResolution`, over `Checkpoints`: from a question to a merge |
| `TimeResolver` | phrases to instants: a pure module of calendar arithmetic |
| `HistoricalAnalysis` | extends `BeliefTimeline` and `TimeResolver`: questions about the past |
| `Retrieval` | searches, fusion, traversal, reranking and resolution of one retrieval |
| `ConversationContext` | extends it with the message log and the context of a reply |
| `Startup` | migrations, drift check and start, of several processes and releases |
| `*Proofs` | the theorems: of the coordinator and the turns, the timeline, history and the calendar, corrections, entities and clarifications, the bulkhead, the reply and the start |
| `MC*` | model values and instances for TLC |

The composition follows the code's calls. A turn and a run of the extraction graph
share the coordinator's tasks, so `ConversationTurn` extends the coordinator, which
extends the workflow. Corrections and questions about the past meet in the rows of
`BeliefTimeline`, clarifications and extraction in those of `EntityResolution`; each
workflow is written as steps of the module it stands on, so that it implies that
module's specification (the lemmas `TimelineBeside` of corrections and of history,
`EntitiesBeside`, and `TurnsUseCoordinator`); this says nothing of the code by itself, and
is what lets the theorems of that module be used in the proofs about the workflow.

### State and actions

*ExtractionWorkflow.* `node` is where the graph run of an episode stands, `yield` and
`found` the part of `ExtractionGraphState` the control flow reads. An episode's data
is abstracted to *nothing*, *entities* (or relationships that are all skipped: no
provenance row results) and *memories*. `commits` counts the commit
transactions that leave provenance, so `Committed` is what `memories_from_episode`
finds; `unreconciled` holds the episodes whose own run still owes a supersession. `seen` records which episodes' facts a detection read;
only facts that name a subject (`Anchored`) are compared with anything. `Ingest`
covers the graph call and the watermark: added and marked, added without an answer,
not added, or added with a watermark that could not be written. `Commit` may land
without its acknowledgement. A model call may answer anything or raise.

*ExtractionCoordinator.* `task[e]` is the await at which `_run` is suspended:

    gate -> slot -> mark -> run -> succeed | fail | abandon -> none

The gate and the semaphore wake waiters in order, so `gateQ` and `slotQ` are FIFO
sequences; a waiter that `Event.set` has woken does not look at the event again, which
is why `Resume` moves the whole gate queue at once. `mark_running` stands outside the
`try`, so its failure (`MarkRunningFails`) leaves no state behind; a `TimeoutError`
raised inside the runner is handled as an expiry, so `RunnerRaises` has two outcomes.
`FinishFails` is a `mark_finished` that raises, with or without effect. `CancelTasks`
is the loop closing after the drain: every suspended write may have landed, only
running extractions live on to record `abandoned`. `Crash` may come at any point.
`Start` re-ingests, may fail there, and then re-queues the oldest unfinished rows.

*ConversationTurn.* A turn is named by the episode its message becomes. The barrier is
a snapshot (`awaited`) of the conversation's tasks; the step that leaves it pops the
notices. `Abort` is a disconnect at any await. `Around` lets the coordinator move
between the steps of turns; `quiesce` and `resume` are left out of it because nothing
in the repository calls them while messages are served (`stop` closes the gate after
the responses have ended). Turns in the code wait for an episode's *task*, and so does
the model. `delivered` and `ended` are history variables read by properties only.

*BeliefTimeline.* A fact is its position in `facts`; its statement is left out. A
writer reads (`ReadFact`) and later writes in one transaction (`Correct`, `Supersede`,
`Retract`), which may be refused by a CHECK constraint or lost (`RollBack`). The clock
is read twice: `MemoryService` reads it when it has read the fact (`stamp`), for the
rows, and `BeliefHistoryService` later, with the row locked (`TrailTimes`), for the
trail; what is written lands after both, in one step. A commit likewise is dated
(`BeginCommit`) before it lands (`CommitFact`). Writers to one fact are serialised by
its row lock; rows of the trail that are equal in every column kept are one row.

*EntityResolution.* A row is the pair of the commit that created it and the name it was
created for; `Names` are names up to case, `Spellings` tells apart two ways to write
one, and a message mentions names in an order. `Resolve` decides one mention against what has been *committed*, since
`find_by_name` never reads the transaction of its caller; the choices rest in `job`
until `LandCommit` writes rows, aliases, links and relationships at once. A commit
that has resolved a name before a merge may land a link to the absorbed row after it:
that is in the model. `ReadBoth`, `CarryAliases` and `Absorb` are the steps of a merge;
the rows may change between them, and related rows are refused (`RefuseAbsorb`). Two
transactions that insert the same alias of one row wait for each other (`Adopting`);
the one that then fails is a `LoseCommit` or an `AbandonMerge`. `before` is a history
variable. `Foldable` stands for the names on which Python's `casefold` and SQL's
`lower` agree; the others (a German sharp s) never match anything.

*ProviderBulkhead.* `at` is the await at which a use of the provider is suspended:

    call:    new -> waiting -> trying -> answered | failed | backoff -> waiting ...
    stream:  new -> waiting -> opening -> chunk <-> yield,   chunk -> answered | failed

A slot is held from `Acquire` to `Leave`. A call leaves after every attempt and joins
the line again after its backoff; a stream keeps its slot while the client reads
(`yield`) and, when its reader goes away there, until the event loop's finalizer closes
the generator (`Drop`, `Close`). `FailForNow` is the timeout or an error with a
retryable marker, `FailForGood` any other error. `Cancel` may come at every await of
the calling task. The wait for a slot is bounded by nothing, which is why
`EveryoneIsServed` has a premise about readers. A `max_concurrency` of 0, which the
settings accept, would let nothing through and is excluded by `BulkheadAssumption`.

*Checkpoints.* A superstep of a graph hands two saves to the background: its task's
writes and the next checkpoint. `saving` is what a handler still has there; `Save`
lands one of them, checkpoints in order, writes in any; `Pause` is a graph that stops
at a question, whose saves are awaited before the call returns. A second
`put_writes` of one task is ignored (`Written`), and the newest saved checkpoint is
where a resume goes on (`Latest`). `LoseSaves` is a handler that is cut.

*CorrectionWorkflow.* A handler (`loop`) is one call of `run` or `resume`, and stands at

    plan | doubt -> (pause) ... confirm -> apply -> exit

`Identify` keeps the candidates that are active (believed, and superseded by none), or
the named fact without looking;
`PlanSurely` is a clear and confident plan, `Ask` any other; `Resume` starts from
what is saved, with the recorded answer when there is one (`Confirmed`); `BeginApply`
and `Apply` are the read and the transaction of `MemoryService`; `ApplyFails` leaves
the graph where it was; `Cut` may come anywhere. A request without candidates changes
nothing and is no action. `changes` and `marks` are history variables.

*ClarificationWorkflow.* The handlers are the same; `apply` looks the answer up by name
(`Match`, the first row in whatever order), absorbs the first provisional row of an
offered name (`BeginMerge`, `MergeAliases`, `EndMerge` over the three steps of a
merge), or finds nothing. The caller of `run` chooses the options.

*TimeResolver.* A date is a record of year, month and day; a day also has a number, and
an instant is an hour of UTC. Descriptors are those the extraction model may produce.
A zone has two offsets and the day on which it changes. `MonthDays`, `Leap` and
`DayNumber` stand for Python's calendar; `AddMonths`, `ResolveWeekday`, `Shifted` and
`Resolve` for the code.

*HistoricalAnalysis.* A reader is a question at one of its reads. `Interpret` picks the
axis and the instants; the reads that follow happen on connections of their own, so
writers move between them; `touched` is what they wrote to meanwhile. Statements are
the facts themselves. The queries stop at a limit: `facts_valid_at` at the most
salient facts, and since salience is left out, a read that is full returns any
`StateLimit` of the facts that are true (`StatesRead`); `believed_at` at the windows that
began last, for which `PastBeliefsStand` says when its promise ends (`WithinLimit`).

*Retrieval.* A fact stands for its statement and for the edge the graph has of it.
`Search` ends one strategy, in any order: what it finds is any sequence of indexed
facts that the strategy may return, or a failure. `Fuse` computes reciprocal ranks
with integer weights that order lists of this length as the code's floats do; facts
of equal score come in any order. `StopEarly`, `Traverse` and `Rerank` follow, each of which may
fail; then the reads of the database, between which facts come and go (`Learn`,
`Retire`, `Index`), and the two trims. `live` and `steady` are history variables.

*ConversationContext.* A message is appended in two steps, because the sequence number is
computed on a snapshot: `BeginAppend` takes it, `EndAppend` commits the row, and the
order of ties is anybody's. `Classify`, `LoadHistory`, `Retrieve` and `Assemble` are
the nodes of the conversation graph up to the prompt. `later` is a history variable.

*Startup.* A process goes through

    verify -> reverify -> list -> script <-> record -> drift -> graph -> recover -> up

where every step may refuse or die. A script creates tables with their columns, drops
columns and adds columns, each only where it has an effect: a table that exists stays
as it is however its text was edited (`CREATE TABLE IF NOT EXISTS`), a column that is
added by an edited file does appear when the script runs again. `columns` is what exists,
`tables` the versions whose tables do, and `recorded` maps each version to the script its checksum is of.
Types, keys, constraints and indices are left out; the drift check does not look at them
(0004 also replaces a primary key, which no query of the model depends on). `Applied` may be
the rows or, when its read fails, nothing. `Guarded` is migration 0004, whose script
refuses to run once there are checkpoints. `Deploy` replaces the release while no
process is starting. `ran` is a history variable.

## Runs

All runs use two workers and finish within three minutes. Deadlock checking is off
everywhere: the process may be down for good, and restarts, facts, checkpoints and
time are bounded.

| Run | Instance | Shows |
|---|---|---|
| `coordinator` | 2 episodes, 2 slots, 1 restart | slots, rows, queues and runs agree; success is honest; recovery is complete; `EpisodeLedger` is implemented |
| `serial` | 2 episodes (one of a document), 1 slot, recovery limit 1, 1 restart, fairness | no uncompared pair on one slot; every task and every stop ends |
| `turn` | 2 messages of one conversation, 1 slot, 1 restart | barrier and notices; a message nothing was disclosed of is owed until its task concludes |
| `turn_liveness` | 2 messages, no restart, fairness | the barrier ends |
| `timeline` | 2 writers, 3 facts (1 committed), 2 instants, 3 kinds of time phrase | both axes and the trail |
| `entities` | 3 commits, 2 at a time, 2 people and 2 first-person names, 2 merges by 1 user | names, links and duplicates |
| `bulkhead` | 2 calls and 2 streams, 2 slots, 4 attempts, fairness | slots, line, retries; everyone is served |
| `correction` | 2 corrections, 2 handlers, 3 facts, 4 checkpoints | applied once, one answer, one replacement |
| `clarification` | 1 question, 1 handler, 4 commits of one name, 2 at a time, 2 merges, 4 checkpoints | only doubtful rows absorbed, once, not after a no |
| `history` | 1 writer, 1 committing episode, 1 reader, 3 facts, 2 instants, reads of 2 facts or 3 beliefs; all days of 2 years, 3 zones, up to 11 units | diffs, fixed past, periods that tile |
| `reply` | 3 facts, one twice as long, 1 hit per search, 2 items, 3 messages and a history of 2, 1 change meanwhile | loss disclosed, reply rests on the record, history in order |
| `startup` | 2 processes, 3 migrations that create, drop and add columns, 4 releases, 4 starts, 3 deployments | starts repeatable, schema served as declared but for what another release drops |

Bounds. `MaxRestarts` bounds starts after the first: one is enough for every state a
dead process can leave to be recovered, rerun and interrupted again by the crash that
ends the behaviour. Two episodes are the least at which slots, queues, detection and
turns interact; the safety properties of the coordinator and of the turns are proved for any number.
`RecoverLimit` is 2 (all that can be owed) where recovery must be complete, and 1 in
`serial`, where the backlog exceeds it. `CandidateLimit` stands for the 12 facts one
detection compares against; it exceeds the backlog here, so a store larger than the
limit is not covered by `NoUncomparedPair`. `MaxFacts` 3 allows a supersession of a
superseded fact beside a correction, `MaxTime` 2 makes past and present differ and a
supersession dated before its fact begins refused. In `entities` three commits on two
slots give one that overlaps and one that follows, and two merges the least chain; one
merger, because a merge is the act of the one user (two at once could absorb two rows
into each other, which `merge` does not exclude). In `bulkhead` the streams alone
can take every slot, four attempts are the code's, and everything but liveness is
proved for any number. The two writers of `timeline`, the commits, the handlers and threads
of `correction` and the messages of `reply` are symmetric; no liveness is checked under symmetry.

In `correction` four checkpoints are a whole correction (question, answer, end) and one
more of its repetition or of the other thread, and two handlers on two threads are the
least that race on one thread, or on one fact from two; one instant, since what the
operations do to dates is the matter of `timeline`. In `clarification` four commits of
one name, two at a time, make a certain row and then several doubtful ones, so that
there is something to absorb and something that must not be; one handler, for the
reason that `entities` has one merger, so that its exception for races is not
exercised. In `history` every read of a question has a write before and after it; a
period from the first instant to the second, named in either order, has changes at its
start, at its end and between the reads; with three facts and reads of two, a read is full and leaves one
out (the code's limits are 50 and 200); and the calendar is checked on each day of a
leap and of a common year, in a zone without a change of offset, one that changes in
spring and one far to the west that changes in autumn. In `reply` the budget is below
what there is to show, by items and by characters; one hit per search keeps all 16
combinations of failing and answering searches within reach; three messages, of which
two are in a history, are the least for which its order, its end and what it leaves out all
matter. The run uses a VIEW, which forgets of the log what no later step or property looks at
once the history is read. In `startup` the four
releases are the first (one migration, whose code needs the column `state`), the last
(three, the third of which drops `state` and adds `payload`, as 0004 does), and two that
edited a migration and need the edit, one in the text of a table that exists by then,
which a second run does not change, and one by a column that is added, which it does; two
processes reach every overlap of one migration.

### Where the code and its words disagree

Each of these is in the models as the code has it; the properties say what remains true.

- *Extraction is "idempotent by `episode_id`"* (`extraction_workflow.py:209`): a commit of
  entities only leaves no provenance, and a retry commits again. `LedgerKept` is about
  the commits that leave some.
- *A temporal change supersedes* (`extraction_workflow.py:171`): cut between commit and
  reconcile, the retry finds the commit, skips both, and the row turns succeeded.
  `SuccessMeansCommitted` excepts the retry.
- *Detection precedes commit so that no undetected conflict is stored*
  (`extraction_workflow.py:11-14`): with the default two slots, two runs detect before
  either commits. `NoUncomparedPair` holds on one slot, and counts a pair as compared whose
  classification failed: it is logged and committed without a check (`conflicts.py:205-213`).
- *Belief windows of a memory never overlap* (`belief_history.py:26-28`): each transition
  inserts a row over the window it closes.
- *First-person mentions collapse onto one entity* (`entities.py:117-119`): two of them in
  the first message make two, because lookups do not see their own transaction.
- A turn whose `record_message` or claim fails tells the user "I will retry it", and
  nothing does. A failed extraction is logged as "not searchable until recovery"
  (`extraction_coordinator.py:301`), and `migrations/0004_extraction_status.sql:36` speaks of
  one that "failed once, will retry"; `_RECOVERABLE` (`extraction_status_repository.py:33`) has no `FAILED`, no start
  queues it again, and the user is told nothing. `OwedUntilConcluded` says of a failure only
  that nothing but its own task may record it. A message sent while the reply before it is streaming is not held by
  the extraction of that message, which has not been submitted. A name written in two
  ways in one message is resolved under the first spelling only.
- *Correction.* With several candidates the user is asked *wrong or changed*, never which
  one, though the comment speaks of confirming the scope (`correction_workflow.py:168-171`);
  a named fact is not checked for being believed, and two corrections identified before
  either is applied give one fact two replacements (`OneReplacement` says when). A cut
  between the transaction and the saves applies a correction twice (`AppliedOnce`).
- *Clarification.* Nothing but tests creates an `AmbiguityContext`; an apply that fails
  keeps the recorded answer, so another answer cannot be given.
- *History.* A correction of a fact already retracted rewrites what was believed in the
  past (`PastBeliefsStand` excepts it). A retraction between the reads of a diff is
  reported as ceased, and a correction landing there as both ceased and become true,
  when the period ends before it. A diff compares two reads that each stop at the 200 most
  salient facts (`memory_repositories.py:560`): beyond that an untouched fact is reported as
  ceased because newer ones pushed it out of the second read, or as become true because the
  first had no room for it; `DiffsTellChanges` excepts full reads. What was believed at an instant
  changes when a transaction lands that was dated before it, and beyond 50 windows
  (`historical_workflow.py:292`) when later ones displace earlier ones; `PastBeliefsStand` excepts both. `TimelineComparison.differs` is also true for facts
  asserted later. A phrase of a kind the clock cannot resolve leaves the question open
  without saying so, and the end of a range is the *start* of its last window.
- *Retrieval.* "Only a total graph failure sets `degraded`" (`retrieval.py:27`); the code, and
  the comment beside it (`retrieval.py:117-124`), set it for any failed strategy, which is
  what `LossIsDisclosed` states. A failed traversal comes after the failures were counted and is not
  disclosed. The second fusion, after a traversal, loses the agreement of the
  strategies. The reranker may drop passages although "nothing is silently discarded".
  The remainder of facts stops at the 100 most salient and at the budget, though the
  docstring says nothing becomes unreachable. The docstring of `_node_uuid_for` has a
  fallback to the top node; the code returns nothing. Notices of a retrieval reach
  the prompt and not the done event.
- *Message log.* "Cannot collide" (`conversation_repository.py:87-88`) is false under
  read committed, and the index on the sequence is not unique.
- *Start.* A failed read of what is applied is taken for an empty database: two of them
  in a row let an edited migration pass, and only the primary key stops it from being
  applied again. A crash between script and record, followed by a deployment of an
  edited file, records a checksum whose `IF NOT EXISTS` statements were skipped; the
  drift check finds what the code needs of it, and not what it does not. The drift check is
  made once, at the start: an older release that is up when a newer one runs 0004 loses
  `workflow_checkpoints.state`, which 0001 created and a release without 0004 may rely on
  (`ServesWhatItDeclares` excepts columns that a script of another release drops).

## Fairness

`ExtractionCoordinator!Fairness` is weak fairness of what the event loop and its
timers do of themselves: waking the gate and the semaphore, status writes (which
succeed or fail), the end of a runner, which `wait_for` guarantees
by cutting it short, the cancellation at loop close (the drain has a timeout), and the
exit. The nodes of a run get none: a model call may hang. Neither do starts, stops,
crashes, quiesce, resume or users. `TurnFairSpec` is weak fairness of the barrier
alone: its timer fires, whatever the extractions do. `ProviderBulkhead!Fairness` is weak
fairness of waking the semaphore's line, of the end of each attempt and of each opening
(`wait_for`), of each backoff and of the finalizer; a model that sends chunks and a
reader that asks for them get none.

## Proofs

All theorems are checked by TLAPS to the last leaf; what they assume is the named
ASSUMEs of the modules, which TLC evaluates in every run. Every property of a run that
is no liveness property has a theorem. Eight of the theorems assume more, and state it
themselves: one merger (five of `ClarificationProofs`), one slot and a large candidate limit
(`SerialRunsCompareAll`), a large recovery limit (`RecoveryLeavesNothing`), no jump of the
clocks beyond twelve hours (`PhrasesAreAnswered`).

`ExtractionCoordinatorProofs` proves, for all constants satisfying
`WorkflowAssumption` and `CoordinatorAssumption` (finitely many episodes, at least one
slot, each episode in a conversation or none):

| Theorem | States |
|---|---|
| `TypeCorrect` | `Spec => []TypeOK` |
| `SlotsNeverLeak` | `Spec => []SlotsAccounted` |
| `WatermarkTellsTheTruth` | `Spec => []WatermarkHonest` |
| `SuccessIsHonest` | `Spec => SuccessMeansCommitted` |
| `CoordinatorImplementsLedger` | `Spec => LedgerKept` (refinement of `EpisodeLedger`) |
| `InvariantHolds` | `Spec => []CoordinatorInvariant` |
| `SerialRunsCompareAll` | one slot, `CandidateLimit` at least the episodes: `Spec => []NoUncomparedPair` |
| `RecoveryLeavesNothing` | `RecoverLimit` at least the episodes: `Spec => RecoveryComplete` |

All but the watermark rest on `CoordinatorInvariant`, which TLC checks in run
`coordinator` too. `SlotsAccounted` is not inductive alone: releasing a slot keeps the
sum only if the queues hold each waiting task once and in the right place
(`Queued`), since `Acquire` moves the head of a queue. That memories are written once
needs `CommittedAtMostOnce`: a run past its load node has not committed, which holds
because one episode never has two tasks, in turn because a claim is made once and a
restart begins without tasks (`TasksAreOwed`). The same part says that a run that
reached its end leaves nothing uncommitted or unreconciled, which is what
`SuccessIsHonest` needs at the later status write. The refinement maps a row to
`unclaimed`, `owed` or `settled` and `commits` to `written`; every step is a `Claim`, a
`Write`, a `Settle` of a set of rows (the loop closing on several final writes at once)
or a stutter.

Both limits are what the properties need, not conveniences: with two slots two runs
detect before either commits, and a detection that reads twelve facts of thirteen, or a
start that recovers one row of two, leaves one out. On one slot the argument is
`SerialInvariant`: a run of the graph exists only inside the task that holds the slot
(`RunsHoldSlots`), so nothing is committed between a detection and its own commit, and a
run that is about to commit has read all there is (`ComparedWithAll`). Recovery takes the
oldest rows up to its limit (a sequence without repetition, hence all of them when
there are no more rows than that).

The same module proves of `ConversationTurn`, for any number of messages, conversations and slots:

| Theorem | States |
|---|---|
| `TurnsUseCoordinator` | `TurnSpec => Spec`: the turns add no behaviour to the coordinator |
| `BarrierIsKept` | `TurnSpec => []TurnInvariant` |
| `FindingsAreToldOnce` | `TurnSpec => []NoticeOnce` |
| `SilenceLeavesItOwed` | `TurnSpec => OwedUntilConcluded` |
| `InvariantOfTurns` | `TurnSpec => []TurnsFit` |

`TurnsFit` joins the coordinator's invariant with what turns need of it. A response
lives only in a process that serves (`ServedWhileUp`), so that popping the notices is
the coordinator's `TakeNotices`. What had ended when a message was sent has a task
only as long as the message's barrier has not let it by, or it warned (`EndedBefore`):
tasks begin with a submit, and the submit of an ended turn is over. A finding is queued
only when its row turns succeeded, which never happens twice (`FindingsAreOfSuccesses`,
`ToldOnce`), so what has been popped cannot come back. A turn past its submit has its message
and its row (`PastSubmit`), which no step removes (`MessagesStay`), and a row leaves the
recoverable states only in the step in which its own task writes its final state: a crash, a stop or
a recovery moves it between `pending`, `running` and `abandoned` only. Nothing is proved of a `FAILED`
row but that it stays so.

`BeliefTimelineProofs` proves every property of the `timeline` run, for any number of
writers, facts and instants and any set of time phrases that satisfies
`TimelineAssumption` (an unresolved phrase carries no date):

| Theorem | States |
|---|---|
| `InvariantOfTimeline` | `Spec => []TimelineInvariant` |
| `TimelineTypes` | `Spec => []TypeOK`, the CHECK constraints included |
| `TrailAgreesWithRows` | `Spec => []BeliefsAgree` |
| `SuccessionMeets` | `Spec => []SupersessionMeets` |
| `PastStands` | `Spec => PastIsKept` |
| `AxesAreSeparate` | `Spec => AxesSeparate` |

They rest on `TimelineInvariant`. What makes it inductive is `ReadsAgree`: whatever a
writer has read of a fact may be stale in its end, its links and its retraction, but
not in its start, and it passed the checks when it was read. A supersession re-opens
the belief with the start it *read* and bounds the row it *finds*; the two agree
because no operation moves the start of a fact, and the trail's clock, read with the row
locked, is never before the windows it ends. `Past` gives the order of the two ends
of each window, `NextExists` keeps a link from pointing at a fact that is still to be
inserted, and `HeldOnce` is the one open window of a fact without counting. One lemma
per operation says what it leaves of rows and beliefs (`CorrectEffect` ...), one that
this keeps the invariant (`CorrectKeeps` ...).

`HistoryProofs` stands on it. The argument for the fixed past is
`TrailInvariant`: the date at which a fact was asserted is never read stale
(`BirthsAreRead`), and a fact that was never retracted has been covered by windows at
every instant since its trail began (`BelievedSince`). So a writer of such a fact whose clocks were
read after an instant ends the open window after it, and what it inserts either begins later or lies over instants
that were covered before: nothing is added to that instant's answer and nothing
removed. An instant that some write under way has already been dated before is not yet settled, and
the theorem says nothing of it.

| Theorem | States |
|---|---|
| `PastBeliefsAreFixed` | `HistorySpec => PastBeliefsStand` |
| `InvariantOfHistory` | `HistorySpec => [](TimelineInvariant /\ HistoryFits)` |
| `DiffsTellTheWorld` | `HistorySpec => []HistoryInvariant` |
| `PhrasesAreAnswered` | clocks put forward by 12 hours at most: `HistorySpec => []PhrasesDenotePeriods` |

`HistoryFits` is what makes a diff of three reads sound: of the facts nobody wrote to since, what the two reads
returned is in the state, and is all of it unless the read was full (`ReadsFit`); and every correction is on
the trail, no earlier than its replacement is dated (`CorrectionsOnTrail`), where the third read,
which is the last, finds it if it lies inside the period. The calendar is proved for every day of the years 2 to 9000: months are numbered
through (`FirstOf`), a month begins where the one before ends (`MonthsFollow`), `_shift`
and `_window` lead from one beginning to the next (`ShiftedIs`), a date lies in its own
period (`DateInPeriod`), and the hours of a day lie between its midnights in any zone that
never jumps ahead by more than half a day (`HoursBetweenMidnights`). A zone that did, at
two in the morning, would have its noon before its midnight by `_to_utc`; no zone
that observes summer time comes near it.

`CorrectionProofs` proves, for any number of handlers, corrections and facts:

| Theorem | States |
|---|---|
| `InvariantOfCorrections` | `CorrectionSpec => []CorrectionsFit` |
| `FirstAnswerStands` | `CorrectionSpec => []CorrectionInvariant` |
| `CorrectionsApplyOnce` | `CorrectionSpec => []AppliedOnce` |
| `ReplacementsAreSingle` | `CorrectionSpec => []OneReplacement` |

By the lemma `TimelineBeside` the theorems of the timeline may be used however corrections are resumed, cut
and repeated. None of the three properties is inductive, because what happens
next depends on what is *saved*, and saving is behind. `StatesFit` says of each
checkpoint, each save under way and each handler which node it belongs to, and that the
newest saved checkpoint exists where any is saved. `Once` then says of a thread that
was neither raced nor torn who knows of its change: the handler that is about to end,
whose last checkpoint is saved or still being saved (`EndIsComing`), and afterwards the
saved checkpoints themselves. `OneAnswer` says the same of the answer: a handler acts on
the one that the saved checkpoints hold, and is saving no other. For replacements,
`FixesStand` and `FixesAreCorrections` (of the timeline) tell who made a fact that fixes
another; `TwiceIsForked` is `OneReplacement` without its premise that the facts are
believed, and `LateIsForked` marks a correction overtaken by another while it waits, which is the
step that would break it.

`ClarificationProofs` proves of `EntityResolution` and `ClarificationWorkflow`:

| Theorem | States |
|---|---|
| `EntityTypes` | `Spec => []EntityTypeOK`, for any number of commits and mergers |
| `InvariantOfEntities` | one merger: `Spec => []EntitiesFit` |
| `SurvivorsAreLive` | one merger: `Spec => []EntityInvariant` |
| `NoNameIsForgotten` | one merger: `Spec => []NamesKept` |
| `DuplicatesAreRaces` | one merger: `Spec => []OnlyRacesDuplicate` |
| `LinksStayLive` | one merger: `Spec => LinksFollowMerges` |
| `InvariantOfClarifications` | `ClarificationSpec => []ClarificationsFit`, for any number of handlers |
| `QuestionsMergeOnce` | `ClarificationSpec => []AbsorbedOnce`, for any number of handlers |
| `RefusalsStand` | `ClarificationSpec => []AbsorbedAsAgreed`, for any number of handlers |

`merge` reads both rows, and only later carries names over and absorbs. With one
merger nobody else absorbs a row meanwhile, which is `MergeKeeps`: both rows stay live
until the merge ends, and whatever the absorbed one answers to is among the names being
carried or answered by a third row. That keeps the names; the end of a chain of merges
stays live because only a live row is ever merged into. `FreshNames` with `RowsLanded` keeps duplicates
to races: a name that a commit found nowhere was landed by nobody who was done before
that commit began. With two mergers it would not hold (two at once can absorb two rows into each other,
and their names with them), which is a limit of the code and not of the proof. The clarifications' own
properties do not need it: `ClarificationsFit` has the parts of `CorrectionsFit`, and `Agreed`,
that nothing saved or acted on declines where a row was merged away; that only doubtful rows are absorbed follows
a merge from its choice (`AbsorbsDoubtful`) to its end. `RefusalsStand` claims that a saved decline
leaves nothing merged for questions that were neither raced by two handlers nor cut between merge and save;
where handlers race, one may decline while the other merges, and nothing is claimed.

`ReplyProofs` proves, for any facts, sizes, budgets, limits and messages
(`RetrievalAssumption`, `ContextAssumption`: finitely many facts and messages, no two
facts of one salience):

| Theorem | States |
|---|---|
| `InvariantOfReplies` | `ContextSpec => []ReplyFits` |
| `HistoriesKeepOrder` | `ContextSpec => []ContextInvariant` |
| `LossesAreDisclosed` | `ContextSpec => []LossIsDisclosed` |
| `RepliesRestOnRecord` | `ContextSpec => []ReplyRestsOnRecord` |

`ReplyFits` first brackets the database: what it believed all along (`steady`) lies in
what it believes now, which lies in what it believed at some time of the retrieval (`live`). What
the graph answers is only a ranking, so it is enough that the reads of the database stay
inside the bracket, each fact once (`Gathered`), and that both trims are prefixes: a
prefix that stops at a fact leaves out only what comes after it, so a fact left out has
the number, the size or a hundred more salient facts against it (`Crowded`). For the
log, a number is above those of all messages that were in before its statement began
(`LogFits`), which is all that is left of "cannot collide", and enough for the order of a
history.

`StartupProofs` proves, for any number of processes, migrations, releases, starts and
deployments (`StartupAssumption`: versions have no gap, code needs no column that one of its own
scripts drops; what scripts create, drop and add is otherwise arbitrary):

| Theorem | States |
|---|---|
| `InvariantOfStartup` | `StartupSpec => []StartupInvariant` |
| `ServesOnItsSchema` | `StartupSpec => []ServesWhatItDeclares` |

`StartupInvariant` is inductive as it stands. Its core is `ProgressIsTrue`: what a
process concluded from earlier reads stays true whatever others do, since rows are only
added and the release is not replaced under a start; except that a column it found may be dropped, which only a script
can do that its release does not have, as code declares no column its own scripts drop (`LostToOthers`).

`ProviderBulkheadProofs` proves, for any number of calls, streams, slots and attempts
(`BulkheadAssumption`: the uses of the provider are finitely many, at least one slot):

| Theorem | States |
|---|---|
| `InvariantHolds` | `Spec => []BulkheadInvariant` |
| `BulkheadTypes` | `Spec => []TypeOK`, the bound on attempts included |
| `SlotsNeverLeak` | `Spec => []SlotsAccounted` |

Waking the head of the line takes a slot for somebody who had none only if the line is
exact, and cancelling a waiter keeps it exact only if nobody stands in it twice
(`RemoveAtIs` says what is left). `AttemptsLeft` is what bounds attempts: whoever may
still join the line has one left.

Model-checked only: the liveness properties `EveryTaskFinishes`, `StopEnds`,
`BarrierEnds` and `EveryoneIsServed`, since liveness under fairness and ENABLED are out of
the prover's reach. What a fold computes is too, so the modules that are proved about have none:
the size of a set is the number of pairs of a fact and a unit of its size (`Chars`), the
order by salience is the one permutation that keeps to it (`Ordered`), that following
merges ends at a live row says that no set of absorbed rows is closed under it
(`SurvivorIsLive`), and the days before a month are datetime's own table.

## Not modelled

What a prompt says and what the model answers: any answer is possible. Rows and
columns no property tells apart: timestamps and attempts of status rows, salience
(an order in `Retrieval`), confidence, origin, statements, event rows. The graph store,
PostgreSQL and langgraph are external, known by their outcomes: a transaction happens,
does not, or happens unacknowledged; a graph search answers anything indexed or fails;
background saves land in some order or are lost. `replay_batch`, `resolve_many` and
`update_statement` have no caller. Settings, health endpoints, logging, request shapes and the
SQLAlchemy plumbing hold no state of their own. In the resolver: units it does not
know and years out of range, which raise, and zones that change at midnight.
Relationships in a retrieval are read like facts and left out.

## Plan

1. Proofs: the properties of `timeline` beside corrections and questions at once, and
   `EveryTaskFinishes` reduced to the safety lemmas its fairness argument rests on (a
   suspended task always has an enabled step of its own).
2. The arithmetic of `services/salience.py` as a pure module.
3. Event rows beside facts in `BeliefTimeline`, and `replay_batch` once it has a caller.
4. Several users' worth of mergers, once clarifications are offered outside tests.
