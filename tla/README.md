# A TLA+ development of the activegraph harness

The repository is an agent harness for Terminal-Bench: a ReAct loop that asks a
model for shell commands, runs them in a task container, and writes everything
it does to an append-only event log with a typed graph on top; around it, the
scripts that ran the benchmark in resumable chunks. This directory holds TLA+
modules that model the harness from its code, TLC configurations that check
them on small instances, and proofs that TLAPS checks. `PROJECT.json` maps
every definition to the lines it models and lists the runs, the mutants, the
findings, the hazards and the theorems.

## 1. Inventory

| component | state | operations | interacts with |
|---|---|---|---|
| ReAct loop, `loop.py` `run_loop` | step, parse-failure counter, previous step id, command, error and token counts | one turn: budget check, context, model call, parse, one of four branches, hand-over to the recorder | awaits the model client and the container; writes log and graph; calls `record_turn` |
| Model client, `llm.py` `LLMClient.complete` | the attempt number | request, retry with backoff, raise | logs `llm_retry` through a callback into the loop's turn |
| Event log and graph, `events.py` | the sqlite log; task, step, command, observation, error and file objects with their edges | `append_event`, the `add_*_object` functions, open, export, summary, close | written by the loop and the agent, read by the context builders |
| Context builders, `context.py` | none | `build_context` (v1), `build_context_v2` with its retrieved slice | read the log and the graph once a turn, append `context_built` |
| Agent and recorder, `agent.py` | recorder counts and trajectory steps, Harbor's `AgentContext`, the artifacts on disk | `run` with its nested try/finally, `record`, `dump` | runs the loop, is its callback, is cancelled by Harbor |
| Chunk queue, `scripts/run_config.sh`, `collect_chunk.py`, `archive_events.sh`, `recover_and_resume.sh` | the flock, run directories, artifacts, git's tree, index, HEAD and origin | skip, lock, clean docker, run, collect, archive, commit, push, remove; reset | runners share docker, the lock and one clone |
| Metrics, `wolfbench_metrics.py`, `compare_runs.py` over `collect_chunk.py` | none | matrix, the five numbers, labels, diff, problems, tokens and cost | read whatever trials have ended, from several job directories |
| `prompts.py`, `testing.py`, `preflight.py`, `cache_smoke_check.py`, the rebuild and smoke test scripts | none | text, a test double, machine checks | |

What is hard here: the loop is one coroutine, so nothing runs beside it, but it
is suspended at every request, backoff and command, and Harbor cancels it there
(`asyncio.wait_for`); every statement that writes the store may raise; the
recorder writes a file inside the loop's turn; the process may die anywhere.
What survives is read by others: the next prompt pairs events by position, v2
follows edges, Harbor reads token counts, the summary is compared with the log, and the
metrics are computed of trials that were never verified, or ran once too often.
In the queue, runners, crashes, disk rollbacks and git resets interleave.

What makes each component correct, in a line: the log tells each turn once and
the graph tells the same as the log; retries and overruns are bounded and the
loop ends; what a trial leaves behind agrees with its log however it ended; a
prompt shows each turn once and marks the cache exactly when it can be hit;
what the queue pushed is complete, is not run twice, and nothing unpushed is
deleted; what is reported of the trials is ordered, explained and consistent.
`PROJECT.json` "hazards" lists the places where each of these could go wrong,
with the property that would notice.

## 2. Modules

| module | models |
|---|---|
| `ReactLoop` | `run_loop`, `LLMClient.complete`, and the writes of `events.py` |
| `TurnLedger` | the abstract specification of the loop: a ledger of turns |
| `ReactLoopInv` | the invariants of the proofs (`IInv`, `LedgerInv`, `CountInv`, `GraphInv`, `TimeTracked`) and the refinement mapping to `TurnLedger` |
| `ReactLoopProofs`, `ReactLoopCounts`, `ReactLoopGraph` | theorems about `ReactLoop`, each module extending the one before |
| `DataLemmas` | what the proofs share: induction over sets of numbers and of sets, recursive functions, flattened sequences, prefixes, sums |
| `Trial` | extends `ReactLoop` with `agent.py`: what surrounds the loop and what a trial leaves |
| `TrialInv`, `TrialProofs` | the invariant of a trial, and the theorems about it |
| `Retrieval` | extends `ReactLoop` with `context.py`: the prompt either builder makes at each turn, and the request `llm.py` makes of it |
| `RetrievalInv`, `RetrievalProofs` | what the builders read, statement by statement (`RetrievalInv`), and the theorems about the prompts |
| `ChunkRunner` | the chunk queue |
| `RunLedger` | the abstract specification of the queue: a ledger of runs and of what is published of them |
| `ChunkRunnerInv`, `ChunkRunnerProofs` | the invariants of the queue and its refinement mapping to `RunLedger`, and the theorems about it |
| `WolfBench`, `WolfBenchProofs` | the two metrics scripts over trials that start and end in any order, and the theorems about them |
| `MCReactLoop`, `MCTrial`, `MCRetrieval`, `MCChunkRunner`, `MCWolfBench` | constants for TLC, and the documents' claims the code does not keep |

### ReactLoop

`pc` names the next statement of the coroutine that writes the store or
suspends; each such statement is one action, in the order of the code, so a
failure, a cancellation or (in `Trial`) the death of the process falls between
any two of them. An object and the edge that `events.py` adds with it are
written as one action. `add_file_objects` records one path per step.
The locals of `run_loop` keep their meaning: `step`, `failures`
(`consecutive_parse_failures`), `previousStep`, `nCommands`, `nErrors`,
`tokens`. An answer is what `parse_response` makes of it: parsed with a command
or none and a done flag, or rejected; the text is not modelled. A command is a
model value with the paths `extract_file_paths` finds in it. `elapsed` is the
budget's clock: it moves while a request, a backoff or a command is awaited and
nowhere else. The log holds the harness's eleven event types; the store
library's own `object.created` and `relation.created` events are left out, as
are ids (an object's id is its position), payload text and truncation.

`CallFails` is a retryable failure, `CallRejected` any other one (and the store
refusing the `llm_retry` event), `StoreFails` an exception of the write `pc`
stands at, `RecordRaises` one of the callback, `Cancel` Harbor's timeout.

### TurnLedger

What those who read the log, the trajectory and the LoopResult rely on, without
requests, retries, the graph or the clock: a turn is answered, may have one
command executed, is told to the model, and is closed by handing its record
over before the next one begins; the ledger ends once, finished, exhausted or
failed, possibly in the middle of a turn. Its state is read off the loop
(`Ledger` in `ReactLoopInv`): the sets of turns are those with a model_turn, a
command_executed or a feedback event in the log, and those among the records;
how it ended is the last event and whether the coroutine has raised.

### Trial

`phase` follows `ActiveGraphAgent.run`: opening the store, `task_started`,
building the client, the loop, then the `finally` block statement by statement.
While `phase` is `"loop"` the loop's own actions run (`InnerStep`), and a turn
handed over is mirrored by the recorder (`Mirror`), shown to Harbor and dumped.
`broken` is a history variable: the artifacts whose own write raised. `Kill` is
the death of the process; a file being written may be left truncated.

### Retrieval

Each turn's `BuildContext` also evaluates both builders on the log and graph as
they are. A prompt is a sequence of named blocks, so a cached prefix is a
prefix of blocks. `earlierV1` is history: the prompt before
this one, for the cache. `Sent` is what `split_system` and `apply_cache_control`
make of a prompt: the cached blocks with a breakpoint each, the harness's flag
removed if caching is on. `TruncateMiddle` is an operator on sequences of
characters, checked against what it promises on all short texts and limits. `OtherStep` is every other step of the loop that does not fail; the failures end
the loop, after which no prompt is built.

### ChunkRunner

One `pc` per runner, one action per statement of `run_config.sh` that changes
something; the two statements that write a file take two steps, so that the
file may be left torn. A file is the run it was made from and whether it is
whole. Git is four versions of the two result files of each chunk (tree,
index, HEAD, origin); `git reset --hard` replaces tracked files only. `live`
are the harbor runs: one may survive the shell that waited for it, and holds
the lock through descriptor 9, which it inherited. `Stops` is `set -e` or a
kill at any statement; `Reclaim` rolls the disk back; `RecoverReset` is the
fetch and reset of `recover_and_resume.sh`, enabled under a live queue because
the script resets before it looks for one. After a reclaim no runner starts
before a reset (`synced`): that is the documented procedure. The launch order of
the recovery script (config A, then C) is relaxed to any start of any runner.

### RunLedger

What docker and those who read the branch at origin rely on, without runners,
the lock, commits, crashes or resets: one run is alive at a time on the whole
machine; what is published of a chunk changes between runs only, and only to
whole results of the same or later runs. Its state is read off the queue
(`Ledger` in `ChunkRunnerInv`): the live runs, the number of runs begun, and
of each file at origin the run it is of (-1 for a torn one, which the ledger
has no step for).

### WolfBench

The state is the list of trials, in the order they started, each pending or
with what it left: a result.json that can be read or not, with a `started_at`
or not, rewards by key or none, a summary.json with the cache split, an old one
or none. The scripts keep no state: what they report is a function of the
trials that have ended, evaluated after every start and end of a trial, so they
may be run in the middle of a benchmark and after any re-run of a subset.
`WolfMatrix` and `CompareMatrix` are the two `build_matrix` functions (padding
to the widest task; sorting by `started_at` and name, then the cap), the rest
are the numbers made from them. A sorted row is given by places: a trial's is
the number of those of its task before it, plus one. A rate is given by its numerator and money in
hundredths of dollars per million tokens, so all arithmetic is exact.

## 3. Runs

| run | property by property |
|---|---|
| `loop` | `ExactlyOneFeedback`: a finished turn is one model_turn and one feedback event. `FailuresAlternate`: the two-failures message comes exactly on the second failure in a row. `CommandsWrittenAhead`: the container runs nothing the graph does not hold; a crash loses the end of one command at most. `GraphProjectsLog`, `ErrorChains`: the edges v2 follows lead to what the log says. `RetriesBounded`. `TerminalIsLast`. `RecorderLag`: a crash costs the recorder one turn at most. `ResultMatchesLog`: the LoopResult counts what the log, graph and records hold. `ImplementsLedger`: every step is a step of `TurnLedger` or hidden from it. `TurnsConsistent`: the answered, executed, told and closed turns differ by the current turn at most. `IInv`: the invariant of the proofs |
| `trial` | `SummaryAgrees`, `FinishReasonHonest`, `ArtifactsComplete`, `StoreClosed`, `TokensLag`: what a trial leaves, however it ended. `OverrunBounded`: the loop overruns its budget by less than one whole turn. `CleanedUp` (liveness): once the store is open, it is closed again, unless the process dies or the first write fails |
| `retrieval` | `TranscriptComplete`, `CacheHits` (v1); `HistoryOnce`, `DigestTruthful`, `ActiveErrorCurrent`, `FilesAccounted` (v2); `CachedPrefixStable`: at most four breakpoints, and none at or behind text that the next turn changes; `TruncationExact`: the marker counts exactly what is left out. `RetrievalInv`: the invariant of the proofs |
| `chunks` | `NoCleanUnderRun`, `PushedComplete`, `UnpushedHasRunDir`, `PushedNotRunAgain`; `ImplementsRunLedger`: every step is a step of `RunLedger` or hidden from it; `ChunkTypeOK` includes that the lock's holder is alive |
| `wolf` | `FiveOrdered`: solid <= worst <= average <= best <= ceiling on both scripts' tables, under every cap and clean basis. `FailuresExplained`: a failed cell is a verified failure or has a problem naming it. `ArtifactsAgree`: labels, diff, five numbers and solved trials tell the same. `CostHonest`: the cost is never above the true one, and below it only if marked a lower bound. `ExtraTrialDropped`: a trial beyond the cap changes nothing |

Seven runs expect a violation, one finding each. Five contradict a document:

* `done_with_command`: an answer with `"done": true` and a command does not end the loop.
* `retry_events`: the last failed attempt logs an `llm_retry` too, so there is one more than retries.
* `headroom`: the default 840 s budget is checked between turns only, and can be overrun past the 60 s of headroom.
* `summary_always`: when the export raises, no summary is attempted.
* `prior_attempts`: v2's "prior attempts" include commands issued after the failing one.

Two are defects:

* `flag_stripped`: with prompt caching off, the harness's own `"cache"` flag is sent to the API.
* `skipped_uncommitted`: a chunk whose artifact was written but never committed is skipped for ever, even if the artifact is torn.

### Bounds

`loop`: three turns, two commands that share a file, one retry, no time. Three
turns are needed for two parse failures and what follows, and for an error
linked to an observation that is neither first nor last; with two commands a
file is reused. The log is bounded by `MaxSteps`, which is the program's own
bound. `trial`: two turns, one command, two token counts, requests of 0 or 2
ticks, a backoff, commands of 0 or 3 ticks and a budget of 2: the budget is
spent inside a call, inside a command, and exactly at a boundary.
`retrieval`: four turns with windows of one, so that each window slides and the
digest, the file list and the omission counter all move. `headroom`: one tick
is 60 s. `chunks`: two runners over the same two chunks in opposite orders,
four starts, four harbor runs, three resets or reclaims: enough for a chunk to
be run, lost, run again by the other runner and reset under it. `wolf`: two
configs, two tasks and four trials, each ending in any of four ways: a task run
three times next to one run once, cut by every cap. The two configs and the two
tasks are symmetric there: nothing in the module orders them.
`CHECK_DEADLOCK FALSE` is used where a queue has used up its starts or a
benchmark its trials; the loop and the trial stutter explicitly at their end.

### Fairness

`trial` checks liveness. `FairTrialSpec` asks for weak fairness of `OwnStep`,
the steps `run()` takes by itself: the event loop runs a ready coroutine, the
HTTP client and `environment.exec` return within their own timeouts,
`asyncio.sleep` ends. Steps that fail are among them, for a statement that
raises is also done; a cancellation is not, nor is the death of the process:
they may always come and never have to.

## 4. Proofs

All theorems hold for every value of the constants, assuming only the named
ASSUMEs of the modules, which say that the constants have their types, that a
command names each path once, that "no runner" is not a runner, and that a
request and a command have a longest time (both are called with a timeout).
Every safety and action property that a passing run checks is stated by a
theorem; only `CleanedUp`, a liveness property, is not.

**The loop** (`ReactLoopProofs`). `InvariantHolds`: `Spec => []IInv`, and from
it `TypeCorrect`, `FeedbackCorrect`, `FailuresCorrect` and `TerminalCorrect`.
None of the last three properties is inductive. `ExactlyOneFeedback` speaks of
finished turns only; to keep it when a turn ends, one must know what the log
holds of the turn being taken (`CurrentTurn`: nothing before the answer, a
model_turn alone until the feedback, both afterwards), that no event is stamped
with a later turn (`StepsBounded`), and which branch the answer chose
(`BranchTaken`). `FailuresAlternate` needs the counter tied to the log
(`FailuresTracked`: it is 1 exactly if the last judged turn got a parse_error).
`TerminalIsLast` needs that nothing terminal is in the log while the loop can
still write (`TerminalPending`), and `TypeOK` needs `CountersBounded` (a backoff
leaves an attempt to make, a turn in progress a step below the limit). `IInv` is
their conjunction; TLC checks it in `loop`. The argument is local: `EmitEvents`
says what one append does to the sets of events of a turn, `AnsweredKept`,
`TurnKept` and `ParseErrorKept` carry facts about a turn over it, and each
conjunct has one lemma with a case per kind of step.

**The refinement** (`ReactLoopProofs`). `LoopImplementsLedger`: the loop
implements `TurnLedger` under the mapping of `ReactLoopInv`. `IInv` says too
little of executed commands and records, so `LedgerInv` adds where each stands
in the turn at hand. `EmitLedger` turns an append into what it does to the
ledger's sets; the five events the ledger sees are its actions, every other
statement is hidden from it, and an exception or a cancellation is its failure.
`TurnsAgree` (`TurnsConsistent`) follows from the ledger's own invariant.

**The counts** (`ReactLoopCounts`). `CommandsCorrect`, `RecorderCorrect`,
`RetriesCorrect` and `ResultCorrect`: `CommandsWrittenAhead`, `RecorderLag`,
`RetriesBounded` and `ResultMatchesLog`. Their properties compare cardinalities
of sets of events with counters; `CountInv` says, statement by statement, by how
much the two differ, and `EmitCount` what an append does to a count.
`LoopOverrun` (`OverrunBounded`) follows from `TimeTracked`: what the clock
shows beyond the budget is at most what the turn at hand has used up, attempt by
attempt, backoff by backoff, up to the statement it stands at. The property
alone says nothing of a turn half way.

**The graph** (`ReactLoopGraph`). `GraphCorrect` and `ErrorsCorrect`:
`GraphProjectsLog` and `ErrorChains`. `GraphInv` says that the steps are as many
as the answered turns (`StepsChained`), that the command written last belongs to
the step at hand while it is being executed (`CommandsIssued`), that the
observation about to be written has its event in the log (`ObservationsTold`),
and that only the last observation can still lack its error (`ErrorsBlamed`).

**The trial** (`TrialProofs`). `FullInv` is the conjunction of the loop's
invariants with `TrialInvariant`. The loop's invariants carry over because a
step of the trial is a step of the loop, leaves its variables alone, or is one
that starts it (`StartedKeeps`); `TrialInvariant` adds where the loop stands in
each phase, how far the recorder and Harbor's context are behind it, and that
the summary, once written, is what it would say again. From it:
`TrialTypeCorrect`, `StoreCorrect`, `TokensCorrect`, `ArtifactsCorrect`,
`FinishReasonCorrect`, `SummaryCorrect`, and, by `TimeTracked` carried over in
the same way, `OverrunCorrect`: every safety property of `trial`.

**The prompts** (`RetrievalProofs`). The builders only read: `BuildersOnlyRead`
says that a behaviour of `Retrieval` is one of the loop, so what the earlier
modules prove holds here. `RetrievalTracked` proves `RetrievalInv`. The
properties speak of the moment a prompt is built; what they need of the moments
in between is that the exchanges projected from the log are one pair a turn, the
last one perhaps still without its feedback (`TurnsProjected`), which command and
observation the turn at hand has (`CommandOfTurn`, `CommandsObserved`,
`ObservationsKept`), that the last error object is the last report unless one is
just being written (`ErrorTracked`), and which paths are recorded
(`FilesTracked`). `CacheHits` compares a prompt with the one before, which must
therefore be known to be what the builder would have made of the exchanges then
(`PromptTracked`), for the log only grows; the slice, in the same way, is what
the builder would build again while the request is made (`SliceTracked`). From
it: `TranscriptCorrect`, `CacheCorrect`, `HistoryCorrect`, `DigestCorrect`,
`ErrorCorrect`, `FilesCorrect` and `PrefixCorrect`. `TruncationCorrect` is an
arithmetic fact about `TruncateMiddle`, for texts and limits of any length.

**The numbers** (`WolfBenchProofs`). The scripts keep no state, so the invariant
is only that the trials keep their types (`TrialsKeepTypes`); the work is in the
operators. `RanksCount` and `RowsAre`: the ranks of n trials are the first n
numbers, so a row has each trial of its task once. `OrderedCorrect`: each run's
passes lie between the rows that are all True and those that have a True, and
the True cells, counted column by column (`CellsBounded`), between the worst and
the best times the runs; both hold of any table, so of every basis.
`FailuresCorrect`: a False cell is padding or a trial that did not pass.
`ArtifactsCorrect`: `CellsAreTrials` maps the True cells one to one into the
solved trials, and onto them if none was dropped. `CostCorrect`: sums are
compared term by term and split in two. `ExtraTrialCorrect` (an action property):
the trial that ends stands behind the earlier ones of its task, which have filled
the cap; `ReadOff` collects what is known of the rows, so that it can be used of
both states.

**Induction.** The library's induction theorems take an operator and cannot be
used, but induction can be stated of a set: `DataLemmas` derives it from the
least element of a set of numbers (`Induction`), and over subsets of a finite set
(`FiniteInduction`). With it a recursive function has the values its equation
gives (`RecursionExists`, `SumIs`), which covers the library's `FlattenSeq` and sums and
the backoffs of the client.

**The queue** (`ChunkRunnerProofs`). `LockHeld` and `CleanCorrect`
(`NoCleanUnderRun`): a runner past its flock is the holder, and a harbor run is
alive under a held lock only while the holder waits for it. Then `QueueHolds`
and from it `QueueTypeCorrect`, `PushedCorrect`, `UnpushedCorrect` and the action
property `NotRunAgainCorrect`. `ChunkInv` speaks of any chunk at any moment:
what is in the index, at HEAD or at origin is complete, and the working tree
differs from it only in a file whose run directory is there. `StageInv` speaks
of the holder's chunk, statement by statement: what is about to be added is
complete, and what is about to lose its run directory is what was pushed. The
hard case is the reset, which may fall between any two statements of a live
runner: it restores both files of a chunk or neither, because a committed
version has both or neither.

`QueueImplementsLedger`: the queue implements `RunLedger`. `QueueInv` says that
what is pushed is complete but not that it is later than what it replaces, so
`AheadInv` orders the versions: on a synced clone origin is behind HEAD, HEAD
behind the index, and the index behind what is about to be added. A reset makes
the three one, and under a live runner the files it is about to add stay ahead of
them, for a file origin has is replaced by origin's, and one it has not is behind
nothing. `OneRun` covers a run without its runner, of which `LockInv` says
nothing. `GitPush` is `Publish`, `StartHarbor` is `Begin`, and a run that ends,
or dies with its runner or the machine, is `End`.

Model-checked only: `CleanedUp`, for liveness under fairness needs ENABLED, which
the provers do not have. Of the v2 slice, `RetrievalInv` leaves out the prior
attempts, a selected subsequence no proved property is about; the document's
claim about them is refuted by `prior_attempts`.

## 5. Not modelled

Text: prompts (`prompts.py`), previews, the wording of digests and feedback, and
the JSON parser, of which only the outcome matters to the loop. The store
library and Harbor beyond what they do to the harness; the order in which the
store lists objects is taken to be creation order. `testing.py`, a test double
whose answers are among the modelled ones. The scripts that only inspect or
rebuild the machine (`preflight.py`, `cache_smoke_check.py`,
the rebuild and smoke test scripts): they keep no state. A process that dies
while it writes `trajectory.json`, which is rewritten in place each turn, leaves
it torn in the model too (`Kill`), but no property speaks of it: it would only
restate that `write_text` is not atomic. The reports' layout. Two documents are wrong about the metrics in a way no property is
about: the docstring of `cache_stats` counts trials without a summary, which its
glob does not see (`wolfbench_metrics.py:189-196`), and that of `build_matrix`
promises a problem note for a padded row (`wolfbench_metrics.py:103-105`), which
only `compare_runs.py` makes.

## 6. Plan

Done: every component that keeps state is modelled, and every safety and action
property of the passing runs is proved. What is left:

* what a trial promises to the metrics: the composition of `Trial` with
  `Retrieval`, and the artifacts a trial leaves as the results `WolfBench` reads;
* of the findings, what does hold instead of each refuted claim (for instance
  how many `llm_retry` events a turn can log), stated and proved.
