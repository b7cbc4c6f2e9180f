------------------------------ MODULE WolfBench ------------------------------
(***************************************************************************)
(* The numbers reported of the benchmark: wolfbench_metrics.py, which      *)
(* reads Harbor's job directories, and compare_runs.py, which reads the    *)
(* chunks collect_chunk.py made of them.                                   *)
(*                                                                         *)
(* Trials start in order and end in any order; a task can be given more    *)
(* trials at any time (a subset is re-run into a new job).  The scripts    *)
(* may be run at any moment and see the trials that have a result.json.    *)
(* What they report is a function of those; a number that is a fraction    *)
(* is given by its numerator, the denominator being a count of tasks.      *)
(***************************************************************************)
EXTENDS Integers, Sequences, FiniteSets, SequencesExt, FiniteSetsExt

CONSTANTS
    Configs,    \* the labels of --config
    Tasks,
    Results,    \* what a trial may leave behind
    MaxTrials   \* bound: trials of the whole exploration

\* A result.json that can be read or not, with a started_at or not, and the
\* verifier's rewards by key (none: the trial died before it was verified);
\* summary.json: none, an old one without the cache fields, or one with the
\* split of the input; the tokens the trial used.
Usages == [uncached : Nat, write : Nat, read : Nat, out : Nat]
ASSUME ResultsAssumption ==
    \A r \in Results :
        /\ {r.readable, r.stamped} \subseteq BOOLEAN
        /\ r.summary \in {"none", "old", "split"}
        /\ r.rewards \in [DOMAIN r.rewards -> 0..1]
        /\ r.usage \in Usages
        /\ ~r.readable => ~r.stamped /\ r.rewards = <<>>
ASSUME TrialsAssumption == MaxTrials \in Nat

VARIABLE trials   \* in the order they started: a trial's position is its name

Pending == [pending |-> TRUE]   \* no result.json yet

MetricsInit == trials = <<>>

StartTrial(c, t) ==
    /\ Len(trials) < MaxTrials
    /\ trials' = Append(trials, [config |-> c, task |-> t, result |-> Pending])

EndTrial(i, r) ==
    /\ trials[i].result = Pending
    /\ trials' = [trials EXCEPT ![i].result = r]

MetricsNext ==
    \/ \E c \in Configs, t \in Tasks : StartTrial(c, t)
    \/ \E i \in DOMAIN trials, r \in Results : EndTrial(i, r)

MetricsSpec == MetricsInit /\ [][MetricsNext]_trials

-----------------------------------------------------------------------------
(* The trials the scripts read *)

Result(i) == trials[i].result
\* A result.json that cannot be read stops collect_chunk.py; compare_runs.py then
\* gets fewer trials, which is one of the states without that trial.
Finished(c) == {i \in DOMAIN trials : trials[i].config = c /\ Result(i) # Pending}
TasksOf(c) == {trials[i].task : i \in Finished(c)}

\* extract_reward: the canonical reward, or the mean of the others; a mean is
\* 1 when every reward is.
Scored(i) == Result(i).rewards # <<>>
Passed(i) ==
    LET rewards == Result(i).rewards
    IN  /\ Scored(i)
        /\ IF "reward" \in DOMAIN rewards THEN rewards["reward"] = 1
           ELSE \A k \in DOMAIN rewards : rewards[k] = 1

\* The sort key (started_at or "", trial), and the trials of a task in its order:
\* the place of one is the number of those before it.
Before(i, j) ==
    LET key(x) == IF Result(x).stamped THEN x ELSE 0
    IN  key(i) < key(j) \/ (key(i) = key(j) /\ i < j)
TrialsOf(c, t) == {i \in Finished(c) : trials[i].task = t}
Rank(i, own) == Cardinality({j \in own : Before(j, i)})
Rows(c, t) ==
    LET own == TrialsOf(c, t)
    IN  [k \in 1..Cardinality(own) |-> CHOOSE i \in own : Rank(i, own) = k - 1]

-----------------------------------------------------------------------------
(* build_matrix of either script *)

\* The widest task, and a row filled up to it.
Width(c) == Max({0} \cup {Len(Rows(c, t)) : t \in TasksOf(c)})
Pad(cells, n) == [k \in 1..n |-> k \in DOMAIN cells /\ cells[k]]

WolfMatrix(c) ==
    [t \in TasksOf(c) |-> Pad([k \in DOMAIN Rows(c, t) |-> Passed(Rows(c, t)[k])], Width(c))]

\* --max-runs: later trials of a task are dropped.  Without it the cap is the
\* number of trials.
Capped(c, t, cap) == SubSeq(Rows(c, t), 1, Min({Len(Rows(c, t)), cap}))

\* Mutant: the extra trial of one task still widens the table for all.
CappedWidth_Widest(c, cap) == Width(c)

CappedWidth(c, cap) == Min({Width(c), cap})

CompareMatrix(c, cap) ==
    [t \in TasksOf(c) |->
        Pad([k \in DOMAIN Capped(c, t, cap) |-> Passed(Capped(c, t, cap)[k])],
            CappedWidth(c, cap))]

\* Mutant: as in wolfbench_metrics.py, nothing is said of padding.
CompareProblems_NoPadding(c, cap) ==
    {<<"unscored", i>> : i \in {j \in Finished(c) : ~Scored(j)}}

CompareProblems(c, cap) ==
    LET kept == UNION {ToSet(Capped(c, t, cap)) : t \in TasksOf(c)}
    IN  {<<"unscored", i>> : i \in {j \in kept : ~Scored(j)}}
          \cup {<<"padded", t>> :
                   t \in {u \in TasksOf(c) : Len(Capped(c, u, cap)) < CappedWidth(c, cap)}}

-----------------------------------------------------------------------------
(* The five numbers, the labels and the diff *)

Passes(cells) == {k \in DOMAIN cells : cells[k]}
Always(cells) == Passes(cells) = DOMAIN cells
Ever(cells) == Passes(cells) # {}

\* Mutant: the rates of the tasks instead of the runs.
RunPasses_OfTasks(matrix, runs) == {Cardinality(Passes(matrix[t])) : t \in DOMAIN matrix}

\* per_run_rates: how many tasks each run passed.
RunPasses(matrix, runs) ==
    {Cardinality({t \in DOMAIN matrix : matrix[t][r]}) : r \in 1..runs}

\* sum(sum(matrix[task]) for task in tasks): the cells that are True.
PassedCells(matrix, runs) ==
    {cell \in (DOMAIN matrix) \X (1..runs) : matrix[cell[1]][cell[2]]}

\* compute_metrics and five_metrics: `total' is the average, times the runs.
FiveNumbers(matrix, runs) ==
    [solid   |-> Cardinality({t \in DOMAIN matrix : Always(matrix[t])}),
     worst   |-> Min(RunPasses(matrix, runs)),
     total   |-> Cardinality(PassedCells(matrix, runs)),
     best    |-> Max(RunPasses(matrix, runs)),
     ceiling |-> Cardinality({t \in DOMAIN matrix : Ever(matrix[t])})]

Label(cells) == IF Always(cells) THEN "always" ELSE IF Ever(cells) THEN "sometimes" ELSE "never"

\* restrict: the clean basis keeps the rows as they were padded.
Clean(matrix, excluded) == [t \in DOMAIN matrix \ excluded |-> matrix[t]]

Cells(matrix, t) == IF t \in DOMAIN matrix THEN matrix[t] ELSE <<>>

\* Mutant: solved by both is only said of what both always solve.
Category_BothAlways(left, right) ==
    CASE Ever(left) /\ ~Ever(right) -> "left_only"
      [] Ever(right) /\ ~Ever(left) -> "right_only"
      [] Always(left) /\ Always(right) -> "both"
      [] OTHER -> "neither"

Category(left, right) ==
    CASE Ever(left) /\ ~Ever(right) -> "left_only"
      [] Ever(right) /\ ~Ever(left) -> "right_only"
      [] Ever(left) /\ Ever(right) -> "both"
      [] OTHER -> "neither"

Flaky(cells) == Cardinality(Passes(cells)) \in 1..(Len(cells) - 1)

-----------------------------------------------------------------------------
(* Tokens and dollars *)

\* Dollars per million tokens, times a hundred.
PriceIn == 300
PriceOut == 1500
PriceCacheRead == 30
PriceCacheWrite == 375

Input(u) == u.uncached + u.write + u.read
Usage(i) == Result(i).usage
WithSummary(c, kinds) == {i \in Finished(c) : Result(i).summary \in kinds}

\* Mutant: the reads are charged as input as well.
PlainCost_ReadsTwice(u) ==
    Input(u) * PriceIn + u.read * PriceCacheRead + u.out * PriceOut

\* What a trial costs where the split of its input is known, and where only
\* the reads are.
ExactCost(u) ==
    u.uncached * PriceIn + u.write * PriceCacheWrite + u.read * PriceCacheRead
      + u.out * PriceOut
PlainCost(u) == (Input(u) - u.read) * PriceIn + u.read * PriceCacheRead + u.out * PriceOut

CostAndTokens(c) ==
    LET split == WithSummary(c, {"split"})
        plain == Finished(c) \ split
    IN  [input  |-> SumFunction([i \in Finished(c) |-> Input(Usage(i))]),
         read   |-> SumFunction([i \in Finished(c) |-> Usage(i).read]),
         cost   |-> SumFunction([i \in split |-> ExactCost(Usage(i))])
                      + SumFunction([i \in plain |-> PlainCost(Usage(i))]),
         lowerBound |-> plain # {},
         solved |-> Cardinality({i \in Finished(c) : Passed(i)})]

\* cache_stats of wolfbench_metrics.py looks for the files summary.json.
CacheStats(c) ==
    LET split == WithSummary(c, {"split"})
        any   == WithSummary(c, {"old", "split"})
    IN  [input   |-> SumFunction([i \in any |-> Input(Usage(i))]),
         read    |-> SumFunction([i \in split |-> Usage(i).read]),
         with    |-> Cardinality(split),
         without |-> Cardinality(any \ split)]

-----------------------------------------------------------------------------
(* Correctness *)

Caps == 1..MaxTrials

\* DECISIONS.md item 11: "monotonically ordered numbers: solid <= worst_of <=
\* average <= best_of <= ceiling", on either script's table, under any cap, with
\* the width of the full basis also on any clean one.
Ordered(matrix, runs) ==
    DOMAIN matrix # {} =>
        LET five == FiveNumbers(matrix, runs)
        IN  /\ five.solid <= five.worst /\ five.worst * runs <= five.total
            /\ five.total <= five.best * runs /\ five.best <= five.ceiling
FiveOrdered ==
    \A c \in Configs, excluded \in SUBSET Tasks :
        /\ Ordered(Clean(WolfMatrix(c), excluded), Width(c))
        /\ \A cap \in Caps : Ordered(Clean(CompareMatrix(c, cap), excluded),
                                    CappedWidth(c, cap))

\* Every failed cell of compare_runs.py is a trial that was verified and failed,
\* or there is a problem naming its trial or its task: nothing fails silently.
FailuresExplained ==
    \A c \in Configs, cap \in Caps :
        \A t \in TasksOf(c), k \in 1..CappedWidth(c, cap) :
            CompareMatrix(c, cap)[t][k] = FALSE =>
                LET kept == Capped(c, t, cap)
                IN  IF k > Len(kept) THEN <<"padded", t>> \in CompareProblems(c, cap)
                    ELSE Scored(kept[k]) \/ <<"unscored", kept[k]>> \in CompareProblems(c, cap)

\* The artifacts of a comparison agree: the labels and the diff against any
\* other config say of each task what solid and ceiling count, "flaky" in the
\* diff is "sometimes" in the matrix, and the passes counted for the dollars per
\* solve are those of the table, or more where the cap dropped some.
ArtifactsAgree ==
    \A c, d \in Configs, cap \in Caps :
        LET left  == CompareMatrix(c, cap)
            right == CompareMatrix(d, cap)
            five  == FiveNumbers(left, CappedWidth(c, cap))
            labelled(names) == {t \in DOMAIN left : Label(left[t]) \in names}
        IN  DOMAIN left # {} =>
              /\ Cardinality(labelled({"always"})) = five.solid
              /\ labelled({"sometimes"}) = {t \in Tasks : Flaky(Cells(left, t))}
              /\ five.ceiling = Cardinality({t \in DOMAIN left \cup DOMAIN right :
                     Category(Cells(left, t), Cells(right, t)) \in {"left_only", "both"}})
              /\ five.total <= CostAndTokens(c).solved
              /\ cap >= Width(c) => five.total = CostAndTokens(c).solved

\* compare_runs.py:24-27: the cost is never above the true one, and it is the
\* true one unless cost_is_lower_bound says otherwise; where every trial left a
\* split, both scripts report the same input and the same reads.
CostHonest ==
    \A c \in Configs :
        LET report == CostAndTokens(c)
            true   == SumFunction([i \in Finished(c) |-> ExactCost(Usage(i))])
        IN  /\ report.cost <= true
            /\ report.lowerBound \/ report.cost = true
            /\ CacheStats(c).read <= report.read /\ report.read <= report.input
            /\ CacheStats(c).with = Cardinality(Finished(c)) =>
                 CacheStats(c).input = report.input /\ CacheStats(c).read = report.read

\* compare_runs.py:60-62: a trial of a task that has its MAX_RUNS trials already,
\* all begun before it, changes no cell of the table and nobody's padding.
ExtraTrialDropped ==
    [][\A i \in DOMAIN trials, cap \in Caps :
         LET c == trials[i].config
             earlier == {j \in Finished(c) : trials[j].task = trials[i].task /\ j < i}
         IN  /\ trials'[i] # trials[i] /\ trials'[i].result.stamped
             /\ Cardinality(earlier) >= cap
             => CompareMatrix(c, cap)' = CompareMatrix(c, cap)]_trials
=============================================================================
