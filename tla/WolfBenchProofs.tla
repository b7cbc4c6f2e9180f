--------------------------- MODULE WolfBenchProofs ---------------------------
(***************************************************************************)
(* Theorems about WolfBench.  The scripts keep no state, so little has to  *)
(* be kept by the steps: that the trials are what Harbor makes them.  The  *)
(* work is in the operators: the rows are the trials of a task, each once  *)
(* and in order; the table has as many cells in each row; its columns and  *)
(* its rows are two ways to count the same cells; and money is a sum.      *)
(***************************************************************************)
EXTENDS WolfBench, DataLemmas

-----------------------------------------------------------------------------
(* The trials                                                                *)

\* A trial is pending, or has left one of the results.
Trial == [config : Configs, task : Tasks, result : Results \cup {Pending}]
TrialsTyped == trials \in Seq(Trial)

\* The trials keep their types.
LEMMA TrialsKeepTypes == MetricsSpec => []TrialsTyped
<1>1. MetricsInit => TrialsTyped
  BY DEF MetricsInit, TrialsTyped
<1>2. TrialsTyped /\ [MetricsNext]_trials => TrialsTyped'
  <2>. SUFFICES ASSUME TrialsTyped, [MetricsNext]_trials  PROVE TrialsTyped'
    OBVIOUS
  <2>1. ASSUME NEW c \in Configs, NEW t \in Tasks, StartTrial(c, t)  PROVE TrialsTyped'
    BY <2>1 DEF StartTrial, TrialsTyped, Trial
  <2>2. ASSUME NEW i \in DOMAIN trials, NEW r \in Results, EndTrial(i, r)  PROVE TrialsTyped'
    <3>1. trials[i] \in Trial /\ trials' = [trials EXCEPT ![i].result = r]
      BY <2>2 DEF EndTrial, TrialsTyped
    <3>2. [trials[i] EXCEPT !.result = r] \in Trial
      BY <3>1 DEF Trial
    <3>. QED
      BY <3>1, <3>2 DEF TrialsTyped
  <2>3. CASE UNCHANGED trials
    BY <2>3 DEF TrialsTyped
  <2>. QED
    BY <2>1, <2>2, <2>3 DEF MetricsNext
<1>. QED
  BY <1>1, <1>2, PTL DEF MetricsSpec

\* What is read of them is finite, and is typed.
LEMMA FinishedTrials ==
  ASSUME TrialsTyped, NEW c
  PROVE  /\ IsFiniteSet(Finished(c)) /\ Finished(c) \subseteq 1..Len(trials)
         /\ Len(trials) \in Nat /\ DOMAIN trials = 1..Len(trials)
         /\ IsFiniteSet(TasksOf(c)) /\ TasksOf(c) \subseteq Tasks
         /\ \A i \in Finished(c) : Result(i) \in Results /\ trials[i].task \in TasksOf(c)
<1>1. Len(trials) \in Nat /\ DOMAIN trials = 1..Len(trials)
  BY DEF TrialsTyped
<1>2. Finished(c) \subseteq 1..Len(trials)
  BY <1>1 DEF Finished
<1>3. IsFiniteSet(1..Len(trials))
  BY <1>1, FS_Interval
<1>4. IsFiniteSet(Finished(c))
  BY <1>2, <1>3, FS_Subset
<1>5. ASSUME NEW i \in Finished(c)
      PROVE  /\ Result(i) \in Results
             /\ trials[i].task \in TasksOf(c) /\ trials[i].task \in Tasks
  <2>1. trials[i] \in Trial
    BY <1>1, <1>2 DEF TrialsTyped
  <2>. QED
    BY <2>1 DEF Trial, Finished, TasksOf, Result
<1>6. IsFiniteSet(TasksOf(c))
  <2>. DEFINE f == [i \in Finished(c) |-> trials[i].task]
  <2>1. f \in Surjection(Finished(c), TasksOf(c))
    BY DEF Surjection, TasksOf
  <2>. QED
    BY <1>4, <2>1, FS_Surjection
<1>7. TasksOf(c) \subseteq Tasks
  BY <1>5 DEF TasksOf
<1>. QED
  BY <1>1, <1>2, <1>4, <1>5, <1>6, <1>7

-----------------------------------------------------------------------------
(* Rows                                                                      *)

\* The sort key orders any trials strictly and totally.
LEMMA BeforeOrders ==
  ASSUME NEW i \in Nat, NEW j \in Nat, NEW k \in Nat
  PROVE  /\ ~Before(i, i)
         /\ i # j => Before(i, j) \/ Before(j, i)
         /\ Before(i, j) /\ Before(j, k) => Before(i, k)
<1>. DEFINE key(x) == IF Result(x).stamped THEN x ELSE 0
<1>1. \A x \in Nat : key(x) \in Nat
  OBVIOUS
<1>2. \A x, y \in Nat : Before(x, y) <=> key(x) < key(y) \/ (key(x) = key(y) /\ x < y)
  BY DEF Before
<1>. HIDE DEF key
<1>3. key(i) \in Nat /\ key(j) \in Nat /\ key(k) \in Nat
  BY <1>1
<1>. QED
  BY <1>2, <1>3

\* The ranks of n trials are the first n numbers, each once.
LEMMA RanksCount ==
  ASSUME NEW own \in SUBSET Nat, IsFiniteSet(own)
  PROVE  /\ Cardinality(own) \in Nat
         /\ \A i \in own : Rank(i, own) \in 0..(Cardinality(own) - 1)
         /\ \A i, j \in own : Before(i, j) => Rank(i, own) < Rank(j, own)
         /\ \A i, j \in own : Rank(i, own) = Rank(j, own) => i = j
         /\ \A k \in 0..(Cardinality(own) - 1) : \E i \in own : Rank(i, own) = k
<1>. DEFINE n == Cardinality(own)
            Earlier(i) == {j \in own : Before(j, i)}
            rank == [i \in own |-> Rank(i, own)]
<1>1. n \in Nat
  BY FS_CardinalityType
<1>2. \A i \in own : /\ Earlier(i) \subseteq own /\ IsFiniteSet(Earlier(i))
                     /\ Rank(i, own) = Cardinality(Earlier(i)) /\ Rank(i, own) \in Nat
  <2>1. \A i \in own : Earlier(i) \subseteq own /\ IsFiniteSet(Earlier(i))
    BY FS_Subset
  <2>2. \A i \in own : Cardinality(Earlier(i)) \in Nat
    BY <2>1, FS_CardinalityType
  <2>. QED
    BY <2>1, <2>2 DEF Rank
<1>3. ASSUME NEW i \in own, NEW s \in SUBSET own, i \notin s, Earlier(i) \subseteq s
      PROVE  Rank(i, own) <= Cardinality(s) /\ Cardinality(s) \in Nat
  <2>1. IsFiniteSet(s)
    BY FS_Subset
  <2>2. Cardinality(Earlier(i)) <= Cardinality(s)
    BY <1>3, <2>1, FS_Subset
  <2>3. Cardinality(s) \in Nat
    BY <2>1, FS_CardinalityType
  <2>. QED
    BY <1>2, <2>2, <2>3
<1>4. ASSUME NEW i \in own  PROVE Rank(i, own) \in 0..(n - 1)
  <2>1. i \notin own \ {i} /\ Earlier(i) \subseteq own \ {i}
    BY BeforeOrders
  <2>2. Rank(i, own) <= Cardinality(own \ {i})
    BY <1>3, <2>1
  <2>3. Cardinality(own \ {i}) = n - 1
    BY FS_RemoveElement
  <2>4. Rank(i, own) \in Nat
    BY <1>2
  <2>. HIDE DEF n
  <2>. QED
    BY <1>1, <2>2, <2>3, <2>4
<1>5. ASSUME NEW i \in own, NEW j \in own, Before(i, j)  PROVE Rank(i, own) < Rank(j, own)
  <2>1. i \notin Earlier(i) /\ i \in Earlier(j)
    BY <1>5, BeforeOrders
  <2>2. \A k \in own : Before(k, i) => Before(k, j)
    BY <1>5, BeforeOrders
  <2>3. Earlier(i) \subseteq Earlier(j) \ {i}
    BY <2>1, <2>2
  <2>4. Rank(i, own) <= Cardinality(Earlier(j) \ {i})
    <3>1. Earlier(j) \ {i} \in SUBSET own /\ i \notin Earlier(j) \ {i}
      OBVIOUS
    <3>. HIDE DEF Earlier
    <3>. QED
      BY <1>3, <2>3, <3>1
  <2>5. Cardinality(Earlier(j) \ {i}) = Rank(j, own) - 1
    BY <1>2, <2>1, FS_RemoveElement
  <2>6. Rank(i, own) \in Nat /\ Rank(j, own) \in Nat
    BY <1>2
  <2>. QED
    BY <2>4, <2>5, <2>6
<1>6. ASSUME NEW i \in own, NEW j \in own, Rank(i, own) = Rank(j, own)  PROVE i = j
  <2>. SUFFICES ASSUME i # j  PROVE FALSE
    OBVIOUS
  <2>1. Before(i, j) \/ Before(j, i)
    BY BeforeOrders
  <2>2. Rank(i, own) \in Nat
    BY <1>2
  <2>. QED
    BY <1>5, <1>6, <2>1, <2>2
<1>7. \A k \in 0..(n - 1) : \E i \in own : Rank(i, own) = k
  <2>1. rank \in Injection(own, 0..(n - 1))
    BY <1>4, <1>6 DEF Injection, IsInjective
  <2>2. IsFiniteSet(0..(n - 1)) /\ Cardinality(0..(n - 1)) = n
    <3>1. 0 \in Int /\ n - 1 \in Int
      BY <1>1
    <3>2. /\ IsFiniteSet(0..(n - 1))
          /\ Cardinality(0..(n - 1)) = IF 0 > n - 1 THEN 0 ELSE (n - 1) - 0 + 1
      <4>. HIDE DEF n
      <4>. QED
        BY <3>1, FS_Interval
    <3>. HIDE DEF n
    <3>. QED
      BY <1>1, <3>2
  <2>3. rank \in Surjection(own, 0..(n - 1))
    BY <2>1, <2>2, FS_Injection
  <2>. QED
    BY <2>3 DEF Surjection
<1>. QED
  BY <1>1, <1>4, <1>5, <1>6, <1>7

\* A row has the trials of its task, each once and at the place of its rank.
LEMMA RowsAre ==
  ASSUME TrialsTyped, NEW c, NEW t
  PROVE  LET own == TrialsOf(c, t)
         IN  /\ IsFiniteSet(own) /\ own \subseteq Finished(c) /\ own \in SUBSET Nat
             /\ Len(Rows(c, t)) = Cardinality(own) /\ Len(Rows(c, t)) \in Nat
             /\ Rows(c, t) \in [1..Len(Rows(c, t)) -> own]
             /\ \A k \in 1..Len(Rows(c, t)) : Rank(Rows(c, t)[k], own) = k - 1
             /\ \A i \in own : Rank(i, own) + 1 \in 1..Len(Rows(c, t))
                               /\ Rows(c, t)[Rank(i, own) + 1] = i
<1>. DEFINE own == TrialsOf(c, t)
            n == Cardinality(own)
<1>1. own \subseteq Finished(c) /\ IsFiniteSet(own) /\ own \in SUBSET Nat
  <2>1. own \subseteq Finished(c)
    BY DEF TrialsOf
  <2>. QED
    BY <2>1, FinishedTrials, FS_Subset
<1>2. Rows(c, t) = [k \in 1..n |-> CHOOSE i \in own : Rank(i, own) = k - 1]
  BY DEF Rows
<1>. HIDE DEF own
<1>3. /\ n \in Nat
      /\ \A i \in own : Rank(i, own) \in 0..(n - 1)
      /\ \A i, j \in own : Rank(i, own) = Rank(j, own) => i = j
      /\ \A k \in 0..(n - 1) : \E i \in own : Rank(i, own) = k
  BY <1>1, RanksCount
<1>. HIDE DEF n
<1>4. ASSUME NEW k \in 1..n  PROVE Rows(c, t)[k] \in own /\ Rank(Rows(c, t)[k], own) = k - 1
  <2>1. k - 1 \in 0..(n - 1)
    BY <1>3
  <2>2. \E i \in own : Rank(i, own) = k - 1
    BY <1>3, <2>1
  <2>. QED
    BY <1>2, <2>2
<1>5. Rows(c, t) \in [1..n -> own] /\ Len(Rows(c, t)) = n
  BY <1>2, <1>3, <1>4
<1>6. ASSUME NEW i \in own  PROVE Rank(i, own) + 1 \in 1..n /\ Rows(c, t)[Rank(i, own) + 1] = i
  <2>1. Rank(i, own) \in 0..(n - 1)
    BY <1>3
  <2>2. Rank(i, own) + 1 \in 1..n /\ (Rank(i, own) + 1) - 1 = Rank(i, own)
    BY <1>3, <2>1
  <2>. QED
    BY <1>3, <1>4, <2>2
<1>. QED
  BY <1>1, <1>3, <1>4, <1>5, <1>6 DEF own, n

\* There are n numbers up to n.
LEMMA UpToCount ==
  ASSUME NEW n \in Nat
  PROVE  IsFiniteSet(1..n) /\ Cardinality(1..n) = n
<1>1. IsFiniteSet(1..n) /\ Cardinality(1..n) = IF 1 > n THEN 0 ELSE n - 1 + 1
  BY FS_Interval
<1>. QED
  BY <1>1

\* The smaller of two numbers.
LEMMA MinOfTwo ==
  ASSUME NEW a \in Nat, NEW b \in Nat
  PROVE  Min({a, b}) = IF a <= b THEN a ELSE b
<1>1. Min({a, b}) \in {a, b} /\ \A k \in {a, b} : Min({a, b}) <= k
  BY LeastOf
<1>. QED
  BY <1>1

\* Every task that is reported has a trial, and no row is wider than the table.
LEMMA WidthIs ==
  ASSUME TrialsTyped, NEW c
  PROVE  /\ Width(c) \in Nat
         /\ \A t \in TasksOf(c) : /\ Len(Rows(c, t)) \in 1..Width(c)
                                  /\ TrialsOf(c, t) # {}
<1>. DEFINE widths == {0} \cup {Len(Rows(c, t)) : t \in TasksOf(c)}
            n == Len(trials)
<1>1. n \in Nat /\ Finished(c) \subseteq 1..n
  BY FinishedTrials
<1>2. ASSUME NEW t \in TasksOf(c)  PROVE Len(Rows(c, t)) \in 1..n /\ TrialsOf(c, t) # {}
  <2>1. /\ IsFiniteSet(TrialsOf(c, t)) /\ TrialsOf(c, t) \subseteq Finished(c)
        /\ Len(Rows(c, t)) = Cardinality(TrialsOf(c, t)) /\ Len(Rows(c, t)) \in Nat
    BY RowsAre
  <2>2. TrialsOf(c, t) # {}
    BY DEF TasksOf, TrialsOf
  <2>3. Cardinality(TrialsOf(c, t)) # 0
    BY <2>1, <2>2, FS_EmptySet
  <2>4. IsFiniteSet(1..n) /\ Cardinality(1..n) = n
    BY <1>1, UpToCount
  <2>5. Cardinality(TrialsOf(c, t)) <= Cardinality(1..n)
    <3>1. TrialsOf(c, t) \in SUBSET (1..n)
      BY <1>1, <2>1
    <3>. HIDE DEF n
    <3>. QED
      BY <2>4, <3>1, FS_Subset
  <2>. HIDE DEF n
  <2>. QED
    BY <1>1, <2>1, <2>2, <2>3, <2>4, <2>5
<1>3. widths \in SUBSET (0..n) /\ widths # {}
  BY <1>1, <1>2
<1>4. Max(widths) \in widths /\ \A k \in widths : k <= Max(widths)
  <2>. HIDE DEF widths, n
  <2>. QED
    BY <1>1, <1>3, GreatestOf
<1>5. Width(c) = Max(widths)
  BY DEF Width
<1>6. Max(widths) \in Nat
  <2>1. Max(widths) \in 0..n
    BY <1>3, <1>4
  <2>. HIDE DEF widths, n
  <2>. QED
    BY <1>1, <2>1
<1>7. ASSUME NEW t \in TasksOf(c)  PROVE Len(Rows(c, t)) \in 1..Max(widths)
  <2>1. Len(Rows(c, t)) \in widths /\ Len(Rows(c, t)) \in 1..n
    BY <1>2
  <2>2. Len(Rows(c, t)) <= Max(widths)
    BY <1>4, <2>1
  <2>. HIDE DEF widths, n
  <2>. QED
    BY <1>1, <1>6, <2>1, <2>2
<1>. QED
  BY <1>2, <1>5, <1>6, <1>7

\* How many of its trials a task keeps under a cap.
Keep(c, t, cap) == IF Len(Rows(c, t)) <= cap THEN Len(Rows(c, t)) ELSE cap

\* A capped row is the beginning of the row, and the capped table is as wide as
\* the widest one.
LEMMA CappedIs ==
  ASSUME TrialsTyped, NEW c, NEW cap \in Nat \ {0}, NEW t \in TasksOf(c)
  PROVE  /\ Len(Rows(c, t)) \in Nat /\ Keep(c, t, cap) \in 1..Len(Rows(c, t))
         /\ Keep(c, t, cap) \in 1..CappedWidth(c, cap)
         /\ CappedWidth(c, cap) \in Nat \ {0}
         /\ Len(Capped(c, t, cap)) = Keep(c, t, cap)
         /\ DOMAIN Capped(c, t, cap) = 1..Keep(c, t, cap)
<1>. DEFINE rows == Rows(c, t)
            n == Len(rows)
            m == Keep(c, t, cap)
<1>1. n \in 1..Width(c) /\ Width(c) \in Nat
  BY WidthIs
<1>2. rows \in [1..n -> TrialsOf(c, t)] /\ n \in Nat
  BY RowsAre
<1>3. Min({n, cap}) = m /\ CappedWidth(c, cap) = IF Width(c) <= cap THEN Width(c) ELSE cap
  BY <1>1, <1>2, MinOfTwo DEF CappedWidth, Keep
<1>4. Capped(c, t, cap) = SubSeq(rows, 1, m)
  BY <1>3 DEF Capped
<1>5. m \in 1..n /\ m \in 1..CappedWidth(c, cap) /\ CappedWidth(c, cap) \in Nat \ {0}
  BY <1>1, <1>2, <1>3 DEF Keep
<1>. HIDE DEF rows, n, m
<1>6. Len(SubSeq(rows, 1, m)) = m /\ DOMAIN SubSeq(rows, 1, m) = 1..m
  <2>1. rows \in Seq(TrialsOf(c, t)) /\ Len(rows) = n
    BY <1>2 DEF n
  <2>. QED
    BY <1>2, <1>5, <2>1
<1>. QED
  BY <1>2, <1>4, <1>5, <1>6 DEF rows, n, m

\* The k-th kept trial of a task is the k-th of its trials.
LEMMA CappedRow ==
  ASSUME TrialsTyped, NEW c, NEW cap \in Nat \ {0}, NEW t \in TasksOf(c),
         NEW k \in 1..Keep(c, t, cap)
  PROVE  Capped(c, t, cap)[k] = Rows(c, t)[k]
<1>. DEFINE rows == Rows(c, t)
            n == Len(rows)
            m == Keep(c, t, cap)
<1>1. n \in Nat /\ m \in 1..n
  BY CappedIs
<1>2. rows \in [1..n -> TrialsOf(c, t)]
  BY RowsAre
<1>3. Capped(c, t, cap) = SubSeq(rows, 1, m)
  BY <1>1, MinOfTwo DEF Capped, Keep
<1>4. k \in 1..m
  OBVIOUS
<1>. HIDE DEF rows, n, m
<1>5. rows \in Seq(TrialsOf(c, t)) /\ Len(rows) = n
  BY <1>1, <1>2 DEF n
<1>6. SubSeq(rows, 1, m)[k] = rows[k]
  BY <1>1, <1>4, <1>5
<1>. QED
  BY <1>3, <1>6 DEF rows

\* It is a finished trial of the task, with k - 1 before it.
LEMMA CappedAt ==
  ASSUME TrialsTyped, NEW c, NEW cap \in Nat \ {0}, NEW t \in TasksOf(c),
         NEW k \in 1..Keep(c, t, cap)
  PROVE  LET i == Capped(c, t, cap)[k]
         IN  /\ i \in TrialsOf(c, t) /\ i \in Finished(c) /\ trials[i].task = t
             /\ k \in Nat /\ Rank(i, TrialsOf(c, t)) = k - 1
<1>. DEFINE n == Len(Rows(c, t))
            i == Capped(c, t, cap)[k]
<1>1. k \in Nat /\ k \in 1..n
  <2>1. n \in Nat /\ Keep(c, t, cap) \in 1..n
    BY CappedIs
  <2>. HIDE DEF n
  <2>. QED
    BY <2>1
<1>2. i = Rows(c, t)[k]
  BY CappedRow
<1>3. Rows(c, t) \in [1..n -> TrialsOf(c, t)] /\ Rank(Rows(c, t)[k], TrialsOf(c, t)) = k - 1
  BY <1>1, RowsAre
<1>. HIDE DEF i
<1>4. i \in TrialsOf(c, t) /\ Rank(i, TrialsOf(c, t)) = k - 1
  BY <1>1, <1>2, <1>3
<1>. QED
  BY <1>1, <1>4 DEF TrialsOf, i

\* A cell is True if its run is of a kept trial that passed.
LEMMA CompareCells ==
  ASSUME TrialsTyped, NEW c, NEW cap \in Nat \ {0}
  PROVE  /\ DOMAIN CompareMatrix(c, cap) = TasksOf(c)
         /\ \A t \in TasksOf(c) :
              CompareMatrix(c, cap)[t] =
                [k \in 1..CappedWidth(c, cap) |->
                   k \in 1..Keep(c, t, cap) /\ Passed(Capped(c, t, cap)[k])]
<1>1. DOMAIN CompareMatrix(c, cap) = TasksOf(c)
  BY DEF CompareMatrix
<1>2. ASSUME NEW t \in TasksOf(c)
      PROVE  CompareMatrix(c, cap)[t] =
                [k \in 1..CappedWidth(c, cap) |->
                   k \in 1..Keep(c, t, cap) /\ Passed(Capped(c, t, cap)[k])]
  <2>. DEFINE kept == Capped(c, t, cap)
              cells == [k \in DOMAIN kept |-> Passed(kept[k])]
  <2>1. DOMAIN kept = 1..Keep(c, t, cap)
    BY CappedIs
  <2>2. CompareMatrix(c, cap)[t] = Pad(cells, CappedWidth(c, cap))
    BY DEF CompareMatrix
  <2>. HIDE DEF kept
  <2>3. \A k : (k \in DOMAIN cells /\ cells[k]) <=> (k \in 1..Keep(c, t, cap) /\ Passed(kept[k]))
    BY <2>1
  <2>. HIDE DEF cells
  <2>4. Pad(cells, CappedWidth(c, cap)) =
          [k \in 1..CappedWidth(c, cap) |-> k \in 1..Keep(c, t, cap) /\ Passed(kept[k])]
    BY <2>3 DEF Pad
  <2>. QED
    BY <2>2, <2>4 DEF kept
<1>. QED
  BY <1>1, <1>2

\* Every failed cell is a verified failure or has a problem naming it.
LEMMA FailuresNow == TrialsTyped => FailuresExplained
<1>. SUFFICES ASSUME TrialsTyped, NEW c \in Configs, NEW cap \in Caps, NEW t \in TasksOf(c),
                     NEW k \in 1..CappedWidth(c, cap), CompareMatrix(c, cap)[t][k] = FALSE
              PROVE  IF k > Len(Capped(c, t, cap)) THEN <<"padded", t>> \in CompareProblems(c, cap)
                     ELSE \/ Scored(Capped(c, t, cap)[k])
                          \/ <<"unscored", Capped(c, t, cap)[k]>> \in CompareProblems(c, cap)
  BY DEF FailuresExplained
<1>. DEFINE kept == Capped(c, t, cap)
<1>1. cap \in Nat \ {0}
  BY TrialsAssumption DEF Caps
<1>2. /\ Len(kept) \in Nat /\ DOMAIN kept = 1..Len(kept)
      /\ CappedWidth(c, cap) \in Nat
  BY <1>1, CappedIs
<1>. HIDE DEF kept
<1>3. CASE k > Len(kept)
  <2>1. Len(kept) < CappedWidth(c, cap)
    BY <1>2, <1>3
  <2>2. <<"padded", t>> \in CompareProblems(c, cap)
    BY <2>1 DEF CompareProblems, kept
  <2>. QED
    BY <1>3, <2>2 DEF kept
<1>4. CASE ~(k > Len(kept))
  <2>1. k \in 1..Len(kept)
    BY <1>2, <1>4
  <2>2. kept[k] \in ToSet(kept)
    BY <1>2, <2>1 DEF ToSet
  <2>3. ~Scored(kept[k]) => <<"unscored", kept[k]>> \in CompareProblems(c, cap)
    <3>1. kept[k] \in UNION {ToSet(Capped(c, u, cap)) : u \in TasksOf(c)}
      BY <2>2 DEF kept
    <3>. QED
      BY <3>1 DEF CompareProblems
  <2>. QED
    BY <1>4, <2>3 DEF kept
<1>. QED
  BY <1>3, <1>4

-----------------------------------------------------------------------------
(* The five numbers                                                          *)

\* A table: a finite number of rows, as wide as there are runs.
Table(matrix, runs) ==
    /\ IsFiniteSet(DOMAIN matrix)
    /\ \A t \in DOMAIN matrix : DOMAIN matrix[t] = 1..runs

\* The tasks a run passed.
Column(matrix, r) == {t \in DOMAIN matrix : matrix[t][r]}

\* One more run adds its column to the cells that are True.
LEMMA CellsByColumn ==
  ASSUME NEW matrix, IsFiniteSet(DOMAIN matrix), NEW n \in Nat
  PROVE  /\ IsFiniteSet(PassedCells(matrix, n)) /\ Cardinality(PassedCells(matrix, n)) \in Nat
         /\ Cardinality(Column(matrix, n + 1)) \in Nat
         /\ Cardinality(PassedCells(matrix, n + 1)) =
              Cardinality(PassedCells(matrix, n)) + Cardinality(Column(matrix, n + 1))
         /\ Cardinality(PassedCells(matrix, 0)) = 0
<1>. DEFINE D == DOMAIN matrix
            new == {<<t, n + 1>> : t \in Column(matrix, n + 1)}
<1>1. ASSUME NEW m \in Nat
      PROVE  IsFiniteSet(PassedCells(matrix, m)) /\ Cardinality(PassedCells(matrix, m)) \in Nat
  <2>1. IsFiniteSet(1..m)
    BY UpToCount
  <2>2. IsFiniteSet(D \X (1..m))
    BY <2>1, FS_Product
  <2>3. PassedCells(matrix, m) \in SUBSET (D \X (1..m))
    BY DEF PassedCells
  <2>4. IsFiniteSet(PassedCells(matrix, m))
    BY <2>2, <2>3, FS_Subset
  <2>. QED
    BY <2>4, FS_CardinalityType
<1>2. IsFiniteSet(Column(matrix, n + 1)) /\ Cardinality(Column(matrix, n + 1)) \in Nat
  <2>1. IsFiniteSet(Column(matrix, n + 1))
    BY FS_Subset DEF Column
  <2>. QED
    BY <2>1, FS_CardinalityType
<1>3. IsFiniteSet(new) /\ Cardinality(new) = Cardinality(Column(matrix, n + 1))
  <2>. DEFINE f == [t \in Column(matrix, n + 1) |-> <<t, n + 1>>]
  <2>1. f \in Bijection(Column(matrix, n + 1), new)
    BY DEF Bijection, Injection, Surjection, IsInjective
  <2>2. ExistsBijection(Column(matrix, n + 1), new)
    BY <2>1 DEF ExistsBijection
  <2>. QED
    BY <1>2, <2>2, FS_Bijection
<1>4. PassedCells(matrix, n + 1) = PassedCells(matrix, n) \cup new
  <2>1. 1..(n + 1) = (1..n) \cup {n + 1}
    OBVIOUS
  <2>2. ASSUME NEW cell \in PassedCells(matrix, n + 1)
        PROVE  cell \in PassedCells(matrix, n) \cup new
    <3>1. cell \in D \X (1..(n + 1)) /\ matrix[cell[1]][cell[2]]
      BY DEF PassedCells
    <3>2. cell = <<cell[1], cell[2]>> /\ cell[1] \in D
      BY <3>1
    <3>3. CASE cell[2] = n + 1
      <4>1. cell[1] \in Column(matrix, n + 1)
        BY <3>1, <3>2, <3>3 DEF Column
      <4>. QED
        BY <3>2, <3>3, <4>1
    <3>4. CASE cell[2] # n + 1
      <4>1. cell \in D \X (1..n)
        BY <2>1, <3>1, <3>4
      <4>. QED
        BY <3>1, <4>1 DEF PassedCells
    <3>. QED
      BY <3>3, <3>4
  <2>3. PassedCells(matrix, n) \subseteq PassedCells(matrix, n + 1)
    BY <2>1 DEF PassedCells
  <2>4. new \subseteq PassedCells(matrix, n + 1)
    BY <2>1 DEF PassedCells, Column
  <2>. QED
    BY <2>2, <2>3, <2>4
<1>5. PassedCells(matrix, n) \cap new = {}
  BY DEF PassedCells
<1>6. Cardinality(PassedCells(matrix, n) \cup new) =
        Cardinality(PassedCells(matrix, n)) + Cardinality(new) - Cardinality(PassedCells(matrix, n) \cap new)
  BY <1>1, <1>3, FS_Union
<1>7. Cardinality({}) = 0
  BY FS_EmptySet
<1>8. PassedCells(matrix, 0) = {}
  BY DEF PassedCells
<1>. HIDE DEF new
<1>9. /\ Cardinality(PassedCells(matrix, n)) \in Nat
      /\ Cardinality(PassedCells(matrix, n + 1)) =
           Cardinality(PassedCells(matrix, n)) + Cardinality(Column(matrix, n + 1)) - 0
  BY <1>1, <1>3, <1>4, <1>5, <1>6, <1>7
<1>. QED
  BY <1>1, <1>2, <1>7, <1>8, <1>9

\* If every run passes at least `low' and at most `high' tasks, the cells that
\* are True are as many as that times the runs.
LEMMA CellsBounded ==
  ASSUME NEW matrix, IsFiniteSet(DOMAIN matrix), NEW runs \in Nat,
         NEW low \in Nat, NEW high \in Nat,
         \A r \in 1..runs : /\ low <= Cardinality(Column(matrix, r))
                            /\ Cardinality(Column(matrix, r)) <= high
  PROVE  /\ low * runs <= Cardinality(PassedCells(matrix, runs))
         /\ Cardinality(PassedCells(matrix, runs)) <= high * runs
<1>. DEFINE cells(n) == Cardinality(PassedCells(matrix, n))
            T == {n \in 0..runs : low * n <= cells(n) /\ cells(n) <= high * n}
<1>1. cells(0) = 0 /\ \A n \in Nat : cells(n) \in Nat
  BY CellsByColumn
<1>2. \A n \in Nat : /\ Cardinality(Column(matrix, n + 1)) \in Nat
                     /\ cells(n + 1) = cells(n) + Cardinality(Column(matrix, n + 1))
  BY CellsByColumn
<1>. HIDE DEF cells
<1>3. 0 \in T
  BY <1>1
<1>4. ASSUME NEW n \in 0..(runs - 1), n \in T  PROVE n + 1 \in T
  <2>. DEFINE column == Cardinality(Column(matrix, n + 1))
  <2>1. n \in Nat /\ n + 1 \in 1..runs /\ n + 1 \in 0..runs
    OBVIOUS
  <2>2. column \in Nat /\ cells(n) \in Nat /\ cells(n + 1) = cells(n) + column
    BY <1>1, <1>2, <2>1
  <2>3. low <= column /\ column <= high
    BY <2>1
  <2>. HIDE DEF column
  <2>4. low * (n + 1) = low * n + low /\ high * (n + 1) = high * n + high
    BY <2>1
  <2>5. low * n <= cells(n) /\ cells(n) <= high * n
    BY <1>4
  <2>6. low * n \in Nat /\ high * n \in Nat
    BY <2>1
  <2>7. low * (n + 1) <= cells(n + 1) /\ cells(n + 1) <= high * (n + 1)
    BY <2>2, <2>3, <2>4, <2>5, <2>6
  <2>. QED
    BY <2>1, <2>7
<1>5. 0..runs \subseteq T
  <2>. HIDE DEF T
  <2>. QED
    BY <1>3, <1>4, Induction
<1>. QED
  BY <1>5 DEF cells

\* The five numbers of any table are in order.
LEMMA TableOrdered ==
  ASSUME NEW matrix, NEW runs \in Nat \ {0}, Table(matrix, runs)
  PROVE  Ordered(matrix, runs)
<1>. DEFINE D == DOMAIN matrix
            n == Cardinality(D)
            solid == {t \in D : Always(matrix[t])}
            ceiling == {t \in D : Ever(matrix[t])}
            worst == Min(RunPasses(matrix, runs))
            best == Max(RunPasses(matrix, runs))
<1>1. n \in Nat /\ IsFiniteSet(D)
  BY FS_CardinalityType DEF Table
<1>2. RunPasses(matrix, runs) = {Cardinality(Column(matrix, r)) : r \in 1..runs}
  BY DEF RunPasses, Column
<1>3. \A r : Column(matrix, r) \in SUBSET D
  BY DEF Column
<1>4. \A s \in SUBSET D : IsFiniteSet(s) /\ Cardinality(s) \in 0..n
  BY <1>1, FS_Subset, FS_CardinalityType
<1>5. RunPasses(matrix, runs) \in SUBSET (0..n) /\ RunPasses(matrix, runs) # {}
  <2>1. 1 \in 1..runs
    OBVIOUS
  <2>. QED
    BY <1>2, <1>3, <1>4, <2>1
<1>6. /\ worst \in RunPasses(matrix, runs) /\ best \in RunPasses(matrix, runs)
      /\ \A k \in RunPasses(matrix, runs) : worst <= k /\ k <= best
  <2>1. RunPasses(matrix, runs) \in SUBSET Nat
    BY <1>5
  <2>. HIDE DEF n
  <2>. QED
    BY <1>1, <1>5, <2>1, LeastOf, GreatestOf
<1>7. worst \in Nat /\ best \in Nat
  <2>. HIDE DEF worst, best
  <2>. QED
    BY <1>5, <1>6
<1>8. \A r \in 1..runs : /\ worst <= Cardinality(Column(matrix, r))
                         /\ Cardinality(Column(matrix, r)) <= best
  <2>. HIDE DEF worst, best
  <2>. QED
    BY <1>2, <1>6
<1>9. /\ worst * runs <= Cardinality(PassedCells(matrix, runs))
      /\ Cardinality(PassedCells(matrix, runs)) <= best * runs
  <2>. HIDE DEF worst, best
  <2>. QED
    BY <1>1, <1>7, <1>8, CellsBounded
<1>10. PICK p \in 1..runs, q \in 1..runs : /\ worst = Cardinality(Column(matrix, p))
                                           /\ best = Cardinality(Column(matrix, q))
  <2>. HIDE DEF worst, best
  <2>. QED
    BY <1>2, <1>6
<1>11. Cardinality(solid) <= worst
  <2>1. solid \in SUBSET Column(matrix, p)
    BY DEF Always, Passes, Column, Table
  <2>. QED
    BY <1>3, <1>4, <1>10, <2>1, FS_Subset
<1>12. best <= Cardinality(ceiling)
  <2>1. Column(matrix, q) \in SUBSET ceiling
    BY DEF Ever, Passes, Column, Table
  <2>2. IsFiniteSet(ceiling)
    BY <1>4
  <2>. QED
    BY <1>10, <2>1, <2>2, FS_Subset
<1>. QED
  BY <1>9, <1>11, <1>12 DEF Ordered, FiveNumbers

\* A part of a table is one.
LEMMA CleanTable ==
  ASSUME NEW matrix, NEW runs, Table(matrix, runs), NEW excluded
  PROVE  Table(Clean(matrix, excluded), runs)
<1>1. IsFiniteSet((DOMAIN matrix) \ excluded)
  BY FS_Difference DEF Table
<1>2. /\ DOMAIN Clean(matrix, excluded) = (DOMAIN matrix) \ excluded
      /\ \A t \in (DOMAIN matrix) \ excluded : Clean(matrix, excluded)[t] = matrix[t]
  BY DEF Clean
<1>. QED
  BY <1>1, <1>2 DEF Table

\* Both scripts make tables, and a table with a row has a column.
LEMMA TablesMade ==
  ASSUME TrialsTyped, NEW c
  PROVE  /\ Table(WolfMatrix(c), Width(c))
         /\ DOMAIN WolfMatrix(c) # {} => Width(c) \in Nat \ {0}
         /\ \A cap \in Nat \ {0} :
              /\ Table(CompareMatrix(c, cap), CappedWidth(c, cap))
              /\ DOMAIN CompareMatrix(c, cap) # {} => CappedWidth(c, cap) \in Nat \ {0}
<1>1. IsFiniteSet(TasksOf(c))
  BY FinishedTrials
<1>2. /\ DOMAIN WolfMatrix(c) = TasksOf(c)
      /\ \A t \in TasksOf(c) : DOMAIN WolfMatrix(c)[t] = 1..Width(c)
  BY DEF WolfMatrix, Pad
<1>3. DOMAIN WolfMatrix(c) # {} => Width(c) \in Nat \ {0}
  <2>. SUFFICES ASSUME NEW t \in TasksOf(c)  PROVE Width(c) \in Nat \ {0}
    BY <1>2
  <2>. QED
    BY WidthIs
<1>4. ASSUME NEW cap \in Nat \ {0}
      PROVE  /\ Table(CompareMatrix(c, cap), CappedWidth(c, cap))
             /\ DOMAIN CompareMatrix(c, cap) # {} => CappedWidth(c, cap) \in Nat \ {0}
  <2>1. /\ DOMAIN CompareMatrix(c, cap) = TasksOf(c)
        /\ \A t \in TasksOf(c) : DOMAIN CompareMatrix(c, cap)[t] = 1..CappedWidth(c, cap)
    <3>. DEFINE cells(t) == [k \in 1..CappedWidth(c, cap) |->
                   k \in 1..Keep(c, t, cap) /\ Passed(Capped(c, t, cap)[k])]
    <3>1. /\ DOMAIN CompareMatrix(c, cap) = TasksOf(c)
          /\ \A t \in TasksOf(c) : CompareMatrix(c, cap)[t] = cells(t)
      BY CompareCells
    <3>2. \A t : DOMAIN cells(t) = 1..CappedWidth(c, cap)
      OBVIOUS
    <3>. HIDE DEF cells
    <3>. QED
      BY <3>1, <3>2
  <2>2. \A t \in TasksOf(c) : CappedWidth(c, cap) \in Nat \ {0}
    BY CappedIs
  <2>. QED
    BY <1>1, <2>1, <2>2 DEF Table
<1>. QED
  BY <1>1, <1>2, <1>3, <1>4 DEF Table

\* The five numbers are ordered on every basis.
LEMMA OrderedNow == TrialsTyped => FiveOrdered
<1>. SUFFICES ASSUME TrialsTyped, NEW c \in Configs, NEW excluded \in SUBSET Tasks
              PROVE  /\ Ordered(Clean(WolfMatrix(c), excluded), Width(c))
                     /\ \A cap \in Caps : Ordered(Clean(CompareMatrix(c, cap), excluded),
                                                  CappedWidth(c, cap))
  BY DEF FiveOrdered
<1>1. ASSUME NEW matrix, NEW runs, Table(matrix, runs), DOMAIN matrix # {} => runs \in Nat \ {0}
      PROVE  Ordered(Clean(matrix, excluded), runs)
  <2>1. CASE DOMAIN Clean(matrix, excluded) = {}
    BY <2>1 DEF Ordered
  <2>2. CASE DOMAIN Clean(matrix, excluded) # {}
    <3>1. runs \in Nat \ {0}
      BY <1>1, <2>2 DEF Clean
    <3>2. Table(Clean(matrix, excluded), runs)
      BY <1>1, CleanTable
    <3>. QED
      BY <3>1, <3>2, TableOrdered
  <2>. QED
    BY <2>1, <2>2
<1>2. Caps \subseteq Nat \ {0}
  BY TrialsAssumption DEF Caps
<1>3. Ordered(Clean(WolfMatrix(c), excluded), Width(c))
  BY <1>1, TablesMade
<1>4. ASSUME NEW cap \in Caps
      PROVE  Ordered(Clean(CompareMatrix(c, cap), excluded), CappedWidth(c, cap))
  <2>1. cap \in Nat \ {0}
    BY <1>2
  <2>. QED
    BY <1>1, <2>1, TablesMade
<1>. QED
  BY <1>3, <1>4

-----------------------------------------------------------------------------
(* The cost                                                                  *)

\* What a trial used is counted in numbers, and what it costs where only the
\* reads are known is not above what it costs where the split is.
LEMMA CostOfOne ==
  ASSUME NEW u \in Usages
  PROVE  /\ Input(u) \in Nat /\ u.read \in Nat /\ u.read <= Input(u)
         /\ ExactCost(u) \in Nat /\ PlainCost(u) \in Nat /\ PlainCost(u) <= ExactCost(u)
<1>1. u.uncached \in Nat /\ u.write \in Nat /\ u.read \in Nat /\ u.out \in Nat
  BY DEF Usages
<1>2. Input(u) - u.read = u.uncached + u.write
  BY <1>1 DEF Input
<1>3. /\ ExactCost(u) = u.uncached * 300 + u.write * 375 + u.read * 30 + u.out * 1500
      /\ PlainCost(u) = (u.uncached + u.write) * 300 + u.read * 30 + u.out * 1500
  BY <1>2 DEF ExactCost, PlainCost, PriceIn, PriceOut, PriceCacheRead, PriceCacheWrite
<1>. QED
  BY <1>1, <1>3 DEF Input

\* What a comparison reports of cost and cache is honest.
LEMMA CostNow == TrialsTyped => CostHonest
<1>. SUFFICES ASSUME TrialsTyped, NEW c \in Configs
              PROVE  LET report == CostAndTokens(c)
                         true   == SumFunction([i \in Finished(c) |-> ExactCost(Usage(i))])
                     IN  /\ report.cost <= true
                         /\ report.lowerBound \/ report.cost = true
                         /\ CacheStats(c).read <= report.read /\ report.read <= report.input
                         /\ CacheStats(c).with = Cardinality(Finished(c)) =>
                              CacheStats(c).input = report.input /\ CacheStats(c).read = report.read
  BY DEF CostHonest
<1>. DEFINE all == Finished(c)
            split == WithSummary(c, {"split"})
            any == WithSummary(c, {"old", "split"})
            plain == all \ split
            Exact(s) == [i \in s |-> ExactCost(Usage(i))]
            Plain(s) == [i \in s |-> PlainCost(Usage(i))]
            Read(s) == [i \in s |-> Usage(i).read]
            In(s) == [i \in s |-> Input(Usage(i))]
            Sum(f, s) == SumFunctionOnSet(f, s)
            best == [i \in all |-> IF i \in split THEN ExactCost(Usage(i)) ELSE PlainCost(Usage(i))]
<1>1. /\ IsFiniteSet(all) /\ IsFiniteSet(split) /\ IsFiniteSet(plain) /\ IsFiniteSet(any)
      /\ split \subseteq any /\ any \subseteq all /\ all = split \cup plain /\ split \cap plain = {}
  <2>1. split \subseteq any /\ any \subseteq all
    BY DEF WithSummary
  <2>2. IsFiniteSet(all)
    BY FinishedTrials
  <2>. QED
    BY <2>1, <2>2, FS_Subset
<1>2. \A i \in all : /\ Input(Usage(i)) \in Nat /\ Usage(i).read \in Nat
                     /\ Usage(i).read <= Input(Usage(i))
                     /\ ExactCost(Usage(i)) \in Nat /\ PlainCost(Usage(i)) \in Nat
                     /\ PlainCost(Usage(i)) <= ExactCost(Usage(i))
  <2>1. \A i \in all : Usage(i) \in Usages
    BY FinishedTrials, ResultsAssumption DEF Usage
  <2>. QED
    BY <2>1, CostOfOne
<1>3. /\ CostAndTokens(c).input = Sum(In(all), all) /\ CostAndTokens(c).read = Sum(Read(all), all)
      /\ CostAndTokens(c).cost = Sum(Exact(split), split) + Sum(Plain(plain), plain)
      /\ CostAndTokens(c).lowerBound = (plain # {})
      /\ CacheStats(c).input = Sum(In(any), any) /\ CacheStats(c).read = Sum(Read(split), split)
      /\ CacheStats(c).with = Cardinality(split)
      /\ SumFunction([i \in all |-> ExactCost(Usage(i))]) = Sum(Exact(all), all)
  BY DEF CostAndTokens, CacheStats, SumFunction
<1>. HIDE DEF split, any
<1>4. CostAndTokens(c).cost = Sum(best, all)
  <2>1. Sum(Exact(split), split) = Sum(best, split)
    <3>1. \A i \in split : Exact(split)[i] \in Nat /\ Exact(split)[i] = best[i]
      BY <1>1, <1>2
    <3>. HIDE DEF best, Exact
    <3>. QED
      BY <1>1, <3>1, SumSame
  <2>2. Sum(Plain(plain), plain) = Sum(best, plain)
    <3>1. \A i \in plain : Plain(plain)[i] \in Nat /\ Plain(plain)[i] = best[i]
      BY <1>1, <1>2
    <3>. HIDE DEF best, Plain, plain
    <3>. QED
      BY <1>1, <3>1, SumSame
  <2>3. \A i \in split \cup plain : best[i] \in Nat
    BY <1>1, <1>2
  <2>4. Sum(best, split \cup plain) = Sum(best, split) + Sum(best, plain)
    <3>. HIDE DEF best, plain
    <3>. QED
      BY <1>1, <2>3, SumSplit
  <2>. HIDE DEF best, plain, Exact, Plain, Sum
  <2>. QED
    BY <1>1, <1>3, <2>1, <2>2, <2>4
<1>5. CostAndTokens(c).cost <= Sum(Exact(all), all)
  <2>1. \A i \in all : best[i] \in Nat /\ Exact(all)[i] \in Nat /\ best[i] <= Exact(all)[i]
    BY <1>2
  <2>2. Sum(best, all) <= Sum(Exact(all), all)
    <3>. HIDE DEF best, Exact, all
    <3>. QED
      BY <1>1, <2>1, SumBelow
  <2>. HIDE DEF best, Exact, Sum
  <2>. QED
    BY <1>4, <2>2
<1>6. plain = {} => CostAndTokens(c).cost = Sum(Exact(all), all)
  <2>. SUFFICES ASSUME plain = {}  PROVE CostAndTokens(c).cost = Sum(Exact(all), all)
    OBVIOUS
  <2>1. \A i \in all : best[i] \in Nat /\ best[i] = Exact(all)[i]
    BY <1>1, <1>2
  <2>2. Sum(best, all) = Sum(Exact(all), all)
    <3>. HIDE DEF best, Exact, all
    <3>. QED
      BY <1>1, <2>1, SumSame
  <2>. HIDE DEF best, Exact, Sum
  <2>. QED
    BY <1>4, <2>2
<1>7. Sum(Read(all), all) <= Sum(In(all), all)
  <2>1. \A i \in all : Read(all)[i] \in Nat /\ In(all)[i] \in Nat /\ Read(all)[i] <= In(all)[i]
    BY <1>2
  <2>. HIDE DEF Read, In, all
  <2>. QED
    BY <1>1, <2>1, SumBelow
<1>8. Sum(Read(split), split) <= Sum(Read(all), all)
  <2>1. \A i \in split \cup plain : Read(all)[i] \in Nat
    BY <1>1, <1>2
  <2>2. Sum(Read(all), split \cup plain) = Sum(Read(all), split) + Sum(Read(all), plain)
    <3>. HIDE DEF Read, all
    <3>. QED
      BY <1>1, <2>1, SumSplit
  <2>3. Sum(Read(all), split) \in Nat /\ Sum(Read(all), plain) \in Nat
    <3>. HIDE DEF Read, plain
    <3>. QED
      BY <1>1, <2>1, SumType
  <2>4. Sum(Read(split), split) = Sum(Read(all), split)
    <3>1. \A i \in split : Read(split)[i] \in Nat /\ Read(split)[i] = Read(all)[i]
      BY <1>1, <1>2
    <3>. HIDE DEF Read, all
    <3>. QED
      BY <1>1, <3>1, SumSame
  <2>. HIDE DEF Read, all, plain, Sum
  <2>. QED
    BY <1>1, <2>2, <2>3, <2>4
<1>9. Cardinality(split) = Cardinality(all) => split = all /\ any = all
  BY <1>1, FS_Subset
<1>. HIDE DEF Sum, Read, In, Exact, plain, all
<1>. QED
  BY <1>3, <1>5, <1>6, <1>7, <1>8, <1>9 DEF all

-----------------------------------------------------------------------------
(* The artifacts                                                             *)

\* A row of the compared table, as its labels and its flakiness see it.
LEMMA RowLabels ==
  ASSUME TrialsTyped, NEW c, NEW cap \in Nat \ {0}, NEW t \in TasksOf(c)
  PROVE  Flaky(CompareMatrix(c, cap)[t]) <=>
           Ever(CompareMatrix(c, cap)[t]) /\ ~Always(CompareMatrix(c, cap)[t])
<1>. DEFINE w == CappedWidth(c, cap)
            cells == CompareMatrix(c, cap)[t]
            n == Cardinality(Passes(cells))
            cell(k) == k \in 1..Keep(c, t, cap) /\ Passed(Capped(c, t, cap)[k])
<1>1. w \in Nat
  BY CappedIs
<1>2. cells = [k \in 1..w |-> cell(k)]
  BY CompareCells
<1>. HIDE DEF cells, cell, w
<1>3. DOMAIN cells = 1..w /\ Len(cells) = w
  BY <1>1, <1>2
<1>4. IsFiniteSet(1..w) /\ Cardinality(1..w) = w
  BY <1>1, UpToCount
<1>5. Passes(cells) \in SUBSET (1..w)
  BY <1>3 DEF Passes
<1>6. IsFiniteSet(Passes(cells)) /\ n <= w /\ (n = w => Passes(cells) = 1..w)
  BY <1>4, <1>5, FS_Subset
<1>7. n \in Nat /\ (n = 0 <=> Passes(cells) = {})
  BY <1>6, FS_CardinalityType, FS_EmptySet
<1>8. Passes(cells) = 1..w => n = w
  BY <1>4
<1>. HIDE DEF n
<1>9. n \in 1..(w - 1) <=> Passes(cells) # {} /\ Passes(cells) # 1..w
  BY <1>1, <1>6, <1>7, <1>8
<1>. QED
  BY <1>3, <1>9 DEF Flaky, Ever, Always, cells, n

\* A cell that is True is a finished trial that passed, each its own; and every
\* one of those has its cell where no trial was dropped.
LEMMA CellsAreTrials ==
  ASSUME TrialsTyped, NEW c, NEW cap \in Nat \ {0}
  PROVE  LET cells  == PassedCells(CompareMatrix(c, cap), CappedWidth(c, cap))
             solved == {i \in Finished(c) : Passed(i)}
         IN  /\ Cardinality(cells) <= Cardinality(solved)
             /\ cap >= Width(c) => Cardinality(cells) = Cardinality(solved)
<1>. DEFINE matrix == CompareMatrix(c, cap)
            w == CappedWidth(c, cap)
            cells == PassedCells(matrix, w)
            solved == {i \in Finished(c) : Passed(i)}
            at(t, k) == Capped(c, t, cap)[k]
            trialOf == [cell \in cells |-> at(cell[1], cell[2])]
            kept(t) == 1..Keep(c, t, cap)
<1>1. \A t, k : <<t, k>> \in cells <=>
         t \in TasksOf(c) /\ k \in 1..w /\ k \in kept(t) /\ Passed(at(t, k))
  <2>. DEFINE passes(t, k) == k \in kept(t) /\ Passed(at(t, k))
  <2>1. DOMAIN matrix = TasksOf(c) /\ \A t \in TasksOf(c) : matrix[t] = [k \in 1..w |-> passes(t, k)]
    BY CompareCells
  <2>. HIDE DEF passes, matrix, w
  <2>2. \A t \in TasksOf(c), k \in 1..w : matrix[t][k] = passes(t, k)
    BY <2>1
  <2>3. \A t, k : <<t, k>> \in cells <=> t \in TasksOf(c) /\ k \in 1..w /\ matrix[t][k]
    BY <2>1 DEF PassedCells
  <2>. HIDE DEF cells
  <2>4. \A t, k : <<t, k>> \in cells <=> t \in TasksOf(c) /\ k \in 1..w /\ passes(t, k)
    BY <2>2, <2>3
  <2>. QED
    BY <2>4 DEF passes
<1>2. \A cell \in cells : cell = <<cell[1], cell[2]>>
  BY DEF PassedCells
<1>3. \A t \in TasksOf(c) : \A k \in kept(t) :
        /\ at(t, k) \in TrialsOf(c, t) /\ at(t, k) \in Finished(c)
        /\ trials[at(t, k)].task = t
        /\ k \in Nat /\ Rank(at(t, k), TrialsOf(c, t)) = k - 1
  <2>. SUFFICES ASSUME NEW t \in TasksOf(c), NEW k \in kept(t)
                PROVE  /\ at(t, k) \in TrialsOf(c, t) /\ at(t, k) \in Finished(c)
                       /\ trials[at(t, k)].task = t
                       /\ k \in Nat /\ Rank(at(t, k), TrialsOf(c, t)) = k - 1
    OBVIOUS
  <2>. QED
    BY CappedAt
<1>4. IsFiniteSet(solved)
  BY FinishedTrials, FS_Subset
<1>. HIDE DEF matrix, w, cells, at, kept
<1>5. trialOf \in Injection(cells, solved)
  <2>1. \A cell \in cells : trialOf[cell] \in solved
    BY <1>1, <1>2, <1>3
  <2>2. ASSUME NEW a \in cells, NEW b \in cells, trialOf[a] = trialOf[b]  PROVE a = b
    <3>1. at(a[1], a[2]) = at(b[1], b[2])
      BY <2>2
    <3>2. /\ a = <<a[1], a[2]>> /\ b = <<b[1], b[2]>>
          /\ a[1] \in TasksOf(c) /\ a[2] \in kept(a[1])
          /\ b[1] \in TasksOf(c) /\ b[2] \in kept(b[1])
      BY <1>1, <1>2
    <3>3. a[1] = b[1]
      BY <1>3, <3>1, <3>2
    <3>4. a[2] - 1 = b[2] - 1 /\ a[2] \in Nat /\ b[2] \in Nat
      BY <1>3, <3>1, <3>2, <3>3
    <3>. QED
      BY <3>2, <3>3, <3>4
  <2>. QED
    BY <2>1, <2>2 DEF Injection, IsInjective
<1>6. Cardinality(cells) <= Cardinality(solved)
  <2>. HIDE DEF trialOf, solved
  <2>. QED
    BY <1>4, <1>5, FS_Injection
<1>7. ASSUME cap >= Width(c)  PROVE Cardinality(cells) = Cardinality(solved)
  <2>1. ASSUME NEW i \in solved  PROVE \E cell \in cells : trialOf[cell] = i
    <3>. DEFINE t == trials[i].task
                k == Rank(i, TrialsOf(c, t)) + 1
    <3>1. t \in TasksOf(c) /\ i \in TrialsOf(c, t)
      BY FinishedTrials DEF TrialsOf
    <3>2. k \in 1..Len(Rows(c, t)) /\ Rows(c, t)[k] = i
      BY <3>1, RowsAre
    <3>. HIDE DEF t, k
    <3>3. Len(Rows(c, t)) \in 1..Width(c) /\ Width(c) \in Nat
      BY <3>1, WidthIs
    <3>4. Keep(c, t, cap) = Len(Rows(c, t)) /\ Keep(c, t, cap) \in 1..w /\ w \in Nat
      <4>1. Keep(c, t, cap) \in 1..w /\ w \in Nat
        BY <3>1, CappedIs DEF w
      <4>2. Keep(c, t, cap) = Len(Rows(c, t))
        BY <1>7, <3>3 DEF Keep
      <4>. QED
        BY <4>1, <4>2
    <3>5. k \in 1..Keep(c, t, cap) /\ k \in 1..w
      BY <3>2, <3>3, <3>4
    <3>6. k \in kept(t)
      BY <3>5 DEF kept
    <3>7. at(t, k) = i
      BY <3>1, <3>2, <3>5, CappedRow DEF at
    <3>8. <<t, k>> \in cells
      BY <1>1, <3>1, <3>5, <3>6, <3>7
    <3>. QED
      BY <3>7, <3>8
  <2>2. trialOf \in Surjection(cells, solved)
    BY <1>5, <2>1 DEF Surjection, Injection
  <2>. HIDE DEF trialOf, solved
  <2>. QED
    BY <1>4, <1>5, <2>2, FS_Injection
<1>. QED
  BY <1>6, <1>7 DEF matrix, w, cells

\* The labels, the diff and the money agree with the table.
LEMMA ArtifactsNow == TrialsTyped => ArtifactsAgree
<1>. SUFFICES ASSUME TrialsTyped, NEW c \in Configs, NEW d \in Configs, NEW cap \in Caps
              PROVE  LET left  == CompareMatrix(c, cap)
                         right == CompareMatrix(d, cap)
                         five  == FiveNumbers(left, CappedWidth(c, cap))
                         labelled(names) == {t \in DOMAIN left : Label(left[t]) \in names}
                     IN  /\ Cardinality(labelled({"always"})) = five.solid
                         /\ labelled({"sometimes"}) = {t \in Tasks : Flaky(Cells(left, t))}
                         /\ five.ceiling = Cardinality({t \in DOMAIN left \cup DOMAIN right :
                                Category(Cells(left, t), Cells(right, t)) \in {"left_only", "both"}})
                         /\ five.total <= CostAndTokens(c).solved
                         /\ cap >= Width(c) => five.total = CostAndTokens(c).solved
  BY DEF ArtifactsAgree
<1>. DEFINE left == CompareMatrix(c, cap)
            right == CompareMatrix(d, cap)
            five == FiveNumbers(left, CappedWidth(c, cap))
            labelled(names) == {t \in DOMAIN left : Label(left[t]) \in names}
            ours == {t \in DOMAIN left \cup DOMAIN right :
                       Category(Cells(left, t), Cells(right, t)) \in {"left_only", "both"}}
<1>1. cap \in Nat \ {0}
  BY TrialsAssumption DEF Caps
<1>2. DOMAIN left = TasksOf(c) /\ DOMAIN left \subseteq Tasks
  BY <1>1, CompareCells, FinishedTrials
<1>3. \A t \in DOMAIN left : Flaky(left[t]) <=> Ever(left[t]) /\ ~Always(left[t])
  BY <1>1, <1>2, RowLabels
<1>4. /\ five.solid = Cardinality({t \in DOMAIN left : Always(left[t])})
      /\ five.ceiling = Cardinality({t \in DOMAIN left : Ever(left[t])})
      /\ five.total = Cardinality(PassedCells(left, CappedWidth(c, cap)))
  BY DEF FiveNumbers
<1>5. CostAndTokens(c).solved = Cardinality({i \in Finished(c) : Passed(i)})
  BY DEF CostAndTokens
<1>6. /\ five.total <= CostAndTokens(c).solved
      /\ cap >= Width(c) => five.total = CostAndTokens(c).solved
  BY <1>1, <1>4, <1>5, CellsAreTrials
<1>7. ~Flaky(<<>>) /\ ~Ever(<<>>)
  <2>1. Len(<<>>) = 0 /\ DOMAIN <<>> = {}
    OBVIOUS
  <2>. QED
    BY <2>1 DEF Flaky, Ever, Passes
<1>. HIDE DEF left, right, five
<1>8. labelled({"always"}) = {t \in DOMAIN left : Always(left[t])}
  BY DEF Label
<1>9. labelled({"sometimes"}) = {t \in Tasks : Flaky(Cells(left, t))}
  <2>1. \A t \in DOMAIN left : Label(left[t]) = "sometimes" <=> Flaky(Cells(left, t))
    BY <1>3 DEF Label, Cells
  <2>2. \A t : t \notin DOMAIN left => ~Flaky(Cells(left, t))
    BY <1>7 DEF Cells
  <2>. QED
    BY <1>2, <2>1, <2>2
<1>10. ours = {t \in DOMAIN left : Ever(left[t])}
  <2>1. \A t : Ever(Cells(left, t)) <=> t \in DOMAIN left /\ Ever(left[t])
    BY <1>7 DEF Cells
  <2>2. \A x, y : Category(x, y) \in {"left_only", "both"} <=> Ever(x)
    <3>. SUFFICES ASSUME NEW x, NEW y  PROVE Category(x, y) \in {"left_only", "both"} <=> Ever(x)
      OBVIOUS
    <3>. QED
      BY DEF Category
  <2>. QED
    BY <2>1, <2>2
<1>. QED
  BY <1>4, <1>6, <1>8, <1>9, <1>10 DEF left, right, five

-----------------------------------------------------------------------------
(* A trial too many                                                          *)

\* A row of the compared table.
KeptCells(c, t, cap) ==
    [k \in 1..CappedWidth(c, cap) |-> k \in 1..Keep(c, t, cap) /\ Passed(Rows(c, t)[k])]

\* What is read of the trials in any state, in one formula: the lemmas above
\* without their parameters, so that it can be said of the next state too.
ReadOff ==
    \A c : /\ \A t : LET own == TrialsOf(c, t)
                     IN  /\ IsFiniteSet(own) /\ own \in SUBSET Nat
                         /\ Len(Rows(c, t)) = Cardinality(own) /\ Len(Rows(c, t)) \in Nat
                         /\ \A k \in 1..Len(Rows(c, t)) :
                              Rows(c, t)[k] \in own /\ Rank(Rows(c, t)[k], own) = k - 1
                         /\ \A j \in own : Rows(c, t)[Rank(j, own) + 1] = j
           /\ Width(c) \in Nat
           /\ \A t \in TasksOf(c) : Len(Rows(c, t)) \in 1..Width(c)
           /\ \A cap \in Nat \ {0} :
                CompareMatrix(c, cap) = [t \in TasksOf(c) |-> KeptCells(c, t, cap)]

\* It is so read of trials that have their types.
LEMMA ReadNow == TrialsTyped => ReadOff
<1>. SUFFICES ASSUME TrialsTyped  PROVE ReadOff
  OBVIOUS
<1>1. ASSUME NEW c, NEW t
      PROVE  LET own == TrialsOf(c, t)
             IN  /\ IsFiniteSet(own) /\ own \in SUBSET Nat
                 /\ Len(Rows(c, t)) = Cardinality(own) /\ Len(Rows(c, t)) \in Nat
                 /\ \A k \in 1..Len(Rows(c, t)) :
                      Rows(c, t)[k] \in own /\ Rank(Rows(c, t)[k], own) = k - 1
                 /\ \A j \in own : Rows(c, t)[Rank(j, own) + 1] = j
  <2>. DEFINE own == TrialsOf(c, t)
              rows == Rows(c, t)
              n == Len(rows)
  <2>1. /\ IsFiniteSet(own) /\ own \in SUBSET Nat /\ n = Cardinality(own) /\ n \in Nat
        /\ rows \in [1..n -> own]
        /\ \A k \in 1..n : Rank(rows[k], own) = k - 1
        /\ \A j \in own : rows[Rank(j, own) + 1] = j
    BY RowsAre
  <2>. HIDE DEF own, rows, n
  <2>2. \A k \in 1..n : rows[k] \in own
    BY <2>1
  <2>. QED
    BY <2>1, <2>2 DEF own, rows, n
<1>2. ASSUME NEW c
      PROVE  Width(c) \in Nat /\ \A t \in TasksOf(c) : Len(Rows(c, t)) \in 1..Width(c)
  BY WidthIs
<1>3. ASSUME NEW c, NEW cap \in Nat \ {0}
      PROVE  CompareMatrix(c, cap) = [t \in TasksOf(c) |-> KeptCells(c, t, cap)]
  <2>1. CompareMatrix(c, cap) = [t \in TasksOf(c) |-> CompareMatrix(c, cap)[t]]
    BY DEF CompareMatrix
  <2>2. ASSUME NEW t \in TasksOf(c)  PROVE CompareMatrix(c, cap)[t] = KeptCells(c, t, cap)
    <3>. DEFINE cell(k) == k \in 1..Keep(c, t, cap) /\ Passed(Capped(c, t, cap)[k])
                ours(k) == k \in 1..Keep(c, t, cap) /\ Passed(Rows(c, t)[k])
    <3>1. CompareMatrix(c, cap)[t] = [k \in 1..CappedWidth(c, cap) |-> cell(k)]
      BY CompareCells
    <3>2. \A k : cell(k) = ours(k)
      <4>1. \A k \in 1..Keep(c, t, cap) : Capped(c, t, cap)[k] = Rows(c, t)[k]
        BY CappedRow
      <4>. QED
        BY <4>1
    <3>3. KeptCells(c, t, cap) = [k \in 1..CappedWidth(c, cap) |-> ours(k)]
      BY DEF KeptCells
    <3>. HIDE DEF cell, ours
    <3>. QED
      BY <3>1, <3>2, <3>3
  <2>. QED
    BY <2>1, <2>2
<1>. QED
  BY <1>1, <1>2, <1>3 DEF ReadOff

\* A trial that ends after `cap' of its task's, and began after them all,
\* leaves the table of its config as it was.
LEMMA ExtraStep ==
  ASSUME TrialsTyped, TrialsTyped', MetricsNext, NEW i \in DOMAIN trials, NEW cap \in Caps,
         NEW c, c = trials[i].config, NEW t0, t0 = trials[i].task,
         NEW own, own = TrialsOf(c, t0),
         trials'[i] # trials[i], trials'[i].result.stamped,
         Cardinality({j \in own : j < i}) >= cap
  PROVE  CompareMatrix(c, cap)' = CompareMatrix(c, cap)
<1>. DEFINE earlier == {j \in own : j < i}
<1>1. ReadOff /\ ReadOff'
  <2>1. (TrialsTyped => ReadOff)'
    BY ReadNow, PTL
  <2>. QED
    BY <2>1, ReadNow
<1>2. cap \in Nat \ {0}
  BY TrialsAssumption DEF Caps
\* The step
<1>3. PICK r \in Results : /\ trials' = [trials EXCEPT ![i].result = r]
                           /\ trials[i].result = Pending /\ r # Pending
  <2>1. ASSUME NEW d \in Configs, NEW t \in Tasks, StartTrial(d, t)  PROVE FALSE
    BY <2>1 DEF StartTrial, TrialsTyped
  <2>2. ASSUME NEW j \in DOMAIN trials, NEW r \in Results, EndTrial(j, r)
        PROVE  /\ trials' = [trials EXCEPT ![i].result = r]
               /\ trials[i].result = Pending /\ r # Pending
    <3>1. trials' = [trials EXCEPT ![j].result = r] /\ trials[j].result = Pending
      BY <2>2 DEF EndTrial
    <3>2. j = i
      BY <3>1 DEF TrialsTyped
    <3>3. r # Pending
      <4>. SUFFICES ASSUME r = Pending  PROVE FALSE
        OBVIOUS
      <4>1. trials'[i] = [trials[i] EXCEPT !.result = r] /\ trials[i] \in Trial
        BY <3>1, <3>2 DEF TrialsTyped
      <4>2. [trials[i] EXCEPT !.result = trials[i].result] = trials[i]
        BY <4>1 DEF Trial
      <4>. QED
        BY <3>1, <3>2, <4>1, <4>2
    <3>. QED
      BY <3>1, <3>2, <3>3
  <2>. QED
    BY <2>1, <2>2 DEF MetricsNext
<1>4. /\ DOMAIN trials' = DOMAIN trials /\ DOMAIN trials \subseteq Nat \ {0}
      /\ \A j \in DOMAIN trials : /\ trials'[j].config = trials[j].config
                                  /\ trials'[j].task = trials[j].task
                                  /\ j # i => trials'[j].result = trials[j].result
      /\ trials'[i].result = r
  <2>1. /\ DOMAIN trials' = DOMAIN trials
        /\ \A j \in DOMAIN trials : trials[j] \in Trial
        /\ \A j \in DOMAIN trials : j # i => trials'[j] = trials[j]
        /\ trials'[i] = [trials[i] EXCEPT !.result = r]
        /\ DOMAIN trials \subseteq Nat \ {0}
    BY <1>3 DEF TrialsTyped
  <2>. QED
    BY <2>1 DEF Trial
\* What is read changes for one task only, and only by that trial
<1>5. Finished(c)' = Finished(c) \cup {i} /\ i \notin Finished(c) /\ Finished(c) \subseteq DOMAIN trials
  BY <1>3, <1>4 DEF Finished, Result
<1>6. TrialsOf(c, t0)' = own \cup {i} /\ i \notin own /\ own \subseteq DOMAIN trials
  BY <1>4, <1>5 DEF TrialsOf
<1>7. \A t : t # t0 => TrialsOf(c, t)' = TrialsOf(c, t) /\ i \notin TrialsOf(c, t)
  BY <1>4, <1>5 DEF TrialsOf
<1>8. Result(i)' = r /\ \A j \in DOMAIN trials : j # i => Result(j)' = Result(j)
  BY <1>4 DEF Result
<1>9. ASSUME NEW j \in DOMAIN trials, NEW k \in DOMAIN trials, j # i, k # i
      PROVE  Before(j, k)' <=> Before(j, k)
  BY <1>8, <1>9 DEF Before
<1>10. ASSUME NEW j \in DOMAIN trials, j # i  PROVE Passed(j)' <=> Passed(j)
  BY <1>8, <1>10 DEF Passed, Scored
\* The trials before the new one stand before it, with their ranks
<1>11. cap <= Cardinality(earlier) /\ IsFiniteSet(own) /\ own \in SUBSET Nat
       /\ Cardinality(own) \in Nat /\ Cardinality(earlier) \in Nat
       /\ Cardinality(earlier) <= Cardinality(own)
  <2>1. IsFiniteSet(own) /\ own \in SUBSET Nat
    BY <1>1 DEF ReadOff
  <2>2. Cardinality(own) \in Nat
    BY <2>1, FS_CardinalityType
  <2>3. IsFiniteSet(earlier) /\ Cardinality(earlier) <= Cardinality(own)
    BY <2>1, FS_Subset
  <2>4. Cardinality(earlier) \in Nat
    BY <2>3, FS_CardinalityType
  <2>5. cap <= Cardinality(earlier)
    BY <1>2, <2>4
  <2>. QED
    BY <2>1, <2>2, <2>3, <2>4, <2>5
<1>12. ASSUME NEW j \in own, Rank(j, own) < cap
       PROVE  Rank(j, TrialsOf(c, t0))' = Rank(j, own)
  <2>. DEFINE before == {k \in own : Before(k, j)}
  <2>1. ~Before(i, j)'
    <3>. SUFFICES ASSUME Before(i, j)'  PROVE FALSE
      OBVIOUS
    <3>1. j \in DOMAIN trials /\ j # i /\ j \in Nat /\ i \in Nat \ {0}
      BY <1>4, <1>6
    <3>2. IF Result(j).stamped THEN i <= j ELSE FALSE
      <4>1. Result(i)'.stamped /\ Result(j)' = Result(j)
        BY <1>4, <1>8, <3>1
      <4>. DEFINE p == IF Result(i)'.stamped THEN i ELSE 0
                  q == IF Result(j)'.stamped THEN j ELSE 0
      <4>2. p < q \/ (p = q /\ i < j)
        BY DEF Before
      <4>3. p = i /\ q = IF Result(j).stamped THEN j ELSE 0
        BY <4>1
      <4>. HIDE DEF p, q
      <4>. QED
        BY <3>1, <4>2, <4>3
    <3>3. \A k \in earlier : Before(k, j)
      BY <1>4, <1>6, <3>1, <3>2 DEF Before
    <3>4. earlier \in SUBSET before /\ IsFiniteSet(before)
      BY <1>11, <3>3, FS_Subset
    <3>5. Cardinality(earlier) <= Cardinality(before) /\ Cardinality(before) \in Nat
      BY <3>4, FS_Subset, FS_CardinalityType
    <3>6. Rank(j, own) = Cardinality(before)
      BY DEF Rank
    <3>. HIDE DEF earlier, before
    <3>. QED
      BY <1>2, <1>11, <1>12, <3>5, <3>6
  <2>2. Rank(j, TrialsOf(c, t0))' = Cardinality({k \in own \cup {i} : Before(k, j)'})
    BY <1>6 DEF Rank
  <2>3. {k \in own \cup {i} : Before(k, j)'} = before
    BY <1>6, <1>9, <2>1
  <2>4. Rank(j, own) = Cardinality(before)
    BY DEF Rank
  <2>. HIDE DEF before
  <2>. QED
    BY <2>2, <2>3, <2>4
\* So every task keeps its row, as far as the cap
<1>13. ASSUME NEW t \in TasksOf(c)
       PROVE  /\ Keep(c, t, cap)' = Keep(c, t, cap)
              /\ \A k \in 1..Keep(c, t, cap) : /\ Rows(c, t)'[k] = Rows(c, t)[k]
                                               /\ Rows(c, t)[k] \in DOMAIN trials
                                               /\ Rows(c, t)[k] # i
  <2>. DEFINE rows == Rows(c, t)
              n == Len(rows)
              mine == TrialsOf(c, t)
  <2>1. /\ n = Cardinality(mine) /\ n \in Nat
        /\ \A k \in 1..n : rows[k] \in mine /\ Rank(rows[k], mine) = k - 1
        /\ mine \subseteq DOMAIN trials /\ i \notin mine
    <3>1. mine \subseteq DOMAIN trials /\ i \notin mine
      BY <1>5 DEF TrialsOf
    <3>. QED
      BY <1>1, <3>1 DEF ReadOff
  <2>2. /\ n' = Cardinality(mine') /\ n' \in Nat
        /\ \A j \in mine' : rows'[Rank(j, mine)' + 1] = j
    BY <1>1 DEF ReadOff
  <2>3. \A j \in mine : j \in mine' /\ (Rank(j, mine) < cap => Rank(j, mine)' = Rank(j, mine))
    <3>1. CASE t = t0
      BY <1>6, <1>12, <3>1
    <3>2. CASE t # t0
      <4>1. mine' = mine
        BY <1>7, <3>2
      <4>2. ASSUME NEW j \in mine  PROVE Rank(j, mine)' = Rank(j, mine)
        <5>1. {k \in mine : Before(k, j)'} = {k \in mine : Before(k, j)}
          BY <1>9, <2>1
        <5>2. Rank(j, mine)' = Cardinality({k \in mine : Before(k, j)'})
          BY <4>1 DEF Rank
        <5>3. Rank(j, mine) = Cardinality({k \in mine : Before(k, j)})
          BY DEF Rank
        <5>. HIDE DEF mine
        <5>. QED
          BY <5>1, <5>2, <5>3
      <4>. HIDE DEF mine
      <4>. QED
        BY <4>1, <4>2
    <3>. QED
      BY <3>1, <3>2
  <2>4. Keep(c, t, cap)' = Keep(c, t, cap) /\ Keep(c, t, cap) \in Nat
        /\ Keep(c, t, cap) <= n /\ Keep(c, t, cap) <= cap
    <3>1. Keep(c, t, cap) = IF n <= cap THEN n ELSE cap
      BY DEF Keep
    <3>2. Keep(c, t, cap)' = IF n' <= cap THEN n' ELSE cap
      BY DEF Keep
    <3>3. n' = n \/ (n >= cap /\ n' >= cap)
      <4>1. CASE t = t0
        <5>1. n = Cardinality(own) /\ n' = Cardinality(own \cup {i})
          BY <1>6, <2>1, <2>2, <4>1
        <5>2. Cardinality(own \cup {i}) = Cardinality(own) + 1
          BY <1>6, <1>11, FS_AddElement
        <5>. HIDE DEF n, earlier
        <5>. QED
          BY <1>2, <1>11, <5>1, <5>2
      <4>2. CASE t # t0
        <5>1. mine' = mine
          BY <1>7, <4>2
        <5>. HIDE DEF n, mine
        <5>. QED
          BY <2>1, <2>2, <5>1
      <4>. QED
        BY <4>1, <4>2
    <3>. HIDE DEF n
    <3>. QED
      BY <1>2, <2>1, <2>2, <3>1, <3>2, <3>3
  <2>5. ASSUME NEW k \in 1..Keep(c, t, cap)
        PROVE  rows'[k] = rows[k] /\ rows[k] \in DOMAIN trials /\ rows[k] # i
    <3>1. k \in 1..n /\ k \in Nat /\ k - 1 < cap
      <4>. HIDE DEF n
      <4>. QED
        BY <1>2, <2>1, <2>4
    <3>2. PICK j \in mine : j = rows[k] /\ Rank(j, mine) = k - 1
      BY <2>1, <3>1
    <3>3. j \in mine' /\ Rank(j, mine)' = k - 1
      BY <2>3, <3>1, <3>2
    <3>4. rows'[(k - 1) + 1] = j
      BY <2>2, <3>3
    <3>5. (k - 1) + 1 = k
      BY <3>1
    <3>. HIDE DEF rows, mine
    <3>. QED
      BY <2>1, <3>2, <3>4, <3>5
  <2>. QED
    BY <2>4, <2>5, Zenon
\* The table is as wide, of as many tasks
<1>14. TasksOf(c)' = TasksOf(c) /\ t0 \in TasksOf(c)
  <2>1. earlier # {}
    <3>1. Cardinality({}) = 0
      BY FS_EmptySet
    <3>. HIDE DEF earlier
    <3>. QED
      BY <1>2, <1>11, <3>1
  <2>2. t0 \in TasksOf(c)
    BY <2>1 DEF TrialsOf, TasksOf
  <2>3. \A t : t \in TasksOf(c)' <=> \E j \in Finished(c)' : trials'[j].task = t
    BY DEF TasksOf
  <2>4. \A t : t \in TasksOf(c) <=> \E j \in Finished(c) : trials[j].task = t
    BY DEF TasksOf
  <2>5. ASSUME NEW t \in TasksOf(c)'  PROVE t \in TasksOf(c)
    <3>1. PICK j \in Finished(c)' : trials'[j].task = t
      BY <2>3
    <3>2. j \in Finished(c) \/ j = i
      BY <1>5
    <3>. QED
      BY <1>4, <1>5, <2>2, <2>4, <3>1, <3>2
  <2>6. ASSUME NEW t \in TasksOf(c)  PROVE t \in TasksOf(c)'
    <3>1. PICK j \in Finished(c) : trials[j].task = t
      BY <2>4
    <3>2. j \in Finished(c)' /\ trials'[j].task = t
      BY <1>4, <1>5, <3>1
    <3>. QED
      BY <2>3, <3>2
  <2>. QED
    BY <2>2, <2>5, <2>6
<1>15. CappedWidth(c, cap)' = CappedWidth(c, cap) /\ CappedWidth(c, cap) \in Nat
  <2>1. Width(c) \in Nat /\ Width(c)' \in Nat
    BY <1>1 DEF ReadOff
  <2>2. CappedWidth(c, cap) = IF Width(c) <= cap THEN Width(c) ELSE cap
    BY <1>2, <2>1, MinOfTwo DEF CappedWidth
  <2>3. CappedWidth(c, cap)' = IF Width(c)' <= cap THEN Width(c)' ELSE cap
    BY <1>2, <2>1, MinOfTwo DEF CappedWidth
  <2>4. Len(Rows(c, t0)) \in 1..Width(c) /\ Len(Rows(c, t0)) = Cardinality(own)
    BY <1>1, <1>14 DEF ReadOff
  <2>5. /\ Len(Rows(c, t0))' \in 1..Width(c)'
        /\ Len(Rows(c, t0))' = Cardinality(own \cup {i})
    <3>1. Len(Rows(c, t0))' = Cardinality(TrialsOf(c, t0)')
      BY <1>1 DEF ReadOff
    <3>2. t0 \in TasksOf(c)'
      BY <1>14
    <3>3. \A t \in TasksOf(c)' : Len(Rows(c, t))' \in 1..Width(c)'
      BY <1>1 DEF ReadOff
    <3>. QED
      BY <1>6, <3>1, <3>2, <3>3
  <2>6. Cardinality(own \cup {i}) = Cardinality(own) + 1
    BY <1>6, <1>11, FS_AddElement
  <2>7. Width(c) >= cap /\ Width(c)' >= cap
    <3>. HIDE DEF earlier
    <3>. QED
      BY <1>2, <1>11, <2>1, <2>4, <2>5, <2>6
  <2>. QED
    BY <1>2, <2>1, <2>2, <2>3, <2>7
<1>16. ASSUME NEW t \in TasksOf(c)  PROVE KeptCells(c, t, cap)' = KeptCells(c, t, cap)
  <2>. DEFINE w == CappedWidth(c, cap)
              old(k) == k \in 1..Keep(c, t, cap) /\ Passed(Rows(c, t)[k])
              new(k) == k \in 1..Keep(c, t, cap)' /\ Passed(Rows(c, t)[k])'
  <2>1. KeptCells(c, t, cap) = [k \in 1..w |-> old(k)]
    BY DEF KeptCells
  <2>2. KeptCells(c, t, cap)' = [k \in 1..w |-> new(k)]
    BY <1>15 DEF KeptCells
  <2>3. \A k : old(k) = new(k)
    BY <1>10, <1>13
  <2>. HIDE DEF w, old, new
  <2>. QED
    BY <2>1, <2>2, <2>3
<1>17. /\ CompareMatrix(c, cap) = [t \in TasksOf(c) |-> KeptCells(c, t, cap)]
       /\ CompareMatrix(c, cap)' = [t \in TasksOf(c)' |-> KeptCells(c, t, cap)']
  BY <1>1, <1>2 DEF ReadOff
<1>. QED
  BY <1>14, <1>16, <1>17

-----------------------------------------------------------------------------
(* The theorems                                                              *)

\* FiveOrdered, whatever the configs, the tasks, the results and the bounds: on
\* either script's table, under any cap, on the full and on every clean basis,
\* solid <= worst <= average <= best <= ceiling (DECISIONS.md item 11).
THEOREM OrderedCorrect == MetricsSpec => []FiveOrdered
  BY TrialsKeepTypes, OrderedNow, PTL

\* FailuresExplained: no cell of compare_runs.py fails silently.
THEOREM FailuresCorrect == MetricsSpec => []FailuresExplained
  BY TrialsKeepTypes, FailuresNow, PTL

\* ArtifactsAgree: what compare_runs.py says of a task is the same in the table,
\* the labels, the diff and the dollars per solve.
THEOREM ArtifactsCorrect == MetricsSpec => []ArtifactsAgree
  BY TrialsKeepTypes, ArtifactsNow, PTL

\* CostHonest: five_cost is a lower bound, and says so when it may not be exact.
THEOREM CostCorrect == MetricsSpec => []CostHonest
  BY TrialsKeepTypes, CostNow, PTL

\* ExtraTrialDropped: a trial above MAX_RUNS changes no cell of the table.
THEOREM ExtraTrialCorrect == MetricsSpec => ExtraTrialDropped
<1>1. ASSUME TrialsTyped, TrialsTyped', [MetricsNext]_trials
      PROVE  [\A i \in DOMAIN trials, cap \in Caps :
                LET c == trials[i].config
                    earlier == {j \in Finished(c) : trials[j].task = trials[i].task /\ j < i}
                IN  /\ trials'[i] # trials[i] /\ trials'[i].result.stamped
                    /\ Cardinality(earlier) >= cap
                    => CompareMatrix(c, cap)' = CompareMatrix(c, cap)]_trials
  <2>. SUFFICES ASSUME MetricsNext, NEW i \in DOMAIN trials, NEW cap \in Caps,
                       trials'[i] # trials[i], trials'[i].result.stamped,
                       Cardinality({j \in Finished(trials[i].config) :
                                      trials[j].task = trials[i].task /\ j < i}) >= cap
                PROVE  CompareMatrix(trials[i].config, cap)' = CompareMatrix(trials[i].config, cap)
    BY <1>1
  <2>1. PICK c, t0, own : c = trials[i].config /\ t0 = trials[i].task /\ own = TrialsOf(c, t0)
    OBVIOUS
  <2>2. {j \in Finished(trials[i].config) : trials[j].task = trials[i].task /\ j < i}
          = {j \in own : j < i}
    BY <2>1 DEF TrialsOf
  <2>3. CompareMatrix(c, cap)' = CompareMatrix(c, cap)
    BY <1>1, <2>1, <2>2, ExtraStep
  <2>4. trials'[i].config = c
    <3>1. CASE \E d \in Configs, t \in Tasks : StartTrial(d, t)
      BY <1>1, <2>1, <3>1 DEF StartTrial, TrialsTyped
    <3>2. ASSUME NEW j \in DOMAIN trials, NEW r \in Results, EndTrial(j, r)
          PROVE  trials'[i].config = c
      BY <1>1, <2>1, <3>2 DEF EndTrial, TrialsTyped, Trial
    <3>. QED
      BY <3>1, <3>2 DEF MetricsNext
  <2>. QED
    BY <2>1, <2>3, <2>4
<1>. QED
  BY <1>1, TrialsKeepTypes, PTL DEF MetricsSpec, ExtraTrialDropped
=============================================================================
