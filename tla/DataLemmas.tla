------------------------------ MODULE DataLemmas ------------------------------
(***************************************************************************)
(* Facts about numbers, recursive functions, sequences and sums that the   *)
(* proofs share.  Induction is stated for a set of numbers or of sets,     *)
(* never for an operator: a formula is proved of every number by taking    *)
(* the set of those it holds of.                                           *)
(***************************************************************************)
EXTENDS Integers, Sequences, FiniteSets, SequencesExt, FiniteSetTheorems,
        WellFoundedInduction, TLAPS

-----------------------------------------------------------------------------
(* Numbers                                                                   *)

\* A set of numbers with an element has a least one.
LEMMA LeastElement ==
    ASSUME NEW T \in SUBSET Nat, T # {}
    PROVE  \E m \in T : \A k \in T : m <= k
<1>1. PICK m \in T : \A k \in T : ~(<<k, m>> \in OpToRel(<, Nat))
  BY NatLessThanWellFounded, WFMin
<1>2. \A pair : pair \in OpToRel(<, Nat) <=> pair \in Nat \X Nat /\ pair[1] < pair[2]
  BY DEF OpToRel
<1>3. ASSUME NEW k \in T  PROVE m <= k
  <2>1. k \in Nat /\ m \in Nat
    OBVIOUS
  <2>2. ~(<<k, m>>[1] < <<k, m>>[2])
    BY <1>1, <1>2, <2>1
  <2>. QED
    BY <2>1, <2>2
<1>. QED
  BY <1>3

\* Induction up to n, for a set.
LEMMA Induction ==
    ASSUME NEW n \in Nat, NEW T, 0 \in T, \A k \in 0..(n - 1) : k \in T => k + 1 \in T
    PROVE  0..n \subseteq T
<1>. DEFINE Missing == 0..n \ T
<1>1. SUFFICES ASSUME Missing # {}  PROVE FALSE
  OBVIOUS
<1>2. Missing \in SUBSET Nat
  OBVIOUS
<1>3. PICK m \in Missing : \A k \in Missing : m <= k
  <2>. HIDE DEF Missing
  <2>. QED
    BY <1>1, <1>2, LeastElement
<1>4. m # 0 /\ m - 1 \in 0..(n - 1) /\ m - 1 \in 0..n
  BY <1>3
<1>5. m - 1 \in T
  BY <1>3, <1>4
<1>. QED
  BY <1>3, <1>4, <1>5

\* A bounded set of numbers with an element has a greatest one.
LEMMA GreatestElement ==
    ASSUME NEW n \in Nat, NEW T \in SUBSET (0..n), T # {}
    PROVE  \E m \in T : \A k \in T : k <= m
<1>. DEFINE Distances == {n - k : k \in T}
<1>1. Distances \in SUBSET Nat /\ Distances # {}
  <2>1. \A k \in T : n - k \in Nat
    OBVIOUS
  <2>. QED
    BY <2>1
<1>2. PICK d \in Distances : \A e \in Distances : d <= e
  <2>. HIDE DEF Distances
  <2>. QED
    BY <1>1, LeastElement
<1>3. PICK m \in T : d = n - m
  BY <1>2
<1>4. ASSUME NEW k \in T  PROVE k <= m
  <2>1. n - m <= n - k
    BY <1>2, <1>3
  <2>. QED
    BY <2>1
<1>. QED
  BY <1>4

\* The least number of a set is among its numbers.
LEMMA LeastOf ==
  ASSUME NEW T \in SUBSET Nat, T # {}
  PROVE  Min(T) \in T /\ \A k \in T : Min(T) <= k
<1>1. \E m \in T : \A k \in T : m <= k
  BY LeastElement
<1>. QED
  BY <1>1 DEF Min

\* And so is the greatest, if there is a bound.
LEMMA GreatestOf ==
  ASSUME NEW n \in Nat, NEW T \in SUBSET (0..n), T # {}
  PROVE  Max(T) \in T /\ \A k \in T : k <= Max(T)
<1>1. \E m \in T : \A k \in T : m >= k
  <2>1. \E m \in T : \A k \in T : k <= m
    BY GreatestElement
  <2>2. \A m, k \in T : k <= m => m >= k
    OBVIOUS
  <2>. QED
    BY <2>1, <2>2
<1>2. Max(T) \in T /\ \A k \in T : Max(T) >= k
  BY <1>1 DEF Max
<1>. QED
  BY <1>2

\* What starts in S at `first' and goes on by `step' exists, up to any n.
StaysIn(S, step, n) == \A k \in 1..n : \A x \in S : step[k][x] \in S
Run(f, first, step, n) == f[0] = first /\ \A k \in 1..n : f[k] = step[k][f[k - 1]]
RunIn(S, f, first, step, n) == f \in [0..n -> S] /\ Run(f, first, step, n)
LEMMA RecursionExists ==
    ASSUME NEW n \in Nat, NEW S, NEW first \in S, NEW step, StaysIn(S, step, n)
    PROVE  \E f : RunIn(S, f, first, step, n)
<1>. DEFINE T == {m \in 0..n : \E f \in [0..m -> S] : Run(f, first, step, m)}
<1>1. 0 \in T
  <2>. DEFINE f == [k \in 0..0 |-> first]
  <2>1. f \in [0..0 -> S] /\ f[0] = first
    OBVIOUS
  <2>. HIDE DEF f
  <2>2. Run(f, first, step, 0)
    BY <2>1 DEF Run
  <2>. QED
    BY <2>1, <2>2
<1>2. ASSUME NEW m \in 0..(n - 1), m \in T  PROVE m + 1 \in T
  <2>1. PICK f \in [0..m -> S] : Run(f, first, step, m)
    BY <1>2
  <2>. DEFINE g == [k \in 0..(m + 1) |-> IF k <= m THEN f[k] ELSE step[m + 1][f[m]]]
  <2>2. step[m + 1][f[m]] \in S
    BY m + 1 \in 1..n, m \in 0..m DEF StaysIn
  <2>3. g \in [0..(m + 1) -> S]
    BY <2>2
  <2>4. g[0] = first
    BY <2>1 DEF Run
  <2>5. ASSUME NEW k \in 1..(m + 1)  PROVE g[k] = step[k][g[k - 1]]
    <3>1. g[k - 1] = f[k - 1]
      OBVIOUS
    <3>2. CASE k <= m
      <4>1. k \in 1..m /\ g[k] = f[k]
        BY <3>2
      <4>. QED
        BY <2>1, <3>1, <4>1 DEF Run
    <3>3. CASE k = m + 1
      <4>1. k - 1 = m /\ g[k] = step[m + 1][f[m]]
        BY <3>3
      <4>. QED
        BY <3>1, <3>3, <4>1
    <3>. QED
      BY <3>2, <3>3
  <2>. HIDE DEF g
  <2>6. Run(g, first, step, m + 1)
    BY <2>4, <2>5 DEF Run
  <2>. QED
    BY <2>3, <2>6
<1>3. 0..n \subseteq T
  <2>. HIDE DEF T
  <2>. QED
    BY <1>1, <1>2, Induction
<1>. QED
  BY <1>3 DEF RunIn

-----------------------------------------------------------------------------
(* Sequences                                                                 *)

\* The only increasing sequence of all the numbers up to n counts them.
LEMMA IncreasingCounts ==
    ASSUME NEW n \in Nat, NEW s \in [1..n -> 1..n],
           \A i, j \in 1..n : i < j => s[i] < s[j]
    PROVE  \A k \in 1..n : s[k] = k
<1>. DEFINE Up == {k \in 0..n : k = 0 \/ s[k] >= k}
            Down == {k \in 0..n : k = n \/ s[n - k] <= n - k}
<1>1. 0..n \subseteq Up
  <2>1. 0 \in Up
    OBVIOUS
  <2>2. ASSUME NEW k \in 0..(n - 1), k \in Up  PROVE k + 1 \in Up
    <3>1. CASE k = 0
      BY <3>1
    <3>2. CASE k # 0
      <4>1. s[k] >= k /\ s[k] < s[k + 1] /\ s[k] \in Nat /\ s[k + 1] \in Nat
        BY <2>2, <3>2
      <4>. QED
        BY <4>1
    <3>. QED
      BY <3>1, <3>2
  <2>. HIDE DEF Up
  <2>. QED
    BY <2>1, <2>2, Induction
<1>2. 0..n \subseteq Down
  <2>1. 0 \in Down
    OBVIOUS
  <2>2. ASSUME NEW k \in 0..(n - 1), k \in Down  PROVE k + 1 \in Down
    <3>1. CASE k + 1 = n
      BY <3>1
    <3>2. CASE k + 1 # n
      <4>1. n - k \in 1..n /\ n - (k + 1) \in 1..n /\ n - (k + 1) < n - k
        BY <3>2
      <4>2. s[n - k] <= n - k /\ s[n - (k + 1)] < s[n - k]
        BY <2>2, <3>2, <4>1
      <4>3. s[n - k] \in Nat /\ s[n - (k + 1)] \in Nat
        BY <4>1
      <4>. QED
        BY <4>1, <4>2, <4>3
    <3>. QED
      BY <3>1, <3>2
  <2>. HIDE DEF Down
  <2>. QED
    BY <2>1, <2>2, Induction
<1>3. ASSUME NEW k \in 1..n  PROVE s[k] = k
  <2>1. k \in 0..n /\ n - k \in 0..n /\ n - k # n /\ k # 0 /\ n - (n - k) = k
    OBVIOUS
  <2>2. s[k] >= k
    BY <1>1, <2>1
  <2>3. s[n - (n - k)] <= n - (n - k)
    BY <1>2, <2>1
  <2>. QED
    BY <2>1, <2>2, <2>3
<1>. QED
  BY <1>3

\* Sums of numbers that are no less than zero only grow.
LEMMA SumsGrow ==
    ASSUME NEW n \in Nat, NEW sum \in [0..n -> Nat],
           \A k \in 1..n : sum[k - 1] <= sum[k]
    PROVE  \A i, j \in 0..n : i <= j => sum[i] <= sum[j]
<1>. SUFFICES ASSUME NEW i \in 0..n  PROVE \A j \in 0..n : i <= j => sum[i] <= sum[j]
  OBVIOUS
<1>. DEFINE T == {j \in 0..n : i <= j => sum[i] <= sum[j]}
<1>1. 0 \in T
  BY sum[0] <= sum[0]
<1>2. ASSUME NEW j \in 0..(n - 1), j \in T  PROVE j + 1 \in T
  <2>1. j \in 0..n /\ j + 1 \in 0..n /\ j + 1 \in 1..n /\ (j + 1) - 1 = j
    OBVIOUS
  <2>2. sum[j] <= sum[j + 1]
    BY <2>1
  <2>3. sum[i] \in Nat /\ sum[j] \in Nat /\ sum[j + 1] \in Nat
    BY <2>1
  <2>4. CASE i = j + 1
    BY <2>1, <2>3, <2>4
  <2>5. CASE i # j + 1
    <3>1. i <= j + 1 => sum[i] <= sum[j]
      BY <1>2, <2>5
    <3>. QED
      BY <2>1, <2>2, <2>3, <3>1
  <2>. QED
    BY <2>4, <2>5
<1>3. 0..n \subseteq T
  <2>. HIDE DEF T
  <2>. QED
    BY <1>1, <1>2, Induction
<1>. QED
  BY <1>3

\* Two sequences one after the other, by position.
LEMMA ConcatAt ==
    ASSUME NEW S, NEW s \in Seq(S), NEW t \in Seq(S)
    PROVE  /\ s \o t \in Seq(S) /\ Len(s \o t) = Len(s) + Len(t)
           /\ \A i \in 1..Len(s) : (s \o t)[i] = s[i]
           /\ \A i \in 1..Len(t) : (s \o t)[Len(s) + i] = t[i]
OBVIOUS

\* A prefix, by position.
LEMMA PrefixAt ==
    ASSUME NEW S, NEW s \in Seq(S), NEW t \in Seq(S)
    PROVE  IsPrefix(s, t) <=> Len(s) <= Len(t) /\ \A i \in 1..Len(s) : s[i] = t[i]
<1>1. CASE Len(s) <= Len(t)
  <2>1. /\ SubSeq(s, 1, Len(s)) = s /\ SubSeq(t, 1, Len(s)) \in Seq(S)
        /\ Len(SubSeq(t, 1, Len(s))) = Len(s)
        /\ \A i \in 1..Len(s) : SubSeq(t, 1, Len(s))[i] = t[i]
    BY <1>1
  <2>. QED
    BY <1>1, <2>1 DEF IsPrefix
<1>. QED
  BY <1>1 DEF IsPrefix

\* `upto' holds the sums of the lengths of the first n sequences, and `flat' is
\* those sequences one after the other.
Lengths(upto, seqs, n) ==
    /\ upto[0] = 0
    /\ \A k \in 0..n : upto[k] \in Nat
    /\ \A k \in 1..n : upto[k] = upto[k - 1] + Len(seqs[k])
Joined(flat, seqs, upto, n) ==
    /\ Len(flat) = upto[n]
    /\ \A k \in 1..n : \A i \in 1..Len(seqs[k]) : flat[upto[k - 1] + i] = seqs[k][i]

\* The sums of the lengths only grow.
LEMMA LengthsGrow ==
    ASSUME NEW n \in Nat, NEW seqs, NEW upto, Lengths(upto, seqs, n),
           \A k \in 1..n : Len(seqs[k]) \in Nat
    PROVE  \A i, j \in 0..n : i <= j => upto[i] <= upto[j]
<1>. DEFINE sum == [k \in 0..n |-> upto[k]]
<1>1. sum \in [0..n -> Nat]
  BY DEF Lengths
<1>2. ASSUME NEW k \in 1..n  PROVE sum[k - 1] <= sum[k]
  <2>1. k - 1 \in 0..n /\ k \in 0..n
    OBVIOUS
  <2>2. upto[k - 1] \in Nat /\ upto[k] = upto[k - 1] + Len(seqs[k]) /\ Len(seqs[k]) \in Nat
    BY <2>1 DEF Lengths
  <2>. QED
    BY <2>1, <2>2
<1>3. \A k \in 0..n : sum[k] = upto[k]
  OBVIOUS
<1>. HIDE DEF sum
<1>4. \A i, j \in 0..n : i <= j => sum[i] <= sum[j]
  BY <1>1, <1>2, SumsGrow
<1>. QED
  BY <1>3, <1>4

\* One more sequence joined.
LEMMA JoinOne ==
    ASSUME NEW S, NEW n \in Nat, NEW seqs, \A k \in 1..(n + 1) : seqs[k] \in Seq(S),
           NEW upto, Lengths(upto, seqs, n + 1),
           NEW flat \in Seq(S), Joined(flat, seqs, upto, n)
    PROVE  /\ flat \o seqs[n + 1] \in Seq(S)
           /\ Joined(flat \o seqs[n + 1], seqs, upto, n + 1)
<1>. DEFINE last == seqs[n + 1]
            joined == flat \o last
<1>1. last \in Seq(S)
  BY n + 1 \in 1..(n + 1)
<1>2. upto[n] \in Nat /\ upto[n + 1] = upto[n] + Len(last) /\ Len(flat) = upto[n]
  <2>1. n \in 0..(n + 1) /\ n + 1 \in 1..(n + 1) /\ (n + 1) - 1 = n
    OBVIOUS
  <2>. QED
    BY <2>1 DEF Lengths, Joined
<1>3. \A i, j \in 0..(n + 1) : i <= j => upto[i] <= upto[j]
  <2>1. \A k \in 1..(n + 1) : Len(seqs[k]) \in Nat
    OBVIOUS
  <2>2. n + 1 \in Nat
    OBVIOUS
  <2>. QED
    BY <2>1, <2>2, LengthsGrow
<1>. HIDE DEF last
<1>4. /\ joined \in Seq(S) /\ Len(joined) = upto[n] + Len(last)
      /\ \A i \in 1..upto[n] : joined[i] = flat[i]
      /\ \A i \in 1..Len(last) : joined[upto[n] + i] = last[i]
  <2>1. /\ joined \in Seq(S) /\ Len(joined) = Len(flat) + Len(last)
        /\ \A i \in 1..Len(flat) : joined[i] = flat[i]
        /\ \A i \in 1..Len(last) : joined[Len(flat) + i] = last[i]
    BY <1>1, ConcatAt
  <2>. HIDE DEF joined
  <2>. QED
    BY <1>2, <2>1
<1>. HIDE DEF joined
<1>5. ASSUME NEW k \in 1..(n + 1), NEW i \in 1..Len(seqs[k])
      PROVE  joined[upto[k - 1] + i] = seqs[k][i]
  <2>1. CASE k = n + 1
    <3>1. k - 1 = n /\ seqs[k] = last
      BY <2>1 DEF last
    <3>. QED
      BY <1>4, <3>1
  <2>2. CASE k # n + 1
    <3>1. k \in 1..n /\ k \in 1..(n + 1) /\ k \in 0..(n + 1) /\ n \in 0..(n + 1) /\ k <= n
          /\ k - 1 \in 0..(n + 1)
      BY <2>2
    <3>2. flat[upto[k - 1] + i] = seqs[k][i]
      BY <3>1 DEF Joined
    <3>3. upto[k] <= upto[n]
      BY <1>3, <3>1
    <3>4. upto[k] = upto[k - 1] + Len(seqs[k]) /\ upto[k - 1] \in Nat
      BY <3>1 DEF Lengths
    <3>5. Len(seqs[k]) \in Nat
      OBVIOUS
    <3>6. upto[k - 1] + i \in 1..upto[n]
      BY <1>2, <3>3, <3>4, <3>5
    <3>. QED
      BY <1>4, <3>2, <3>6
  <2>. QED
    BY <2>1, <2>2
<1>6. Joined(joined, seqs, upto, n + 1)
  BY <1>2, <1>4, <1>5 DEF Joined
<1>. QED
  BY <1>4, <1>6 DEF joined, last

\* Sequences joined from the left.
LEMMA JoinAll ==
    ASSUME NEW S, NEW L \in Nat \ {0}, NEW seqs, \A k \in 1..L : seqs[k] \in Seq(S),
           NEW upto, Lengths(upto, seqs, L), NEW flat, flat[1] = seqs[1],
           \A k \in 2..L : flat[k] = flat[k - 1] \o seqs[k]
    PROVE  flat[L] \in Seq(S) /\ Joined(flat[L], seqs, upto, L)
<1>. DEFINE At(n) == flat[n] \in Seq(S) /\ Joined(flat[n], seqs, upto, n)
            T == {n \in 0..L : n = 0 \/ At(n)}
<1>1. At(1)
  <2>1. 1 \in 1..L
    OBVIOUS
  <2>2. upto[1] = Len(seqs[1]) /\ seqs[1] \in Seq(S) /\ upto[0] = 0
    <3>1. upto[1] = upto[1 - 1] + Len(seqs[1]) /\ upto[0] = 0
      BY <2>1 DEF Lengths
    <3>2. seqs[1] \in Seq(S) /\ Len(seqs[1]) \in Nat
      BY <2>1
    <3>. QED
      BY <3>1, <3>2
  <2>3. Joined(seqs[1], seqs, upto, 1)
    BY <2>2 DEF Joined
  <2>. QED
    BY <2>2, <2>3
<1>2. ASSUME NEW n \in 1..(L - 1), At(n)  PROVE At(n + 1)
  <2>1. n \in Nat /\ n + 1 \in 2..L /\ (n + 1) - 1 = n /\ 1..(n + 1) \subseteq 1..L
        /\ 0..(n + 1) \subseteq 0..L
    OBVIOUS
  <2>2. flat[n + 1] = flat[n] \o seqs[n + 1]
    BY <2>1
  <2>3. Lengths(upto, seqs, n + 1)
    BY <2>1 DEF Lengths
  <2>4. \A k \in 1..(n + 1) : seqs[k] \in Seq(S)
    BY <2>1
  <2>5. flat[n] \in Seq(S) /\ Joined(flat[n], seqs, upto, n)
    BY <1>2
  <2>. HIDE DEF At
  <2>6. /\ flat[n] \o seqs[n + 1] \in Seq(S)
        /\ Joined(flat[n] \o seqs[n + 1], seqs, upto, n + 1)
    BY <2>1, <2>3, <2>4, <2>5, JoinOne
  <2>. QED
    BY <2>2, <2>6 DEF At
<1>. HIDE DEF At
<1>3. 0..L \subseteq T
  <2>1. 0 \in T
    OBVIOUS
  <2>2. ASSUME NEW n \in 0..(L - 1), n \in T  PROVE n + 1 \in T
    <3>1. CASE n = 0
      BY <1>1, <3>1
    <3>2. CASE n # 0
      <4>1. n \in 1..(L - 1) /\ At(n)
        BY <2>2, <3>2
      <4>2. At(n + 1) /\ n + 1 \in 0..L
        BY <1>2, <4>1
      <4>. QED
        BY <4>2
    <3>. QED
      BY <3>1, <3>2
  <2>. HIDE DEF T
  <2>. QED
    BY <2>1, <2>2, Induction
<1>4. At(L)
  BY <1>3
<1>. QED
  BY <1>4 DEF At

\* FlattenSeq by position.
LEMMA FlattenAt ==
    ASSUME NEW S, NEW seqs \in Seq(Seq(S)), seqs # <<>>,
           NEW upto, Lengths(upto, seqs, Len(seqs))
    PROVE  FlattenSeq(seqs) \in Seq(S) /\ Joined(FlattenSeq(seqs), seqs, upto, Len(seqs))
<1>. DEFINE L == Len(seqs)
            Flat(f) == [n \in 1..L |-> IF n = 1 THEN seqs[n] ELSE f[n - 1] \o seqs[n]]
            flatten == CHOOSE f : f = Flat(f)
            step == [n \in 1..L |-> [x \in Seq(S) |-> x \o seqs[n]]]
<1>1. L \in Nat \ {0} /\ \A n \in 1..L : seqs[n] \in Seq(S)
  OBVIOUS
<1>2. FlattenSeq(seqs) = flatten[L]
  BY <1>1 DEF FlattenSeq
<1>. HIDE DEF L
<1>3. StaysIn(Seq(S), step, L)
  <2>1. ASSUME NEW n \in 1..L, NEW x \in Seq(S)  PROVE step[n][x] \in Seq(S)
    <3>1. seqs[n] \in Seq(S) /\ step[n][x] = x \o seqs[n]
      BY <1>1
    <3>2. x \o seqs[n] \in Seq(S)
      BY <3>1, ConcatAt
    <3>. QED
      BY <3>1, <3>2
  <2>. HIDE DEF step
  <2>. QED
    BY <2>1 DEF StaysIn
<1>4. \A x \in Seq(S), n \in 1..L : step[n][x] = x \o seqs[n]
  OBVIOUS
<1>. HIDE DEF step
<1>5. PICK f \in [0..L -> Seq(S)] : f[0] = <<>> /\ \A n \in 1..L : f[n] = step[n][f[n - 1]]
  <2>. DEFINE Values == Seq(S)
              empty == <<>>
  <2>1. empty \in Values /\ L \in Nat /\ StaysIn(Values, step, L)
    BY <1>1, <1>3
  <2>. HIDE DEF Values, empty
  <2>2. \E f : RunIn(Values, f, empty, step, L)
    BY <2>1, RecursionExists
  <2>. QED
    BY <2>2 DEF RunIn, Run, Values, empty
<1>6. ASSUME NEW n \in 1..L  PROVE f[n - 1] \in Seq(S) /\ f[n] = f[n - 1] \o seqs[n]
  <2>1. n - 1 \in 0..L
    BY <1>1
  <2>. QED
    BY <1>4, <1>5, <2>1
<1>7. f[1] = seqs[1]
  <2>1. 1 \in 1..L /\ 1 - 1 = 0 /\ seqs[1] \in Seq(S)
    BY <1>1
  <2>2. f[1] = <<>> \o seqs[1]
    BY <1>5, <1>6, <2>1
  <2>. QED
    BY <2>1, <2>2
<1>8. [n \in 1..L |-> f[n]] = Flat([n \in 1..L |-> f[n]])
  <2>. DEFINE g == [n \in 1..L |-> f[n]]
  <2>1. ASSUME NEW n \in 1..L  PROVE g[n] = IF n = 1 THEN seqs[n] ELSE g[n - 1] \o seqs[n]
    <3>1. CASE n = 1
      BY <1>7, <3>1
    <3>2. CASE n # 1
      <4>1. n - 1 \in 1..L
        BY <1>1, <3>2
      <4>. QED
        BY <1>6, <3>2, <4>1
    <3>. QED
      BY <3>1, <3>2
  <2>2. g = [n \in 1..L |-> g[n]]
    OBVIOUS
  <2>. HIDE DEF g
  <2>3. g = Flat(g)
    BY <2>1, <2>2
  <2>. QED
    BY <2>3 DEF g
<1>9. flatten = Flat(flatten)
  <2>. HIDE DEF Flat
  <2>. QED
    BY <1>8
<1>. HIDE DEF flatten
<1>10. flatten[1] = seqs[1] /\ \A n \in 2..L : flatten[n] = flatten[n - 1] \o seqs[n]
  <2>1. \A n \in 1..L : Flat(flatten)[n] = IF n = 1 THEN seqs[n] ELSE flatten[n - 1] \o seqs[n]
    OBVIOUS
  <2>2. 1 \in 1..L /\ \A n \in 2..L : n \in 1..L /\ n # 1
    BY <1>1
  <2>. HIDE DEF Flat
  <2>. QED
    BY <1>9, <2>1, <2>2
<1>11. flatten[L] \in Seq(S) /\ Joined(flatten[L], seqs, upto, L)
  <2>1. Lengths(upto, seqs, L)
    BY DEF L
  <2>. QED
    BY <1>1, <1>10, <2>1, JoinAll
<1>. QED
  BY <1>2, <1>11 DEF L

-----------------------------------------------------------------------------
(* Finite sets and sums                                                      *)

\* Induction over the subsets of a finite set, for a set of sets.
LEMMA FiniteInduction ==
    ASSUME NEW S, IsFiniteSet(S), NEW T, {} \in T,
           \A s \in SUBSET S : \A x \in S \ s : s \in T => s \cup {x} \in T
    PROVE  S \in T
<1>. DEFINE n == Cardinality(S)
            Sized == {k \in 0..n : \A s \in SUBSET S : Cardinality(s) = k => s \in T}
<1>1. n \in Nat
  BY FS_CardinalityType
<1>2. \A s \in SUBSET S : IsFiniteSet(s)
  BY FS_Subset
<1>3. 0 \in Sized
  <2>1. \A s \in SUBSET S : Cardinality(s) = 0 => s = {}
    BY <1>2, FS_EmptySet
  <2>. QED
    BY <1>1, <2>1
<1>4. ASSUME NEW k \in 0..(n - 1), k \in Sized  PROVE k + 1 \in Sized
  <2>1. ASSUME NEW s \in SUBSET S, Cardinality(s) = k + 1  PROVE s \in T
    <3>1. s # {}
      <4>1. Cardinality({}) = 0 /\ k + 1 # 0
        BY FS_EmptySet
      <4>. QED
        BY <2>1, <4>1
    <3>2. PICK x \in s : TRUE
      BY <3>1
    <3>3. Cardinality(s \ {x}) = k
      <4>1. IsFiniteSet(s)
        BY <1>2
      <4>2. Cardinality(s \ {x}) = Cardinality(s) - 1
        BY <4>1, FS_RemoveElement
      <4>. QED
        BY <2>1, <4>2
    <3>4. s \ {x} \in T
      BY <1>4, <3>3
    <3>5. (s \ {x}) \cup {x} = s /\ x \in S \ (s \ {x}) /\ s \ {x} \in SUBSET S
      OBVIOUS
    <3>. QED
      BY <3>4, <3>5
  <2>. QED
    BY <1>1, <2>1
<1>5. 0..n \subseteq Sized
  <2>. HIDE DEF Sized, n
  <2>. QED
    BY <1>1, <1>3, <1>4, Induction
<1>. QED
  BY <1>1, <1>5

\* The sums over all subsets of S, as the fold of the library adds them up.
First(s) == CHOOSE x \in s : TRUE
SumsUp(g, f, s) == s # {} => g[s] = f[First(s)] + g[s \ {First(s)}]
SumsTo(g, f, S) == g[{}] = 0 /\ \A s \in SUBSET S : SumsUp(g, f, s)

\* The sums of a finite set exist.
LEMMA SumExists ==
    ASSUME NEW S, IsFiniteSet(S), NEW f, \A x \in S : f[x] \in Nat
    PROVE  \E g \in [SUBSET S -> Nat] : SumsTo(g, f, S)
<1>. DEFINE n == Cardinality(S)
            Small(k) == {s \in SUBSET S : Cardinality(s) <= k}
            Sums(g, k) == g[{}] = 0 /\ \A s \in Small(k) : SumsUp(g, f, s)
            T == {k \in 0..n : \E g \in [Small(k) -> Nat] : Sums(g, k)}
<1>1. n \in Nat
  BY FS_CardinalityType
<1>2. \A s \in SUBSET S : IsFiniteSet(s) /\ Cardinality(s) \in 0..n
  BY FS_Subset, FS_CardinalityType
<1>3. {} \in SUBSET S /\ Cardinality({}) = 0
  BY FS_EmptySet
<1>4. \A s \in SUBSET S : s # {} =>
        /\ First(s) \in s /\ s \ {First(s)} \in SUBSET S
        /\ Cardinality(s \ {First(s)}) = Cardinality(s) - 1
  BY <1>2, FS_RemoveElement DEF First
<1>5. 0 \in T
  <2>. DEFINE g == [s \in Small(0) |-> 0]
  <2>1. \A s \in Small(0) : s = {}
    BY <1>2, FS_EmptySet
  <2>2. g \in [Small(0) -> Nat] /\ g[{}] = 0
    BY <1>3
  <2>3. Sums(g, 0)
    BY <2>1, <2>2 DEF SumsUp
  <2>. QED
    BY <1>1, <2>2, <2>3
<1>6. ASSUME NEW k \in 0..(n - 1), k \in T  PROVE k + 1 \in T
  <2>1. PICK g \in [Small(k) -> Nat] : Sums(g, k)
    BY <1>6
  <2>. DEFINE h == [s \in Small(k + 1) |->
                      IF s \in Small(k) THEN g[s] ELSE f[First(s)] + g[s \ {First(s)}]]
  <2>2. Small(k) \subseteq Small(k + 1) /\ {} \in Small(k)
    BY <1>2, <1>3
  <2>3. ASSUME NEW s \in Small(k + 1), s \notin Small(k)
        PROVE  s # {} /\ s \ {First(s)} \in Small(k)
    <3>1. Cardinality(s) = k + 1 /\ s # {}
      <4>1. Cardinality(s) <= k + 1 /\ ~(Cardinality(s) <= k) /\ Cardinality(s) \in Nat
        BY <1>2, <2>3
      <4>2. Cardinality(s) = k + 1
        BY <4>1
      <4>3. k + 1 # 0
        OBVIOUS
      <4>. QED
        BY <1>3, <4>2, <4>3
    <3>. QED
      BY <1>4, <3>1
  <2>4. \A s \in SUBSET S : s # {} => f[First(s)] \in Nat
    BY <1>4
  <2>5. \A s \in Small(k + 1) : s \in SUBSET S
    OBVIOUS
  <2>6. \A s \in Small(k) : s # {} => s \ {First(s)} \in Small(k)
    BY <1>2, <1>4
  <2>7. g[{}] = 0 /\ \A s \in Small(k) : s # {} => g[s] = f[First(s)] + g[s \ {First(s)}]
    BY <2>1 DEF SumsUp
  <2>. HIDE DEF Small, T
  <2>8. h \in [Small(k + 1) -> Nat]
    <3>1. ASSUME NEW s \in Small(k + 1), s \notin Small(k)
          PROVE  f[First(s)] + g[s \ {First(s)}] \in Nat
      <4>1. s # {} /\ s \ {First(s)} \in Small(k)
        BY <2>3, <3>1
      <4>2. f[First(s)] \in Nat /\ g[s \ {First(s)}] \in Nat
        BY <2>4, <2>5, <4>1
      <4>. QED
        BY <4>2
    <3>. QED
      BY <3>1
  <2>9. h[{}] = 0
    BY <2>2, <2>7
  <2>10. ASSUME NEW s \in Small(k + 1), s # {}
         PROVE  h[s] = f[First(s)] + h[s \ {First(s)}]
    <3>1. s \ {First(s)} \in Small(k)
      BY <2>3, <2>6, <2>10
    <3>2. h[s \ {First(s)}] = g[s \ {First(s)}]
      BY <2>2, <3>1
    <3>3. h[s] = f[First(s)] + g[s \ {First(s)}]
      BY <2>7, <2>10
    <3>. QED
      BY <3>2, <3>3
  <2>. HIDE DEF h
  <2>11. Sums(h, k + 1)
    BY <2>9, <2>10 DEF SumsUp
  <2>. QED
    BY <1>1, <2>8, <2>11 DEF T
<1>7. 0..n \subseteq T
  <2>. HIDE DEF T, n
  <2>. QED
    BY <1>1, <1>5, <1>6, Induction
<1>8. PICK g \in [Small(n) -> Nat] : Sums(g, n)
  <2>1. n \in T
    <3>1. n \in 0..n
      BY <1>1
    <3>. HIDE DEF T, n
    <3>. QED
      BY <1>7, <3>1
  <2>. HIDE DEF Small, Sums, n
  <2>. QED
    BY <2>1
<1>9. Small(n) = SUBSET S
  BY <1>2
<1>. QED
  BY <1>8, <1>9 DEF SumsTo

\* They are what the library's fold gives, and do not depend on the order.
LEMMA SumTakes ==
    ASSUME NEW S, IsFiniteSet(S), NEW f, \A x \in S : f[x] \in Nat,
           NEW g \in [SUBSET S -> Nat], SumsTo(g, f, S)
    PROVE  \A y \in S : g[S] = f[y] + g[S \ {y}]
<1>. DEFINE Anyhow(s) == \A y \in s : g[s] = f[y] + g[s \ {y}]
            n == Cardinality(S)
            T == {k \in 0..n : \A s \in SUBSET S : Cardinality(s) = k => Anyhow(s)}
<1>1. n \in Nat
  BY FS_CardinalityType
<1>2. \A s \in SUBSET S : IsFiniteSet(s) /\ Cardinality(s) \in 0..n
  BY FS_Subset, FS_CardinalityType
<1>3. 0 \in T
  BY <1>1, <1>2, FS_EmptySet
<1>4. ASSUME NEW k \in 0..(n - 1), k \in T  PROVE k + 1 \in T
  <2>1. ASSUME NEW s \in SUBSET S, Cardinality(s) = k + 1, NEW y \in s
        PROVE  g[s] = f[y] + g[s \ {y}]
    <3>. DEFINE x == First(s)
    <3>1. x \in s /\ g[s] = f[x] + g[s \ {x}]
      BY DEF First, SumsTo, SumsUp
    <3>. HIDE DEF x
    <3>2. CASE x = y
      BY <3>1, <3>2
    <3>3. CASE x # y
      <4>1. Cardinality(s \ {x}) = k /\ Cardinality(s \ {y}) = k
        BY <1>2, <2>1, <3>1, FS_RemoveElement
      <4>2. Anyhow(s \ {x}) /\ Anyhow(s \ {y})
        BY <1>4, <4>1
      <4>3. y \in s \ {x} /\ x \in s \ {y}
        BY <3>1, <3>3
      <4>4. g[s \ {x}] = f[y] + g[(s \ {x}) \ {y}] /\ g[s \ {y}] = f[x] + g[(s \ {y}) \ {x}]
        BY <4>2, <4>3
      <4>5. (s \ {x}) \ {y} = (s \ {y}) \ {x} /\ (s \ {x}) \ {y} \in SUBSET S
        OBVIOUS
      <4>6. g[(s \ {x}) \ {y}] \in Nat /\ f[x] \in Nat /\ f[y] \in Nat
        BY <3>1, <4>5
      <4>. DEFINE rest == g[(s \ {x}) \ {y}]
      <4>7. g[s] = f[x] + (f[y] + rest) /\ g[s \ {y}] = f[x] + rest
        BY <3>1, <4>4, <4>5
      <4>8. rest \in Nat
        BY <4>6
      <4>. HIDE DEF rest
      <4>. QED
        BY <4>6, <4>7, <4>8
    <3>. QED
      BY <3>2, <3>3
  <2>. QED
    BY <1>1, <2>1
<1>5. 0..n \subseteq T
  <2>. HIDE DEF T, n
  <2>. QED
    BY <1>1, <1>3, <1>4, Induction
<1>6. Anyhow(S)
  BY <1>1, <1>5
<1>. QED
  BY <1>6

\* Two ways to sum up agree.
LEMMA SumUnique ==
    ASSUME NEW S, IsFiniteSet(S), NEW f, NEW g, NEW h, SumsTo(g, f, S), SumsTo(h, f, S)
    PROVE  \A s \in SUBSET S : g[s] = h[s]
<1>. DEFINE n == Cardinality(S)
            T == {k \in 0..n : \A s \in SUBSET S : Cardinality(s) = k => g[s] = h[s]}
<1>1. n \in Nat
  BY FS_CardinalityType
<1>2. \A s \in SUBSET S : IsFiniteSet(s) /\ Cardinality(s) \in 0..n
  BY FS_Subset, FS_CardinalityType
<1>3. 0 \in T
  BY <1>1, <1>2, FS_EmptySet DEF SumsTo
<1>4. ASSUME NEW k \in 0..(n - 1), k \in T  PROVE k + 1 \in T
  <2>1. ASSUME NEW s \in SUBSET S, Cardinality(s) = k + 1  PROVE g[s] = h[s]
    <3>1. s # {}
      BY <2>1, FS_EmptySet
    <3>2. First(s) \in s
      BY <3>1 DEF First
    <3>3. Cardinality(s \ {First(s)}) = k /\ s \ {First(s)} \in SUBSET S
      <4>1. IsFiniteSet(s)
        BY <1>2
      <4>2. Cardinality(s \ {First(s)}) = Cardinality(s) - 1
        BY <3>2, <4>1, FS_RemoveElement
      <4>. QED
        BY <2>1, <4>2
    <3>4. g[s \ {First(s)}] = h[s \ {First(s)}]
      BY <1>4, <3>3
    <3>. QED
      BY <3>1, <3>4 DEF SumsTo, SumsUp
  <2>. QED
    BY <1>1, <2>1
<1>5. 0..n \subseteq T
  <2>. HIDE DEF T, n
  <2>. QED
    BY <1>1, <1>3, <1>4, Induction
<1>. QED
  BY <1>2, <1>5

\* The library's sum is one of those.
LEMMA SumIs ==
    ASSUME NEW S, IsFiniteSet(S), NEW f, \A x \in S : f[x] \in Nat
    PROVE  \E g \in [SUBSET S -> Nat] : SumsTo(g, f, S) /\ SumFunctionOnSet(f, S) = g[S]
<1>. DEFINE Unfold(g) == [s \in SUBSET S |-> IF s = {} THEN 0
                                            ELSE f[First(s)] + g[s \ {First(s)}]]
            fold == CHOOSE g : g = Unfold(g)
<1>1. SumFunctionOnSet(f, S) = fold[S]
  BY DEF SumFunctionOnSet, FoldFunctionOnSet, MapThenFoldSet, First
<1>2. PICK g \in [SUBSET S -> Nat] : SumsTo(g, f, S)
  BY SumExists
<1>3. g = Unfold(g)
  <2>1. \A s \in SUBSET S : g[s] = IF s = {} THEN 0 ELSE f[First(s)] + g[s \ {First(s)}]
    BY <1>2 DEF SumsTo, SumsUp
  <2>2. g = [s \in SUBSET S |-> g[s]]
    OBVIOUS
  <2>. QED
    BY <2>1, <2>2
<1>4. fold = Unfold(fold)
  <2>. HIDE DEF Unfold
  <2>. QED
    BY <1>3
<1>. HIDE DEF fold
<1>5. SumsTo(fold, f, S)
  <2>1. \A s \in SUBSET S : Unfold(fold)[s] = IF s = {} THEN 0
                                            ELSE f[First(s)] + fold[s \ {First(s)}]
    OBVIOUS
  <2>. HIDE DEF Unfold
  <2>2. {} \in SUBSET S
    OBVIOUS
  <2>. QED
    BY <1>4, <2>1, <2>2 DEF SumsTo, SumsUp
<1>6. fold[S] = g[S]
  BY <1>2, <1>5, SumUnique
<1>. QED
  BY <1>1, <1>2, <1>6

\* A sum of natural numbers is one, and none if there is nothing to add.
LEMMA SumType ==
    ASSUME NEW S, IsFiniteSet(S), NEW f, \A x \in S : f[x] \in Nat
    PROVE  SumFunctionOnSet(f, S) \in Nat /\ (S = {} => SumFunctionOnSet(f, S) = 0)
<1>1. PICK g \in [SUBSET S -> Nat] : SumsTo(g, f, S) /\ SumFunctionOnSet(f, S) = g[S]
  BY SumIs
<1>. QED
  BY <1>1 DEF SumsTo

\* One more to add.
LEMMA SumAdd ==
    ASSUME NEW S, IsFiniteSet(S), NEW x, x \notin S, NEW f,
           \A y \in S \cup {x} : f[y] \in Nat
    PROVE  SumFunctionOnSet(f, S \cup {x}) = SumFunctionOnSet(f, S) + f[x]
<1>. DEFINE U == S \cup {x}
<1>1. IsFiniteSet(U) /\ x \in U /\ \A y \in U : f[y] \in Nat
  BY FS_AddElement
<1>2. PICK g \in [SUBSET U -> Nat] : SumsTo(g, f, U) /\ SumFunctionOnSet(f, U) = g[U]
  BY <1>1, SumIs
<1>3. PICK h \in [SUBSET S -> Nat] : SumsTo(h, f, S) /\ SumFunctionOnSet(f, S) = h[S]
  BY SumIs
<1>4. SumsTo(g, f, S)
  BY <1>2 DEF SumsTo
<1>5. g[S] = h[S]
  BY <1>3, <1>4, SumUnique
<1>6. g[U] = f[x] + g[U \ {x}]
  <2>1. SumsTo(g, f, U) /\ g \in [SUBSET U -> Nat]
    BY <1>2
  <2>. HIDE DEF U
  <2>2. \A y \in U : g[U] = f[y] + g[U \ {y}]
    BY <1>1, <2>1, SumTakes
  <2>. QED
    BY <1>1, <2>2
<1>7. U \ {x} = S /\ f[x] \in Nat /\ h[S] \in Nat
  OBVIOUS
<1>8. SumFunctionOnSet(f, U) = f[x] + h[S] /\ SumFunctionOnSet(f, S) = h[S]
  BY <1>2, <1>3, <1>5, <1>6, <1>7
<1>. QED
  BY <1>7, <1>8

\* What is added to a smaller sum is smaller.
LEMMA SumBelow ==
    ASSUME NEW S, IsFiniteSet(S), NEW f, NEW g,
           \A x \in S : f[x] \in Nat /\ g[x] \in Nat /\ f[x] <= g[x]
    PROVE  SumFunctionOnSet(f, S) <= SumFunctionOnSet(g, S)
<1>. DEFINE T == {s \in SUBSET S : SumFunctionOnSet(f, s) <= SumFunctionOnSet(g, s)}
<1>1. {} \in T
  BY SumType, FS_EmptySet
<1>2. ASSUME NEW s \in SUBSET S, NEW x \in S \ s, s \in T  PROVE s \cup {x} \in T
  <2>1. IsFiniteSet(s)
    BY FS_Subset
  <2>2. /\ SumFunctionOnSet(f, s \cup {x}) = SumFunctionOnSet(f, s) + f[x]
        /\ SumFunctionOnSet(g, s \cup {x}) = SumFunctionOnSet(g, s) + g[x]
    BY <2>1, SumAdd
  <2>3. SumFunctionOnSet(f, s) \in Nat /\ SumFunctionOnSet(g, s) \in Nat
    BY <2>1, SumType
  <2>. QED
    BY <1>2, <2>2, <2>3
<1>3. S \in T
  <2>. HIDE DEF T
  <2>. QED
    BY <1>1, <1>2, FiniteInduction
<1>. QED
  BY <1>3

\* A sum depends on what is added only.
LEMMA SumSame ==
    ASSUME NEW S, IsFiniteSet(S), NEW f, NEW g, \A x \in S : f[x] \in Nat /\ f[x] = g[x]
    PROVE  SumFunctionOnSet(f, S) = SumFunctionOnSet(g, S)
<1>1. /\ SumFunctionOnSet(f, S) <= SumFunctionOnSet(g, S)
      /\ SumFunctionOnSet(g, S) <= SumFunctionOnSet(f, S)
  BY SumBelow
<1>2. SumFunctionOnSet(f, S) \in Nat /\ SumFunctionOnSet(g, S) \in Nat
  BY SumType
<1>. QED
  BY <1>1, <1>2

\* A sum in two parts.
LEMMA SumSplit ==
    ASSUME NEW S, IsFiniteSet(S), NEW A, IsFiniteSet(A), S \cap A = {}, NEW f,
           \A x \in S \cup A : f[x] \in Nat
    PROVE  SumFunctionOnSet(f, S \cup A) = SumFunctionOnSet(f, S) + SumFunctionOnSet(f, A)
<1>. DEFINE T == {s \in SUBSET A : SumFunctionOnSet(f, S \cup s)
                                     = SumFunctionOnSet(f, S) + SumFunctionOnSet(f, s)}
<1>1. {} \in T
  <2>1. SumFunctionOnSet(f, {}) = 0 /\ SumFunctionOnSet(f, S) \in Nat
    BY SumType, FS_EmptySet
  <2>2. S \cup {} = S
    OBVIOUS
  <2>. QED
    BY <2>1, <2>2
<1>2. ASSUME NEW s \in SUBSET A, NEW x \in A \ s, s \in T  PROVE s \cup {x} \in T
  <2>1. IsFiniteSet(s) /\ IsFiniteSet(S \cup s)
    BY FS_Subset, FS_Union
  <2>2. x \notin S \cup s /\ S \cup (s \cup {x}) = (S \cup s) \cup {x}
    OBVIOUS
  <2>3. SumFunctionOnSet(f, s \cup {x}) = SumFunctionOnSet(f, s) + f[x]
    BY <2>1, SumAdd
  <2>4. SumFunctionOnSet(f, (S \cup s) \cup {x}) = SumFunctionOnSet(f, S \cup s) + f[x]
    BY <2>1, <2>2, SumAdd
  <2>5. SumFunctionOnSet(f, S) \in Nat /\ SumFunctionOnSet(f, s) \in Nat /\ f[x] \in Nat
    BY <2>1, SumType
  <2>6. SumFunctionOnSet(f, S \cup s) = SumFunctionOnSet(f, S) + SumFunctionOnSet(f, s)
    BY <1>2
  <2>7. SumFunctionOnSet(f, S \cup (s \cup {x}))
          = SumFunctionOnSet(f, S) + SumFunctionOnSet(f, s \cup {x})
    <3>1. SumFunctionOnSet(f, S \cup (s \cup {x}))
            = (SumFunctionOnSet(f, S) + SumFunctionOnSet(f, s)) + f[x]
      BY <2>2, <2>4, <2>6
    <3>. DEFINE a == SumFunctionOnSet(f, S)
                b == SumFunctionOnSet(f, s)
                c == f[x]
    <3>2. a \in Nat /\ b \in Nat /\ c \in Nat
      BY <2>5
    <3>. HIDE DEF a, b, c
    <3>3. (a + b) + c = a + (b + c)
      BY <3>2
    <3>. QED
      BY <2>3, <3>1, <3>3 DEF a, b, c
  <2>. QED
    BY <2>7
<1>3. A \in T
  <2>. HIDE DEF T
  <2>. QED
    BY <1>1, <1>2, FiniteInduction
<1>. QED
  BY <1>3
=============================================================================
