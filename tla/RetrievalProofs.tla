---------------------------- MODULE RetrievalProofs ----------------------------
(***************************************************************************)
(* TLAPS proofs about Retrieval: what the two context builders put into a  *)
(* prompt is what the log and the graph hold, for any history, windows,    *)
(* budget, command set and timing.  The builders only read, so the loop's  *)
(* own invariants (ReactLoopProofs to ReactLoopGraph) carry over.          *)
(***************************************************************************)
EXTENDS ReactLoopGraph, RetrievalInv

\* What holds of the loop.
GraphLoopInv == IInv /\ GraphInv
Invariant == GraphLoopInv /\ RetrievalInv

-----------------------------------------------------------------------------
(* The projection of the log                                                 *)

Pair == [turn : Nat, feedback : Seq(Events)]
Pairs == Seq(Pair)

\* One event makes of pairs pairs again.
LEMMA ProjectType ==
  ASSUME NEW pairs \in Pairs, NEW e \in Events
  PROVE  Project(pairs, e) \in Pairs
<1>. DEFINE last == Len(pairs)
            opened == [turn |-> e.step, feedback |-> <<>>]
            joined == [pairs[last] EXCEPT !.feedback = Append(@, e)]
<1>1. e.step \in Nat /\ pairs \in Seq(Pair)
  BY DEF Events, Pairs
<1>2. CASE e.type = "model_turn"
  <2>1. opened \in Pair
    BY <1>1 DEF Pair
  <2>2. Project(pairs, e) = Append(pairs, opened)
    BY <1>2 DEF Project, IsFeedback, FeedbackTypes
  <2>. HIDE DEF opened
  <2>. QED
    BY <1>1, <2>1, <2>2 DEF Pairs
<1>3. CASE e.type # "model_turn" /\ IsFeedback(e) /\ pairs # <<>>
  <2>1. last \in DOMAIN pairs /\ pairs[last] \in Pair
    BY <1>1, <1>3
  <2>2. joined \in Pair
    BY <2>1 DEF Pair
  <2>3. Project(pairs, e) = [pairs EXCEPT ![last] = joined]
    BY <1>3 DEF Project
  <2>. HIDE DEF joined, last
  <2>. QED
    BY <1>1, <2>1, <2>2, <2>3 DEF Pairs
<1>4. CASE e.type # "model_turn" /\ ~(IsFeedback(e) /\ pairs # <<>>)
  BY <1>4 DEF Project
<1>. QED
  BY <1>2, <1>3, <1>4

\* A log is projected event by event, from its first.
Projection(l) == [n \in 1..Len(l) |-> [pairs \in Pairs |-> Project(pairs, l[n])]]
LEMMA ExchangesRun ==
  ASSUME NEW l \in Seq(Events)
  PROVE  \E p : RunIn(Pairs, p, <<>>, Projection(l), Len(l)) /\ ExchangesIn(l) = p[Len(l)]
<1>. DEFINE L == Len(l)
            none == <<>>
            Fold(p) == [n \in 0..L |-> IF n = 0 THEN <<>> ELSE Project(p[n - 1], l[n])]
            folded == CHOOSE p : p = Fold(p)
<1>1. L \in Nat /\ none \in Pairs /\ \A n \in 1..L : l[n] \in Events
  BY DEF Pairs
<1>2. \A n \in 1..L, pairs \in Pairs : Projection(l)[n][pairs] = Project(pairs, l[n])
  BY DEF Projection
<1>3. StaysIn(Pairs, Projection(l), L)
  BY <1>1, <1>2, ProjectType DEF StaysIn
<1>4. ExchangesIn(l) = folded[L]
  BY DEF ExchangesIn
<1>. HIDE DEF L, none
<1>5. PICK p : RunIn(Pairs, p, none, Projection(l), L)
  BY <1>1, <1>3, RecursionExists
<1>6. p = Fold(p)
  <2>1. p \in [0..L -> Pairs] /\ p[0] = <<>>
    BY <1>5 DEF RunIn, Run, none
  <2>2. ASSUME NEW n \in 0..L  PROVE p[n] = IF n = 0 THEN <<>> ELSE Project(p[n - 1], l[n])
    <3>1. CASE n = 0
      BY <2>1, <3>1
    <3>2. CASE n # 0
      <4>1. n \in 1..L /\ n - 1 \in 0..L
        BY <1>1, <3>2
      <4>2. p[n] = Projection(l)[n][p[n - 1]] /\ p[n - 1] \in Pairs
        BY <1>5, <2>1, <4>1 DEF RunIn, Run
      <4>. QED
        BY <1>2, <3>2, <4>1, <4>2
    <3>. QED
      BY <3>1, <3>2
  <2>. QED
    BY <2>1, <2>2
<1>7. folded = Fold(folded)
  <2>. HIDE DEF Fold
  <2>. QED
    BY <1>6
<1>8. \A n \in 0..L : folded[n] = p[n]
  <2>. DEFINE T == {n \in 0..L : folded[n] = p[n]}
  <2>1. \A n \in 0..L : folded[n] = IF n = 0 THEN <<>> ELSE Project(folded[n - 1], l[n])
    <3>1. \A n \in 0..L : Fold(folded)[n] = IF n = 0 THEN <<>> ELSE Project(folded[n - 1], l[n])
      OBVIOUS
    <3>. HIDE DEF folded, Fold
    <3>. QED
      BY <1>7, <3>1
  <2>2. \A n \in 0..L : p[n] = IF n = 0 THEN <<>> ELSE Project(p[n - 1], l[n])
    <3>1. \A n \in 0..L : Fold(p)[n] = IF n = 0 THEN <<>> ELSE Project(p[n - 1], l[n])
      OBVIOUS
    <3>. HIDE DEF Fold
    <3>. QED
      BY <1>6, <3>1
  <2>. HIDE DEF folded
  <2>3. 0 \in T
    BY <1>1, <2>1, <2>2
  <2>4. ASSUME NEW n \in 0..(L - 1), n \in T  PROVE n + 1 \in T
    <3>1. n + 1 \in 0..L /\ n + 1 # 0 /\ (n + 1) - 1 = n
      BY <1>1
    <3>2. folded[n + 1] = Project(folded[n], l[n + 1]) /\ p[n + 1] = Project(p[n], l[n + 1])
      BY <2>1, <2>2, <3>1
    <3>. QED
      BY <2>4, <3>1, <3>2
  <2>5. 0..L \subseteq T
    <3>. HIDE DEF T
    <3>. QED
      BY <1>1, <2>3, <2>4, Induction
  <2>. QED
    BY <2>5
<1>9. ExchangesIn(l) = p[L]
  BY <1>1, <1>4, <1>8
<1>. QED
  BY <1>5, <1>9 DEF L, none

\* The projection of an empty log, and of a log with one more event.
LEMMA ExchangesOfNone == ExchangesIn(<<>>) = <<>>
<1>. DEFINE empty == <<>>
            none == <<>>
<1>1. empty \in Seq(Events) /\ Len(empty) = 0
  OBVIOUS
<1>. HIDE DEF empty
<1>2. PICK p : RunIn(Pairs, p, none, Projection(empty), 0) /\ ExchangesIn(empty) = p[0]
  BY <1>1, ExchangesRun
<1>. QED
  BY <1>2 DEF RunIn, Run, empty

\* The exchanges of a longer log are those of the log, one event further.
LEMMA ExchangesAppend ==
  ASSUME NEW l \in Seq(Events), NEW e \in Events
  PROVE  /\ ExchangesIn(l) \in Pairs
         /\ ExchangesIn(Append(l, e)) = Project(ExchangesIn(l), e)
<1>. DEFINE L == Len(l)
            longer == Append(l, e)
            none == <<>>
<1>1. /\ L \in Nat /\ longer \in Seq(Events) /\ Len(longer) = L + 1
      /\ \A n \in 1..L : longer[n] = l[n]
      /\ longer[L + 1] = e /\ \A n \in 1..L : l[n] \in Events
  OBVIOUS
<1>. HIDE DEF longer, L, none
<1>2. PICK p : RunIn(Pairs, p, none, Projection(l), L) /\ ExchangesIn(l) = p[L]
  BY ExchangesRun DEF L, none
<1>3. PICK q : RunIn(Pairs, q, none, Projection(longer), L + 1) /\ ExchangesIn(longer) = q[L + 1]
  BY <1>1, ExchangesRun DEF none
<1>4. /\ p \in [0..L -> Pairs] /\ p[0] = none
      /\ \A n \in 1..L : p[n] = Project(p[n - 1], l[n])
  <2>1. p \in [0..L -> Pairs] /\ p[0] = none
    BY <1>2 DEF RunIn, Run
  <2>2. ASSUME NEW n \in 1..L  PROVE p[n] = Project(p[n - 1], l[n])
    <3>1. p[n] = Projection(l)[n][p[n - 1]]
      BY <1>2 DEF RunIn, Run
    <3>2. p[n - 1] \in Pairs
      BY <1>1, <2>1
    <3>. QED
      BY <3>1, <3>2 DEF Projection, L
  <2>. QED
    BY <2>1, <2>2
<1>5. /\ q \in [0..(L + 1) -> Pairs] /\ q[0] = none
      /\ \A n \in 1..(L + 1) : q[n] = Project(q[n - 1], longer[n])
  <2>1. q \in [0..(L + 1) -> Pairs] /\ q[0] = none
    BY <1>3 DEF RunIn, Run
  <2>2. ASSUME NEW n \in 1..(L + 1)  PROVE q[n] = Project(q[n - 1], longer[n])
    <3>1. q[n] = Projection(longer)[n][q[n - 1]]
      BY <1>3 DEF RunIn, Run
    <3>2. q[n - 1] \in Pairs
      BY <1>1, <2>1
    <3>. QED
      BY <1>1, <3>1, <3>2 DEF Projection
  <2>. QED
    BY <2>1, <2>2
<1>6. q[L] = p[L]
  <2>. DEFINE T == {n \in 0..L : q[n] = p[n]}
  <2>1. 0 \in T
    BY <1>1, <1>4, <1>5
  <2>2. ASSUME NEW n \in 0..(L - 1), n \in T  PROVE n + 1 \in T
    <3>1. n + 1 \in 1..L /\ n + 1 \in 0..L /\ n + 1 \in 1..(L + 1) /\ (n + 1) - 1 = n
      BY <1>1
    <3>2. p[n + 1] = Project(p[n], l[n + 1])
      BY <1>4, <3>1
    <3>3. q[n + 1] = Project(q[n], longer[n + 1])
      BY <1>5, <3>1
    <3>4. longer[n + 1] = l[n + 1]
      BY <1>1, <3>1
    <3>. QED
      BY <2>2, <3>1, <3>2, <3>3, <3>4
  <2>3. 0..L \subseteq T
    <3>. HIDE DEF T
    <3>. QED
      BY <1>1, <2>1, <2>2, Induction
  <2>. QED
    BY <1>1, <2>3
<1>7. q[L + 1] = Project(q[L], e)
  <2>1. L + 1 \in 1..(L + 1) /\ (L + 1) - 1 = L
    BY <1>1
  <2>2. q[L + 1] = Project(q[(L + 1) - 1], longer[L + 1])
    BY <1>5, <2>1
  <2>. QED
    BY <1>1, <2>1, <2>2
<1>8. p[L] \in Pairs
  BY <1>1, <1>4
<1>. QED
  BY <1>2, <1>3, <1>6, <1>7, <1>8 DEF longer

-----------------------------------------------------------------------------
(* What one statement of the loop does to it                                 *)

\* The exchanges so far, by their fields.
LEMMA ExchangesType ==
  ASSUME TypeOK
  PROVE  /\ Exchanges \in Pairs /\ Len(Exchanges) \in Nat
         /\ DOMAIN Exchanges = 1..Len(Exchanges)
         /\ \A k \in 1..Len(Exchanges) : /\ Exchanges[k] \in Pair
                                         /\ Exchanges[k].turn \in Nat
                                         /\ Exchanges[k].feedback \in Seq(Events)
<1>1. Exchanges \in Pairs
  <2>1. log \in Seq(Events)
    BY DEF TypeOK
  <2>2. [type |-> "noop_turn", step |-> 0, note |-> "none"] \in Events
    BY DEF Events, EventTypes, Notes
  <2>. QED
    BY <2>1, <2>2, ExchangesAppend DEF Exchanges
<1>2. /\ Len(Exchanges) \in Nat /\ DOMAIN Exchanges = 1..Len(Exchanges)
      /\ \A k \in 1..Len(Exchanges) : Exchanges[k] \in Pair
  BY <1>1 DEF Pairs
<1>3. \A pair \in Pair : pair.turn \in Nat /\ pair.feedback \in Seq(Events)
  BY DEF Pair
<1>. QED
  BY <1>1, <1>2, <1>3

\* An event is projected onto the exchanges so far.
LEMMA EmitProject ==
  ASSUME TypeOK, NEW type \in EventTypes, NEW note \in Notes, Emit(type, note)
  PROVE  Exchanges' = Project(Exchanges, [type |-> type, step |-> step, note |-> note])
<1>1. log \in Seq(Events) /\ step \in Nat
  BY BudgetsAssumption DEF TypeOK
<1>2. [type |-> type, step |-> step, note |-> note] \in Events
  BY <1>1 DEF Events
<1>3. log' = Append(log, [type |-> type, step |-> step, note |-> note])
  BY DEF Emit
<1>4. Exchanges' = ExchangesIn(log')
  BY DEF Exchanges
<1>. QED
  BY <1>1, <1>2, <1>3, <1>4, ExchangesAppend DEF Exchanges

\* The exchanges after a model_turn, after a feedback event and after any other.
LEMMA TurnOpened ==
  ASSUME TypeOK, NEW note \in Notes, Emit("model_turn", note)
  PROVE  /\ Len(Exchanges') = Len(Exchanges) + 1
         /\ \A k \in 1..Len(Exchanges) : Exchanges'[k] = Exchanges[k]
         /\ Exchanges'[Len(Exchanges) + 1] = [turn |-> step, feedback |-> <<>>]
<1>. DEFINE opened == [turn |-> step, feedback |-> <<>>]
<1>1. Exchanges' = Append(Exchanges, opened)
  <2>1. Exchanges' = Project(Exchanges, [type |-> "model_turn", step |-> step, note |-> note])
    BY EmitProject DEF EventTypes
  <2>. QED
    BY <2>1 DEF Project, IsFeedback, FeedbackTypes
<1>2. Exchanges \in Seq(Pair)
  BY ExchangesType DEF Pairs
<1>. HIDE DEF opened
<1>3. /\ Len(Exchanges') = Len(Exchanges) + 1
      /\ \A k \in 1..Len(Exchanges) : Exchanges'[k] = Exchanges[k]
      /\ Exchanges'[Len(Exchanges) + 1] = opened
  BY <1>1, <1>2
<1>. QED
  BY <1>3 DEF opened

\* A feedback event joins the latest exchange and leaves the others alone.
LEMMA FeedbackJoins ==
  ASSUME TypeOK, NEW type \in FeedbackTypes, NEW note \in Notes, Emit(type, note),
         Len(Exchanges) # 0
  PROVE  /\ Len(Exchanges') = Len(Exchanges)
         /\ \A k \in 1..(Len(Exchanges) - 1) : Exchanges'[k] = Exchanges[k]
         /\ Exchanges'[Len(Exchanges)].turn = Exchanges[Len(Exchanges)].turn
         /\ Len(Exchanges'[Len(Exchanges)].feedback)
              = Len(Exchanges[Len(Exchanges)].feedback) + 1
<1>. DEFINE last == Len(Exchanges)
            e == [type |-> type, step |-> step, note |-> note]
            joined == [Exchanges[last] EXCEPT !.feedback = Append(@, e)]
<1>1. Exchanges' = [Exchanges EXCEPT ![last] = joined]
  <2>1. Exchanges' = Project(Exchanges, e) /\ e.type = type
    BY EmitProject DEF EventTypes, FeedbackTypes
  <2>2. Exchanges # <<>>
    OBVIOUS
  <2>. HIDE DEF e
  <2>. QED
    BY <2>1, <2>2 DEF Project, IsFeedback, FeedbackTypes
<1>2. /\ Exchanges \in Seq(Pair) /\ last \in 1..last /\ last \in Nat
      /\ Exchanges[last] \in Pair /\ DOMAIN Exchanges = 1..last
  BY ExchangesType DEF Pairs
<1>3. joined.turn = Exchanges[last].turn /\ Len(joined.feedback) = Len(Exchanges[last].feedback) + 1
  BY <1>2 DEF Pair
<1>4. Len(Exchanges') = last
  BY <1>1, <1>2
<1>5. Exchanges'[last] = joined /\ \A k \in 1..(last - 1) : Exchanges'[k] = Exchanges[k]
  <2>. HIDE DEF joined, last
  <2>. QED
    BY <1>1, <1>2
<1>. QED
  BY <1>3, <1>4, <1>5

\* An event that is neither an answer nor feedback changes no exchange.
LEMMA OthersProject ==
  ASSUME TypeOK, NEW type \in EventTypes \ ({"model_turn"} \cup FeedbackTypes),
         NEW note \in Notes, Emit(type, note)
  PROVE  Exchanges' = Exchanges
<1>1. Exchanges' = Project(Exchanges, [type |-> type, step |-> step, note |-> note])
  BY EmitProject
<1>. QED
  BY <1>1 DEF Project, IsFeedback

\* A statement that logs nothing changes no exchange.
LEMMA QuietProject == ASSUME UNCHANGED log PROVE Exchanges' = Exchanges
  BY DEF Exchanges

\* The types before and after a statement.
LEMMA TypesNow == ASSUME IInv, Proceed PROVE TypeOK /\ TypeOK' /\ step \in Nat
<1>1. TypeOK
  BY DEF IInv
<1>2. TypeOK'
  BY TypeStep DEF LoopStep
<1>3. step \in Nat
  BY <1>1, BudgetsAssumption DEF TypeOK
<1>. QED
  BY <1>1, <1>2, <1>3

\* Where the statements of a turn lead that neither log the answer, nor feed
\* anything back, nor end the turn: to statements of the same group.
Sideways ==
    \/ AddTask \/ BudgetExhausted \/ BuildContext
    \/ CallFails \/ Backoff \/ CallRejected \/ CallAnswered
    \/ FatalError \/ FatalErrorObject \/ AddStep \/ ParseErrorObject \/ TaskFinished
    \/ AddCommand \/ AddFile \/ StartCommand \/ CommandEnds \/ CommandExecuted
    \/ AddObservation \/ CommandFailed \/ CommandErrorObject
LEMMA SidewaysStep ==
  ASSUME IInv, Sideways
  PROVE  /\ Exchanges' = Exchanges /\ step' = step
         /\ pc' \in BeforeTurn => pc \in BeforeTurn
         /\ pc' \in AfterTurn => pc \in AfterTurn
         /\ pc' \in AfterFeedback => pc \in AfterFeedback
         /\ pc' = "record" => pc \in AfterFeedback \/ (pc \in AfterTurn /\ Finishing')
<1>1. Exchanges' = Exchanges
  <2>1. CASE UNCHANGED log
    BY <2>1, QuietProject
  <2>2. CASE ~UNCHANGED log
    <3>1. \E type \in EventTypes \ ({"model_turn"} \cup FeedbackTypes), note \in Notes :
            Emit(type, note)
      BY <2>2 DEF IInv, TypeOK, Sideways, AddTask, BudgetExhausted, BuildContext, CallFails,
         Backoff, CallRejected, CallAnswered, FatalError, FatalErrorObject, AddStep,
         ParseErrorObject, TaskFinished, AddCommand, AddFile, StartCommand, CommandEnds,
         CommandExecuted, AddObservation, CommandFailed, CommandErrorObject, EventTypes,
         FeedbackTypes, Notes, Outcomes
    <3>. QED
      BY <3>1, OthersProject DEF IInv
  <2>. QED
    BY <2>1, <2>2
<1>2. CASE AddStep
  BY <1>1, <1>2, BranchType DEF AddStep, Goto, BeforeTurn, AfterTurn, AfterFeedback
<1>3. CASE TaskFinished
  BY <1>1, <1>3 DEF TaskFinished, Goto, BeforeTurn, AfterTurn, AfterFeedback, IInv,
     BranchTaken, Finishing
<1>4. CASE ~AddStep /\ ~TaskFinished
  BY <1>1, <1>4 DEF Sideways, AddTask, BudgetExhausted, BuildContext, CallFails, Backoff,
     CallRejected, CallAnswered, FatalError, FatalErrorObject, ParseErrorObject, AddCommand,
     AddFile, StartCommand, CommandEnds, CommandExecuted, AddObservation, CommandFailed,
     CommandErrorObject, Goto, BeforeTurn, AfterTurn, AfterFeedback
<1>. QED
  BY <1>2, <1>3, <1>4

\* Every statement keeps the exchanges one for each answered turn, in order.
LEMMA TurnsStep == IInv /\ TurnsProjected /\ Proceed => TurnsProjected'
<1>. SUFFICES ASSUME IInv, TurnsProjected, Proceed  PROVE TurnsProjected'
  OBVIOUS
<1>. DEFINE n == Len(Exchanges)
<1>a. TypeOK /\ TypeOK' /\ step \in Nat /\ n \in Nat
  BY TypesNow, ExchangesType
<1>b. /\ pc \in BeforeTurn => n = step
      /\ pc \in AfterTurn \cup AfterFeedback \cup {"record"} => n = step + 1
      /\ \A k \in 1..n : Exchanges[k].turn = k - 1
      /\ \A k \in 1..step : Len(Exchanges[k].feedback) = 1
      /\ pc \in AfterTurn => Exchanges[step + 1].feedback = <<>>
      /\ pc \in AfterFeedback => Len(Exchanges[step + 1].feedback) = 1
      /\ pc = "record" /\ ~Finishing => Len(Exchanges[step + 1].feedback) = 1
  BY <1>a, ExchangesType DEF TurnsProjected
<1>c. SUFFICES
        /\ pc' \in BeforeTurn => n' = step'
        /\ pc' \in AfterTurn \cup AfterFeedback \cup {"record"} => n' = step' + 1
        /\ \A k \in 1..n' : Exchanges'[k].turn = k - 1
        /\ \A k \in 1..step' : Len(Exchanges'[k].feedback) = 1
        /\ pc' \in AfterTurn => Exchanges'[step' + 1].feedback = <<>>
        /\ pc' \in AfterFeedback => Len(Exchanges'[step' + 1].feedback) = 1
        /\ pc' = "record" /\ ~Finishing' => Len(Exchanges'[step' + 1].feedback) = 1
  <2>1. DOMAIN Exchanges' = 1..n'
    BY <1>a, ExchangesType
  <2>. QED
    BY <2>1 DEF TurnsProjected
<1>1. CASE Sideways
  BY <1>1, <1>a, <1>b, SidewaysStep DEF AfterTurn, AfterFeedback
<1>2. CASE ModelTurn
  <2>1. /\ pc = "turn" /\ pc' = "step" /\ step' = step
        /\ \E note \in Notes : Emit("model_turn", note)
    BY <1>2 DEF ModelTurn, Goto, Notes
  <2>2. /\ n' = n + 1 /\ \A k \in 1..n : Exchanges'[k] = Exchanges[k]
        /\ Exchanges'[n + 1] = [turn |-> step, feedback |-> <<>>]
    BY <1>a, <2>1, TurnOpened
  <2>3. n = step
    BY <1>b, <2>1 DEF BeforeTurn
  <2>4. \A k \in 1..n' : Exchanges'[k].turn = k - 1
    BY <1>a, <1>b, <2>2, <2>3
  <2>5. pc' \in AfterTurn /\ pc' \notin BeforeTurn \cup AfterFeedback \cup {"record"}
    BY <2>1 DEF BeforeTurn, AfterTurn, AfterFeedback
  <2>. QED
    BY <1>a, <1>b, <2>1, <2>2, <2>3, <2>4, <2>5
<1>3. CASE ParseFailed \/ IdleTurn \/ OutputObserved
  <2>1. /\ pc \in AfterTurn /\ step' = step
        /\ pc' \in AfterFeedback \cup {"record"}
        /\ \E type \in FeedbackTypes, note \in Notes : Emit(type, note)
    BY <1>3 DEF ParseFailed, IdleTurn, OutputObserved, Goto, AfterTurn, AfterFeedback,
       FeedbackTypes, Notes, IInv, TypeOK
  <2>2. n = step + 1 /\ n # 0
    BY <1>a, <1>b, <2>1
  <2>3. /\ n' = n /\ \A k \in 1..(n - 1) : Exchanges'[k] = Exchanges[k]
        /\ Exchanges'[n].turn = Exchanges[n].turn
        /\ Len(Exchanges'[n].feedback) = Len(Exchanges[n].feedback) + 1
    BY <1>a, <2>1, <2>2, FeedbackJoins
  <2>4. Len(Exchanges'[n].feedback) = 1
    BY <1>b, <2>1, <2>2, <2>3
  <2>5. ASSUME NEW k \in 1..n'  PROVE Exchanges'[k].turn = k - 1
    <3>1. CASE k = n
      BY <1>a, <1>b, <2>2, <2>3, <3>1
    <3>2. CASE k # n
      <4>1. k \in 1..n /\ k \in 1..(n - 1)
        BY <1>a, <2>3, <3>2
      <4>. QED
        BY <1>b, <2>3, <4>1
    <3>. QED
      BY <3>1, <3>2
  <2>6. pc' \notin BeforeTurn \cup AfterTurn
    BY <2>1 DEF BeforeTurn, AfterTurn, AfterFeedback
  <2>. QED
    BY <1>a, <1>b, <2>1, <2>2, <2>3, <2>4, <2>5, <2>6
<1>4. CASE RecordTurn
  <2>1. /\ pc = "record" /\ Exchanges' = Exchanges
        /\ Finishing => step' = step /\ pc' = "returned"
        /\ ~Finishing => step' = step + 1 /\ pc' = "top"
    BY <1>4, QuietProject DEF RecordTurn, Goto
  <2>2. pc' \notin AfterTurn \cup AfterFeedback \cup {"record"} /\ (pc' \in BeforeTurn => ~Finishing)
    BY <2>1 DEF BeforeTurn, AfterTurn, AfterFeedback
  <2>. QED
    BY <1>a, <1>b, <2>1, <2>2
<1>. QED
  BY <1>1, <1>2, <1>3, <1>4 DEF Proceed, Sideways

-----------------------------------------------------------------------------
(* Commands and observations, turn by turn                                   *)

\* A command's turn is the number of the step it was issued in, less one.
LEMMA TurnOfCommand ==
  ASSUME IInv, GraphInv
  PROVE  \A c \in DOMAIN commandObjs :
           /\ commandObjs[c].step \in Nat /\ TurnOf(c) = commandObjs[c].step - 1
           /\ TurnOf(c) \in Nat /\ TurnOf(c) < Len(stepObjs)
<1>1. /\ stepObjs \in Seq([index : Nat, follows : Nat])
      /\ commandObjs \in Seq([step : Nat, text : Commands])
  BY DEF IInv, TypeOK
<1>2. /\ \A k \in DOMAIN stepObjs : stepObjs[k].index = k - 1
      /\ \A c \in DOMAIN commandObjs : commandObjs[c].step \in DOMAIN stepObjs
  BY DEF GraphInv, StepsChained, CommandsIssued
<1>. QED
  BY <1>1, <1>2 DEF TurnOf

\* An observation's command is one of the graph's.
LEMMA CommandObserved ==
  ASSUME IInv, GraphInv
  PROVE  \A o \in DOMAIN observationObjs : observationObjs[o].command \in DOMAIN commandObjs
  BY DEF GraphInv, ObservationsTold

\* What the graph says of commands and observations stays said.
LEMMA ObjectsKept ==
  ASSUME IInv, GraphInv, Proceed
  PROVE  /\ \A i \in DOMAIN log : i \in DOMAIN log' /\ log'[i] = log[i]
         /\ \A c \in DOMAIN commandObjs :
              /\ c \in DOMAIN commandObjs' /\ commandObjs'[c] = commandObjs[c]
              /\ stepObjs'[commandObjs'[c].step].index = TurnOf(c)
         /\ \A o \in DOMAIN observationObjs :
              o \in DOMAIN observationObjs' /\ observationObjs'[o] = observationObjs[o]
<1>1. TypeOK /\ LoopStep
  BY DEF IInv, LoopStep
<1>2. /\ \A i \in DOMAIN log : i \in DOMAIN log' /\ log'[i] = log[i]
      /\ \A c \in DOMAIN commandObjs : c \in DOMAIN commandObjs' /\ commandObjs'[c] = commandObjs[c]
      /\ \A k \in DOMAIN stepObjs : stepObjs'[k] = stepObjs[k]
  BY <1>1, GraphGrows
<1>3. \A c \in DOMAIN commandObjs : commandObjs[c].step \in DOMAIN stepObjs
  BY DEF GraphInv, CommandsIssued
<1>4. \A o \in DOMAIN observationObjs :
        o \in DOMAIN observationObjs' /\ observationObjs'[o] = observationObjs[o]
  <2>1. observationObjs \in Seq([command : Nat, outcome : Outcomes])
    BY <1>1 DEF TypeOK
  <2>2. CASE AddObservation
    BY <2>1, <2>2 DEF AddObservation
  <2>3. CASE ~AddObservation
    <3>1. UNCHANGED observationObjs
      BY <2>3 DEF Proceed, AddTask, BudgetExhausted, BuildContext, CallFails, Backoff,
         CallRejected, CallAnswered, FatalError, FatalErrorObject, ModelTurn, AddStep,
         ParseFailed, ParseErrorObject, TaskFinished, IdleTurn, AddCommand, AddFile,
         StartCommand, CommandEnds, CommandExecuted, OutputObserved, CommandFailed,
         CommandErrorObject, RecordTurn, graphVars
    <3>. QED
      BY <3>1
  <2>. QED
    BY <2>2, <2>3
<1>5. ASSUME NEW c \in DOMAIN commandObjs
      PROVE  stepObjs'[commandObjs'[c].step].index = TurnOf(c)
  BY <1>2, <1>3 DEF TurnOf
<1>. QED
  BY <1>2, <1>4, <1>5

\* Every statement keeps a turn's command the last one.
LEMMA CommandOfTurnStep ==
  IInv /\ GraphInv /\ CommandOfTurn /\ Proceed => CommandOfTurn'
<1>. SUFFICES ASSUME IInv, GraphInv, CommandOfTurn, Proceed  PROVE CommandOfTurn'
  OBVIOUS
<1>. DEFINE Without == {"reject", "rejectobj", "finish", "idle", "issue"}
<1>a. /\ stepObjs \in Seq([index : Nat, follows : Nat])
      /\ commandObjs \in Seq([step : Nat, text : Commands])
      /\ observationObjs \in Seq([command : Nat, outcome : Outcomes])
      /\ outcome \in Outcomes
  BY DEF IInv, TypeOK
<1>b. /\ pc \in Without => \A c \in DOMAIN commandObjs : commandObjs[c].step # Len(stepObjs)
      /\ pc \in {"complain", "complainobj"} =>
           /\ commandObjs # <<>> /\ commandObjs[Len(commandObjs)].step = Len(stepObjs)
           /\ observationObjs # <<>>
           /\ observationObjs[Len(observationObjs)].command = Len(commandObjs)
  BY DEF CommandOfTurn
<1>1. CASE AddStep
  <2>1. /\ pc' \in Without /\ UNCHANGED commandObjs
        /\ stepObjs' = Append(stepObjs, [index |-> step, follows |-> previousStep])
    BY <1>1, BranchType DEF AddStep, Goto
  <2>2. Len(stepObjs') = Len(stepObjs) + 1
    BY <1>a, <2>1
  <2>3. \A c \in DOMAIN commandObjs : commandObjs[c].step \in 1..Len(stepObjs)
    BY <1>a DEF GraphInv, CommandsIssued
  <2>. QED
    BY <1>a, <2>1, <2>2, <2>3 DEF CommandOfTurn
<1>2. CASE AddObservation
  <2>1. /\ pc = "observation" /\ pc' \in {"record", "complain"}
        /\ UNCHANGED <<stepObjs, commandObjs>>
        /\ observationObjs' =
             Append(observationObjs, [command |-> Len(commandObjs), outcome |-> outcome])
    BY <1>2 DEF AddObservation, Goto
  <2>2. commandObjs # <<>> /\ commandObjs[Len(commandObjs)].step = Len(stepObjs)
    BY <2>1 DEF GraphInv, CommandsIssued
  <2>3. /\ Len(observationObjs') = Len(observationObjs) + 1 /\ observationObjs' # <<>>
        /\ observationObjs'[Len(observationObjs) + 1].command = Len(commandObjs)
    BY <1>a, <2>1
  <2>. QED
    BY <2>1, <2>2, <2>3 DEF CommandOfTurn
<1>3. CASE ~AddStep /\ ~AddObservation
  <2>1. /\ UNCHANGED <<stepObjs, observationObjs>>
        /\ UNCHANGED commandObjs \/ pc' = "files"
        /\ pc' \in Without => pc \in Without
        /\ pc' \in {"complain", "complainobj"} => pc \in {"complain", "complainobj"}
    BY <1>3 DEF Proceed, AddTask, BudgetExhausted, BuildContext, CallFails, Backoff,
       CallRejected, CallAnswered, FatalError, FatalErrorObject, ModelTurn, ParseFailed,
       ParseErrorObject, TaskFinished, IdleTurn, AddCommand, AddFile, StartCommand,
       CommandEnds, CommandExecuted, OutputObserved, CommandFailed, CommandErrorObject,
       RecordTurn, Goto, graphVars
  <2>. QED
    BY <1>b, <2>1 DEF CommandOfTurn
<1>. QED
  BY <1>1, <1>2, <1>3

\* Every statement keeps what the log says of the turns of commands.
LEMMA CommandsObservedStep ==
  IInv /\ GraphInv /\ CommandOfTurn /\ CommandsObserved /\ Proceed => CommandsObserved'
<1>. SUFFICES ASSUME IInv, GraphInv, CommandOfTurn, CommandsObserved, Proceed,
                     NEW c \in DOMAIN commandObjs',
                     stepObjs'[commandObjs'[c].step].index < step' \/ pc' \in Observed
              PROVE  EventsIn(log', {"output_observed"}, stepObjs'[commandObjs'[c].step].index) # {}
  BY DEF CommandsObserved, TurnOf, EventsOf
<1>a. /\ TypeOK /\ step \in Nat
      /\ commandObjs \in Seq([step : Nat, text : Commands])
  BY BudgetsAssumption DEF IInv, TypeOK
<1>1. c \in DOMAIN commandObjs
  <2>1. CASE AddCommand
    <3>1. /\ pc = "issue" /\ pc' = "files" /\ UNCHANGED <<stepObjs, step>>
          /\ commandObjs' = Append(commandObjs, [step |-> previousStep, text |-> reply.command])
      BY <2>1 DEF AddCommand, Goto
    <3>2. previousStep = step + 1 /\ Len(stepObjs) = step + 1
      BY <3>1 DEF GraphInv, StepsChained, AfterTurn
    <3>3. stepObjs[step + 1].index = step
      <4>1. step + 1 \in DOMAIN stepObjs /\ (step + 1) - 1 = step
        <5>1. stepObjs \in Seq([index : Nat, follows : Nat])
          BY <1>a DEF TypeOK
        <5>. QED
          BY <1>a, <3>2, <5>1
      <4>. QED
        BY <4>1 DEF GraphInv, StepsChained
    <3>4. c = Len(commandObjs) + 1 => commandObjs'[c].step = step + 1
      BY <1>a, <3>1, <3>2
    <3>5. c # Len(commandObjs) + 1
      BY <1>a, <3>1, <3>3, <3>4 DEF Observed
    <3>. QED
      BY <1>a, <3>1, <3>5
  <2>2. CASE ~AddCommand
    <3>1. UNCHANGED commandObjs
      BY <2>2 DEF Proceed, AddTask, BudgetExhausted, BuildContext, CallFails, Backoff,
         CallRejected, CallAnswered, FatalError, FatalErrorObject, ModelTurn, AddStep,
         ParseFailed, ParseErrorObject, TaskFinished, IdleTurn, AddFile, StartCommand,
         CommandEnds, CommandExecuted, OutputObserved, AddObservation, CommandFailed,
         CommandErrorObject, RecordTurn, graphVars
    <3>. QED
      BY <3>1
  <2>. QED
    BY <2>1, <2>2
<1>. DEFINE t == TurnOf(c)
<1>2. /\ stepObjs'[commandObjs'[c].step].index = t
      /\ t = commandObjs[c].step - 1 /\ t \in Nat /\ t < Len(stepObjs)
      /\ \A i \in DOMAIN log : i \in DOMAIN log' /\ log'[i] = log[i]
  BY <1>1, ObjectsKept, TurnOfCommand
<1>3. t < step \/ pc \in Observed => EventsIn(log, {"output_observed"}, t) # {}
  BY <1>1 DEF CommandsObserved, EventsOf
<1>. HIDE DEF t
<1>4. EventsIn(log, {"output_observed"}, t) # {} => EventsIn(log', {"output_observed"}, t) # {}
  BY <1>2 DEF EventsIn
<1>5. t < step' \/ pc' \in Observed
  BY <1>2
<1>6. CASE OutputObserved
  <2>1. /\ pc = "observe" /\ step' = step /\ Emit("output_observed", outcome)
        /\ "output_observed" \in EventTypes /\ outcome \in Notes
    BY <1>6, <1>a DEF OutputObserved, EventTypes, TypeOK, Notes
  <2>2. Len(log) + 1 \in EventsIn(log', {"output_observed"}, step)
    <3>1. EventsIn(log', {"output_observed"}, step) =
            EventsIn(log, {"output_observed"}, step) \cup {Len(log) + 1}
      BY <1>a, <2>1, EmitEvents
    <3>. QED
      BY <3>1
  <2>3. Len(stepObjs) = step + 1
    BY <2>1 DEF GraphInv, StepsChained, AfterTurn
  <2>4. t = step \/ t < step
    BY <1>a, <1>2, <2>3
  <2>. QED
    BY <1>2, <1>3, <1>4, <2>2, <2>4
<1>7. CASE RecordTurn
  BY <1>2, <1>3, <1>4, <1>7 DEF RecordTurn, Observed
<1>8. CASE ParseErrorObject \/ TaskFinished \/ IdleTurn
  <2>1. pc \in {"rejectobj", "finish", "idle"} /\ step' = step
    BY <1>8 DEF ParseErrorObject, TaskFinished, IdleTurn
  <2>2. commandObjs[c].step # Len(stepObjs) /\ Len(stepObjs) = step + 1
    BY <1>1, <2>1 DEF CommandOfTurn, GraphInv, StepsChained, AfterTurn, AfterFeedback
  <2>3. commandObjs[c].step \in Nat
    BY <1>1, TurnOfCommand
  <2>4. t < step
    BY <1>a, <1>2, <2>2, <2>3
  <2>. QED
    BY <1>2, <1>3, <1>4, <2>4
<1>9. CASE ~OutputObserved /\ ~RecordTurn /\ ~ParseErrorObject /\ ~TaskFinished /\ ~IdleTurn
  <2>1. step' = step /\ (pc' \in Observed => pc \in Observed)
    BY <1>9, BranchType DEF Proceed, AddTask, BudgetExhausted, BuildContext, CallFails,
       Backoff, CallRejected, CallAnswered, FatalError, FatalErrorObject, ModelTurn, AddStep,
       ParseFailed, AddCommand, AddFile, StartCommand, CommandEnds, CommandExecuted,
       AddObservation, CommandFailed, CommandErrorObject, Goto, Observed
  <2>. QED
    BY <1>2, <1>3, <1>4, <1>5, <2>1
<1>. QED
  BY <1>6, <1>7, <1>8, <1>9

\* All positions of a sequence with one more element but the last are its own.
LEMMA OneMore ==
  ASSUME NEW S, NEW s \in Seq(S), NEW t \in Seq(S), Len(t) = Len(s) + 1,
         \A j \in 1..Len(s) : t[j] = s[j], NEW i \in DOMAIN t, i # Len(s) + 1
  PROVE  i \in DOMAIN s /\ t[i] = s[i]
<1>1. DOMAIN t = 1..(Len(s) + 1) /\ DOMAIN s = 1..Len(s) /\ Len(s) \in Nat
  OBVIOUS
<1>. QED
  BY <1>1

\* Every statement keeps what was observed in the graph.
LEMMA ObservationsKeptStep ==
  IInv /\ GraphInv /\ ObservationsKept /\ Proceed => ObservationsKept'
<1>. SUFFICES ASSUME IInv, GraphInv, ObservationsKept, Proceed,
                     NEW i \in DOMAIN log', log'[i].type = "output_observed",
                     pc' # "observation" \/ log'[i].step < step'
              PROVE  \E o \in DOMAIN observationObjs' :
                       stepObjs'[commandObjs'[observationObjs'[o].command].step].index
                         = log'[i].step
  BY DEF ObservationsKept, TurnOf
<1>a. /\ TypeOK /\ step \in Nat /\ log \in Seq(Events)
      /\ commandObjs \in Seq([step : Nat, text : Commands])
      /\ observationObjs \in Seq([command : Nat, outcome : Outcomes])
      /\ stepObjs \in Seq([index : Nat, follows : Nat])
      /\ outcome \in Outcomes
  BY BudgetsAssumption DEF IInv, TypeOK
<1>1. i \in DOMAIN log /\ log'[i] = log[i]
  <2>1. CASE OutputObserved
    <3>1. /\ pc' = "observation" /\ step' = step /\ Emit("output_observed", outcome)
          /\ "output_observed" \in EventTypes /\ outcome \in Notes
      BY <1>a, <2>1 DEF OutputObserved, EventTypes, Notes, Goto
    <3>2. /\ Len(log') = Len(log) + 1 /\ \A j \in 1..Len(log) : log'[j] = log[j]
          /\ log \in Seq(Events) /\ log' \in Seq(Events)
          /\ log'[Len(log) + 1] =
               [type |-> "output_observed", step |-> step, note |-> outcome]
      BY <1>a, <3>1, EmitEvents
    <3>3. i # Len(log) + 1
      BY <1>a, <3>1, <3>2
    <3>. QED
      BY <3>2, <3>3, OneMore
  <2>2. CASE ~OutputObserved /\ ~UNCHANGED log
    <3>1. PICK type \in EventTypes \ {"output_observed"}, note \in Notes : Emit(type, note)
      BY <1>a, <2>2 DEF Proceed, AddTask, BudgetExhausted, BuildContext, CallFails, Backoff,
         CallRejected, CallAnswered, FatalError, FatalErrorObject, ModelTurn, AddStep,
         ParseFailed, ParseErrorObject, TaskFinished, IdleTurn, AddCommand, AddFile,
         StartCommand, CommandEnds, CommandExecuted, AddObservation, CommandFailed,
         CommandErrorObject, RecordTurn, EventTypes, Notes
    <3>2. /\ Len(log') = Len(log) + 1 /\ \A j \in 1..Len(log) : log'[j] = log[j]
          /\ log \in Seq(Events) /\ log' \in Seq(Events)
          /\ log'[Len(log) + 1] = [type |-> type, step |-> step, note |-> note]
      BY <1>a, <3>1, EmitEvents
    <3>3. i # Len(log) + 1
      BY <3>1, <3>2
    <3>. QED
      BY <3>2, <3>3, OneMore
  <2>3. CASE UNCHANGED log
    BY <2>3
  <2>. QED
    BY <2>1, <2>2, <2>3
<1>2. CASE pc # "observation" \/ log[i].step < step
  <2>1. PICK o \in DOMAIN observationObjs : TurnOf(observationObjs[o].command) = log[i].step
    BY <1>1, <1>2 DEF ObservationsKept
  <2>2. observationObjs[o].command \in DOMAIN commandObjs
    BY CommandObserved
  <2>. QED
    BY <1>1, <2>1, <2>2, ObjectsKept
<1>3. CASE pc = "observation" /\ ~(log[i].step < step)
  <2>1. log[i].step = step
    <3>1. log[i].step <= step /\ log[i].step \in Nat
      <4>1. log[i] \in Events
        BY <1>a, <1>1
      <4>2. log[i].step \in Nat
        BY <4>1 DEF Events
      <4>. QED
        BY <1>1, <4>2 DEF IInv, StepsBounded
    <3>. QED
      BY <1>a, <1>3, <3>1
  <2>2. AddObservation
    BY <1>3 DEF Proceed, AddTask, BudgetExhausted, BuildContext, CallFails, Backoff,
       CallRejected, CallAnswered, FatalError, FatalErrorObject, ModelTurn, AddStep,
       ParseFailed, ParseErrorObject, TaskFinished, IdleTurn, AddCommand, AddFile,
       StartCommand, CommandEnds, CommandExecuted, OutputObserved, CommandFailed,
       CommandErrorObject, RecordTurn
  <2>3. /\ UNCHANGED <<stepObjs, commandObjs>>
        /\ observationObjs' =
             Append(observationObjs, [command |-> Len(commandObjs), outcome |-> outcome])
    BY <2>2 DEF AddObservation
  <2>. DEFINE o == Len(observationObjs) + 1
  <2>4. o \in DOMAIN observationObjs' /\ observationObjs'[o].command = Len(commandObjs)
    BY <1>a, <2>3
  <2>5. /\ Len(commandObjs) \in DOMAIN commandObjs
        /\ commandObjs[Len(commandObjs)].step = step + 1
    <3>1. commandObjs # <<>> /\ commandObjs[Len(commandObjs)].step = Len(stepObjs)
      BY <1>3 DEF GraphInv, CommandsIssued
    <3>2. Len(stepObjs) = step + 1
      BY <1>3 DEF GraphInv, StepsChained, AfterFeedback
    <3>. QED
      BY <1>a, <3>1, <3>2
  <2>6. TurnOf(Len(commandObjs)) = step
    BY <1>a, <2>5, TurnOfCommand
  <2>7. stepObjs'[commandObjs'[observationObjs'[o].command].step].index = step
    BY <2>3, <2>4, <2>6 DEF TurnOf
  <2>. QED
    BY <1>1, <2>1, <2>4, <2>7
<1>. QED
  BY <1>2, <1>3

-----------------------------------------------------------------------------
(* Errors                                                                    *)

\* Which events report an error, and what one more event makes of them.
Reports(type, note) ==
    type = "error_raised" \/ (type \in FeedbackTypes /\ note = "parse_failed")
LEMMA ReportLogged ==
  ASSUME TypeOK, NEW type \in EventTypes, NEW note \in Notes, Emit(type, note)
  PROVE  /\ Reports(type, note) => ErrorReports' = ErrorReports \cup {Len(log) + 1}
         /\ ~Reports(type, note) => ErrorReports' = ErrorReports
<1>1. /\ log \in Seq(Events) /\ log' \in Seq(Events) /\ Len(log') = Len(log) + 1
      /\ \A i \in 1..Len(log) : log'[i] = log[i]
      /\ log'[Len(log) + 1] = [type |-> type, step |-> step, note |-> note]
  BY EmitEvents
<1>2. /\ DOMAIN log' = DOMAIN log \cup {Len(log) + 1}
      /\ \A i \in DOMAIN log : log'[i] = log[i]
      /\ log'[Len(log) + 1].type = type /\ log'[Len(log) + 1].note = note
  BY <1>1
<1>. QED
  BY <1>2 DEF ErrorReports, Reports

\* Every statement keeps the last error object the error reported last.
LEMMA ErrorStep ==
  IInv /\ GraphInv /\ CommandOfTurn /\ ErrorTracked /\ Proceed /\ pc' \notin Final
    => ErrorTracked'
<1>. SUFFICES ASSUME IInv, GraphInv, CommandOfTurn, ErrorTracked, Proceed, pc' \notin Final
              PROVE  ErrorTracked'
  OBVIOUS
<1>. DEFINE Between == {"rejectobj", "complainobj", "fatalobj"}
<1>a. /\ TypeOK /\ step \in Nat /\ log \in Seq(Events)
      /\ observationObjs \in Seq([command : Nat, outcome : Outcomes])
      /\ errorObjs \in Seq([kind : {"LLMError", "ParseError", "ExecError", "NonZeroExit"},
                            observation : Nat])
      /\ stepObjs \in Seq([index : Nat, follows : Nat])
      /\ commandObjs \in Seq([step : Nat, text : Commands])
      /\ outcome \in Outcomes
  BY BudgetsAssumption DEF IInv, TypeOK
<1>b. /\ pc \notin Between =>
           /\ ErrorReports = {} <=> errorObjs = <<>>
           /\ \A i \in DOMAIN log : LastReport(i) =>
                IF log[i].type = "error_raised"
                  THEN /\ errorObjs[Len(errorObjs)].observation # 0
                       /\ TurnOf(observationObjs[errorObjs[Len(errorObjs)].observation].command)
                            = log[i].step
                  ELSE errorObjs[Len(errorObjs)].observation = 0
      /\ pc \in {"rejectobj", "complainobj"} =>
           /\ LastReport(Len(log)) /\ log[Len(log)].step = step
           /\ log[Len(log)].type = "error_raised" <=> pc = "complainobj"
  BY DEF ErrorTracked
<1>1. CASE ParseFailed \/ CommandFailed
  <2>1. /\ pc' \in {"rejectobj", "complainobj"} /\ step' = step
        /\ \E type \in EventTypes, note \in Notes :
             Emit(type, note) /\ Reports(type, note) /\ (type = "error_raised" <=> pc' = "complainobj")
    BY <1>1 DEF ParseFailed, CommandFailed, Goto, Reports, EventTypes, Notes, FeedbackTypes
  <2>2. PICK type \in EventTypes, note \in Notes :
          Emit(type, note) /\ Reports(type, note) /\ (type = "error_raised" <=> pc' = "complainobj")
    BY <2>1
  <2>3. /\ Len(log') = Len(log) + 1
        /\ log'[Len(log) + 1] = [type |-> type, step |-> step, note |-> note]
    BY <1>a, <2>2, EmitEvents
  <2>4. ErrorReports' = ErrorReports \cup {Len(log) + 1}
    BY <1>a, <2>2, ReportLogged
  <2>5. LastReport(Len(log))'
    <3>1. \A j \in ErrorReports : j \in 1..Len(log)
      BY <1>a DEF ErrorReports
    <3>. QED
      BY <1>a, <2>3, <2>4, <3>1 DEF LastReport
  <2>. QED
    BY <1>a, <2>1, <2>2, <2>3, <2>5 DEF ErrorTracked
<1>2. CASE ParseErrorObject \/ CommandErrorObject
  <2>1. /\ pc \in {"rejectobj", "complainobj"} /\ pc' = "record"
        /\ UNCHANGED <<log, stepObjs, commandObjs, observationObjs>>
        /\ \E kind \in {"ParseError", "ExecError", "NonZeroExit"} : errorObjs' =
             Append(errorObjs, [kind |-> kind,
                observation |-> IF pc = "rejectobj" THEN 0 ELSE Len(observationObjs)])
    BY <1>2 DEF ParseErrorObject, CommandErrorObject, Goto
  <2>2. /\ errorObjs' # <<>>
        /\ errorObjs'[Len(errorObjs')].observation =
             IF pc = "rejectobj" THEN 0 ELSE Len(observationObjs)
    BY <1>a, <2>1
  <2>3. /\ ErrorReports' = ErrorReports /\ Len(log) \in ErrorReports
        /\ \A i \in DOMAIN log : LastReport(i)' => i = Len(log)
    <3>1. ErrorReports' = ErrorReports
      BY <2>1 DEF ErrorReports
    <3>2. Len(log) \in ErrorReports /\ \A j \in ErrorReports : j <= Len(log)
      BY <1>b, <2>1 DEF LastReport
    <3>3. \A i \in DOMAIN log : i \in Nat
      BY <1>a
    <3>. QED
      BY <1>a, <3>1, <3>2, <3>3 DEF LastReport
  <2>4. CASE pc = "rejectobj"
    <3>1. log[Len(log)].type # "error_raised" /\ errorObjs'[Len(errorObjs')].observation = 0
      BY <1>b, <2>2, <2>4
    <3>. QED
      BY <2>1, <2>2, <2>3, <3>1 DEF ErrorTracked
  <2>5. CASE pc = "complainobj"
    <3>1. /\ commandObjs # <<>> /\ commandObjs[Len(commandObjs)].step = Len(stepObjs)
          /\ observationObjs # <<>>
          /\ observationObjs[Len(observationObjs)].command = Len(commandObjs)
      BY <2>5 DEF CommandOfTurn
    <3>2. Len(stepObjs) = step + 1
      BY <2>5 DEF GraphInv, StepsChained, AfterFeedback
    <3>3. TurnOf(Len(commandObjs)) = step
      <4>1. Len(commandObjs) \in DOMAIN commandObjs
        BY <1>a, <3>1
      <4>. QED
        BY <1>a, <3>1, <3>2, <4>1, TurnOfCommand
    <3>4. log[Len(log)].step = step /\ log[Len(log)].type = "error_raised"
      BY <1>b, <2>5
    <3>5. /\ errorObjs'[Len(errorObjs')].observation = Len(observationObjs)
          /\ Len(observationObjs) # 0
      BY <1>a, <2>2, <2>5, <3>1
    <3>6. stepObjs'[commandObjs'[observationObjs'[Len(observationObjs)].command].step].index = step
      BY <2>1, <3>1, <3>3 DEF TurnOf
    <3>. QED
      BY <2>1, <2>2, <2>3, <3>4, <3>5, <3>6 DEF ErrorTracked, TurnOf
  <2>. QED
    BY <2>1, <2>4, <2>5
<1>3. CASE FatalError
  BY <1>3 DEF FatalError, Goto, ErrorTracked
<1>4. CASE /\ ~ParseFailed /\ ~CommandFailed /\ ~ParseErrorObject /\ ~CommandErrorObject
           /\ ~FatalError
  <2>1. /\ pc \notin Between /\ pc' \notin Between /\ UNCHANGED errorObjs
        /\ UNCHANGED log \/ \E type \in EventTypes, note \in Notes :
                              Emit(type, note) /\ ~Reports(type, note)
    BY <1>4, <1>a, BranchType DEF Proceed, AddTask, BudgetExhausted, BuildContext, CallFails,
       Backoff, CallRejected, CallAnswered, FatalErrorObject, ModelTurn, AddStep,
       TaskFinished, IdleTurn, AddCommand, AddFile, StartCommand, CommandEnds,
       CommandExecuted, OutputObserved, AddObservation, RecordTurn, Goto, Final, graphVars,
       Reports, EventTypes, Notes, FeedbackTypes, Outcomes
  <2>2. ErrorReports' = ErrorReports
    <3>1. CASE UNCHANGED log
      BY <3>1 DEF ErrorReports
    <3>. QED
      BY <1>a, <2>1, <3>1, ReportLogged
  <2>3. \A i \in ErrorReports : i \in DOMAIN log /\ log'[i] = log[i]
    BY ObjectsKept DEF ErrorReports
  <2>4. ASSUME NEW i, LastReport(i), log[i].type = "error_raised"
        PROVE  LET from == errorObjs[Len(errorObjs)].observation
               IN  /\ from # 0
                   /\ stepObjs'[commandObjs'[observationObjs'[from].command].step].index
                        = log[i].step
    <3>. DEFINE from == errorObjs[Len(errorObjs)].observation
    <3>1. i \in ErrorReports /\ i \in DOMAIN log
      BY <2>4 DEF LastReport, ErrorReports
    <3>2. from # 0 /\ TurnOf(observationObjs[from].command) = log[i].step /\ errorObjs # <<>>
      BY <1>b, <2>1, <2>4, <3>1
    <3>3. from \in DOMAIN observationObjs
      <4>1. Len(errorObjs) \in CommandErrors
        BY <1>a, <3>2 DEF CommandErrors
      <4>2. Blamed \subseteq FailedObservations
        BY BlameStated DEF GraphInv, BlameTold
      <4>. QED
        BY <4>1, <4>2 DEF Blamed, FailedObservations
    <3>4. observationObjs[from].command \in DOMAIN commandObjs
      BY <3>3, CommandObserved
    <3>. HIDE DEF from
    <3>5. /\ observationObjs'[from] = observationObjs[from]
          /\ stepObjs'[commandObjs'[observationObjs[from].command].step].index
               = TurnOf(observationObjs[from].command)
      BY <3>3, <3>4, ObjectsKept
    <3>. QED
      BY <3>2, <3>5 DEF from
  <2>5. \A i : LastReport(i)' => LastReport(i) /\ i \in ErrorReports
    BY <2>2 DEF LastReport
  <2>6. ASSUME NEW i \in DOMAIN log', LastReport(i)'
        PROVE  IF log'[i].type = "error_raised"
                 THEN /\ errorObjs'[Len(errorObjs')].observation # 0
                      /\ stepObjs'[commandObjs'[observationObjs'[
                            errorObjs'[Len(errorObjs')].observation].command].step].index
                           = log'[i].step
                 ELSE errorObjs'[Len(errorObjs')].observation = 0
    <3>1. LastReport(i) /\ i \in DOMAIN log /\ log'[i] = log[i]
      BY <2>3, <2>5, <2>6
    <3>2. CASE log[i].type = "error_raised"
      BY <2>1, <2>4, <3>1, <3>2
    <3>3. CASE log[i].type # "error_raised"
      BY <1>b, <2>1, <3>1, <3>3
    <3>. QED
      BY <3>1, <3>2, <3>3
  <2>7. ErrorReports' = {} <=> errorObjs' = <<>>
    BY <1>b, <2>1, <2>2
  <2>. QED
    BY <2>1, <2>6, <2>7 DEF ErrorTracked, TurnOf
<1>. QED
  BY <1>1, <1>2, <1>3, <1>4

-----------------------------------------------------------------------------
(* Files                                                                     *)

\* The elements of a sequence, taken apart and put together.
LEMMA Elements ==
  ASSUME NEW S, NEW s \in Seq(S)
  PROVE  /\ \A x : ToSet(Append(s, x)) = ToSet(s) \cup {x}
         /\ s # <<>> => Head(s) \in S /\ Tail(s) \in Seq(S)
                        /\ ToSet(s) = {Head(s)} \cup ToSet(Tail(s))
         /\ ToSet(<<>>) = {}
         /\ \A x : x \in ToSet(s) <=> \E i \in DOMAIN s : s[i] = x
<1>1. ASSUME NEW x  PROVE ToSet(Append(s, x)) = ToSet(s) \cup {x}
  <2>1. /\ DOMAIN Append(s, x) = DOMAIN s \cup {Len(s) + 1}
        /\ \A i \in DOMAIN s : Append(s, x)[i] = s[i]
        /\ Append(s, x)[Len(s) + 1] = x
    OBVIOUS
  <2>. QED
    BY <2>1 DEF ToSet
<1>2. ASSUME s # <<>>
      PROVE  /\ Head(s) \in S /\ Tail(s) \in Seq(S)
             /\ ToSet(s) = {Head(s)} \cup ToSet(Tail(s))
  <2>1. /\ Head(s) \in S /\ Tail(s) \in Seq(S) /\ Head(s) = s[1] /\ 1 \in DOMAIN s
        /\ Len(Tail(s)) = Len(s) - 1 /\ \A i \in DOMAIN Tail(s) : Tail(s)[i] = s[i + 1]
    BY <1>2
  <2>2. ASSUME NEW i \in DOMAIN s, i # 1
        PROVE  i - 1 \in DOMAIN Tail(s) /\ Tail(s)[i - 1] = s[i]
    <3>1. i - 1 \in DOMAIN Tail(s) /\ (i - 1) + 1 = i
      BY <2>1, <2>2
    <3>. QED
      BY <2>1, <3>1
  <2>3. \A i \in DOMAIN Tail(s) : i + 1 \in DOMAIN s
    BY <2>1
  <2>4. ToSet(s) \subseteq {Head(s)} \cup ToSet(Tail(s))
    BY <2>1, <2>2 DEF ToSet
  <2>5. {Head(s)} \cup ToSet(Tail(s)) \subseteq ToSet(s)
    BY <2>1, <2>3 DEF ToSet
  <2>. QED
    BY <2>1, <2>4, <2>5
<1>3. ToSet(<<>>) = {}
  BY DEF ToSet
<1>4. \A x : x \in ToSet(s) <=> \E i \in DOMAIN s : s[i] = x
  BY DEF ToSet
<1>. QED
  BY <1>1, <1>2, <1>3, <1>4

\* Every statement keeps the files those of the commands that were started.
LEMMA FilesStep == IInv /\ FilesTracked /\ Proceed => FilesTracked'
<1>. SUFFICES ASSUME IInv, FilesTracked, Proceed  PROVE FilesTracked'
  OBVIOUS
<1>a. /\ files \in Seq(Paths) /\ paths \in Seq(Paths) /\ ran \in Seq(Commands)
  BY DEF IInv, TypeOK
<1>b. /\ \A i, j \in DOMAIN files : files[i] = files[j] => i = j
      /\ \A t \in touches : t[2] \in ToSet(files)
      /\ pc # "files" => ToSet(files) = PathsOf(ran)
      /\ pc = "files" =>
           ToSet(files) \cup ToSet(paths) = PathsOf(ran) \cup ToSet(FilesOf[reply.command])
  BY DEF FilesTracked
<1>1. CASE AddCommand
  <2>1. /\ pc = "issue" /\ pc' = "files" /\ UNCHANGED <<files, touches, ran, reply>>
        /\ paths' = FilesOf[reply.command]
    BY <1>1 DEF AddCommand, Goto
  <2>2. PathsOf(ran)' = PathsOf(ran)
    BY <2>1 DEF PathsOf
  <2>. QED
    BY <1>b, <2>1, <2>2 DEF FilesTracked
<1>2. CASE AddFile
  <2>. DEFINE h == Head(paths)
  <2>1. /\ pc = "files" /\ paths # <<>> /\ pc' = "files" /\ UNCHANGED <<ran, reply>>
        /\ files' = IF Recorded(h) THEN files ELSE Append(files, h)
        /\ touches' = touches \cup {<<Len(commandObjs), h>>}
        /\ paths' = Tail(paths)
    BY <1>2 DEF AddFile
  <2>2. /\ h \in Paths /\ ToSet(paths) = {h} \cup ToSet(paths')
        /\ ToSet(Append(files, h)) = ToSet(files) \cup {h}
        /\ h \in ToSet(files) <=> Recorded(h)
    BY <1>a, <2>1, Elements DEF Recorded
  <2>. HIDE DEF h
  <2>3. ToSet(files') = ToSet(files) \cup {h}
    BY <2>1, <2>2
  <2>4. PathsOf(ran)' = PathsOf(ran)
    BY <2>1 DEF PathsOf
  <2>5. \A i, j \in DOMAIN files' : files'[i] = files'[j] => i = j
    <3>1. CASE Recorded(h)
      BY <1>b, <2>1, <3>1
    <3>2. CASE ~Recorded(h)
      <4>1. /\ DOMAIN files' = DOMAIN files \cup {Len(files) + 1}
            /\ \A i \in DOMAIN files : files'[i] = files[i] /\ files[i] # h
            /\ files'[Len(files) + 1] = h
        BY <1>a, <2>1, <2>2, <3>2 DEF Recorded
      <4>. QED
        BY <1>b, <4>1
    <3>. QED
      BY <3>1, <3>2
  <2>6. \A t \in touches' : t[2] \in ToSet(files')
    BY <1>b, <2>1, <2>3
  <2>. QED
    BY <1>b, <2>1, <2>2, <2>3, <2>4, <2>5, <2>6 DEF FilesTracked
<1>3. CASE StartCommand
  <2>1. /\ pc = "files" /\ paths = <<>> /\ pc' = "exec" /\ UNCHANGED <<files, touches>>
        /\ ran' = Append(ran, reply.command)
    BY <1>3 DEF StartCommand, Goto, graphVars
  <2>2. ToSet(paths) = {}
    BY <1>a, <2>1, Elements
  <2>3. PathsOf(ran') = PathsOf(ran) \cup ToSet(FilesOf[reply.command])
    <3>1. /\ DOMAIN ran' = DOMAIN ran \cup {Len(ran) + 1}
          /\ \A c \in DOMAIN ran : ran'[c] = ran[c]
          /\ ran'[Len(ran) + 1] = reply.command
      BY <1>a, <2>1
    <3>. QED
      BY <3>1 DEF PathsOf
  <2>4. PathsOf(ran)' = PathsOf(ran')
    BY DEF PathsOf
  <2>. QED
    BY <1>b, <2>1, <2>2, <2>3, <2>4 DEF FilesTracked
<1>4. CASE ~AddCommand /\ ~AddFile /\ ~StartCommand
  <2>1. pc # "files" /\ pc' # "files" /\ UNCHANGED <<files, touches, ran>>
    BY <1>4, BranchType DEF Proceed, AddTask, BudgetExhausted, BuildContext, CallFails,
       Backoff, CallRejected, CallAnswered, FatalError, FatalErrorObject, ModelTurn, AddStep,
       ParseFailed, ParseErrorObject, TaskFinished, IdleTurn, CommandEnds, CommandExecuted,
       OutputObserved, AddObservation, CommandFailed, CommandErrorObject, RecordTurn, Goto,
       graphVars
  <2>2. PathsOf(ran)' = PathsOf(ran)
    BY <2>1 DEF PathsOf
  <2>. QED
    BY <1>b, <2>1, <2>2 DEF FilesTracked
<1>. QED
  BY <1>1, <1>2, <1>3, <1>4

\* The loop between two prompts: at the start, and with every statement.
LEMMA InitLoopTracked == Init => LoopTracked
<1>. SUFFICES ASSUME Init  PROVE LoopTracked
  OBVIOUS
<1>1. /\ log = <<>> /\ pc = "begin" /\ step = 0 /\ stepObjs = <<>> /\ commandObjs = <<>>
      /\ observationObjs = <<>> /\ errorObjs = <<>> /\ files = <<>> /\ touches = {}
      /\ ran = <<>>
  BY DEF Init
<1>2. Exchanges = <<>>
  BY <1>1, ExchangesOfNone DEF Exchanges
<1>3. TurnsProjected
  BY <1>1, <1>2 DEF TurnsProjected, BeforeTurn, AfterTurn, AfterFeedback
<1>4. CommandOfTurn /\ CommandsObserved /\ ObservationsKept
  BY <1>1 DEF CommandOfTurn, CommandsObserved, ObservationsKept
<1>5. ErrorTracked
  BY <1>1 DEF ErrorTracked, ErrorReports
<1>6. FilesTracked
  <2>1. ToSet(files) = {} /\ PathsOf(ran) = {}
    BY <1>1 DEF ToSet, PathsOf
  <2>2. \A i, j \in DOMAIN files : files[i] = files[j] => i = j
    BY <1>1
  <2>3. \A t \in touches : t[2] \in ToSet(files)
    BY <1>1
  <2>4. pc # "files"
    BY <1>1
  <2>. QED
    BY <2>1, <2>2, <2>3, <2>4 DEF FilesTracked
<1>. QED
  BY <1>3, <1>4, <1>5, <1>6 DEF LoopTracked

\* What the builders rely on of the loop is kept by each of its statements.
LEMMA LoopTrackedStep == IInv /\ GraphInv /\ LoopTracked /\ Proceed => LoopTracked'
<1>. SUFFICES ASSUME IInv, GraphInv, LoopTracked, Proceed, pc' \notin Final  PROVE LoopTracked'
  BY DEF LoopTracked
<1>1. pc \notin Final
  BY DEF Proceed, AddTask, BudgetExhausted, BuildContext, CallFails, Backoff, CallRejected,
     CallAnswered, FatalError, FatalErrorObject, ModelTurn, AddStep, ParseFailed,
     ParseErrorObject, TaskFinished, IdleTurn, AddCommand, AddFile, StartCommand,
     CommandEnds, CommandExecuted, OutputObserved, AddObservation, CommandFailed,
     CommandErrorObject, RecordTurn, Final
<1>. QED
  BY <1>1, TurnsStep, CommandOfTurnStep, CommandsObservedStep, ObservationsKeptStep, ErrorStep,
     FilesStep DEF LoopTracked

-----------------------------------------------------------------------------
(* The steps of the graph                                                    *)

\* The step objects by index are the step objects by creation.
LEMMA StepsCount ==
  ASSUME TypeOK, StepsChained
  PROVE  Steps = [k \in 1..Len(stepObjs) |-> k]
<1>. DEFINE n == Len(stepObjs)
            counted == [k \in 1..n |-> k]
            Rising(s) == \A i, j \in 1..Len(s) :
                           i < j => stepObjs[s[i]].index < stepObjs[s[j]].index
<1>1. n \in Nat /\ DOMAIN stepObjs = 1..n /\ \A k \in 1..n : stepObjs[k].index = k - 1
  <2>1. stepObjs \in Seq([index : Nat, follows : Nat])
    BY DEF TypeOK
  <2>2. \A k \in DOMAIN stepObjs : stepObjs[k] = [index |-> k - 1, follows |-> k - 1]
    BY DEF StepsChained
  <2>3. n \in Nat /\ DOMAIN stepObjs = 1..n
    BY <2>1
  <2>. QED
    BY <2>2, <2>3
<1>2. Cardinality(1..n) = n
  BY <1>1, FS_Interval
<1>3. SetToSeqs(DOMAIN stepObjs) =
        {s \in [1..n -> 1..n] : \A i, j \in 1..n : i # j => s[i] # s[j]}
  BY <1>1, <1>2 DEF SetToSeqs
<1>4. Steps = CHOOSE s \in SetToSeqs(DOMAIN stepObjs) : Rising(s)
  BY DEF Steps, IsSorted
<1>5. counted \in SetToSeqs(DOMAIN stepObjs) /\ Rising(counted)
  <2>1. Len(counted) = n
    BY <1>1
  <2>2. \A i, j \in 1..n : i < j => stepObjs[counted[i]].index < stepObjs[counted[j]].index
    BY <1>1
  <2>. QED
    BY <1>3, <2>1, <2>2
<1>6. ASSUME NEW s \in SetToSeqs(DOMAIN stepObjs), Rising(s)
      PROVE  s = counted
  <2>1. s \in [1..n -> 1..n] /\ Len(s) = n
    BY <1>1, <1>3, <1>6
  <2>2. \A i, j \in 1..n : i < j => s[i] < s[j]
    <3>. SUFFICES ASSUME NEW i \in 1..n, NEW j \in 1..n, i < j  PROVE s[i] < s[j]
      OBVIOUS
    <3>1. stepObjs[s[i]].index < stepObjs[s[j]].index
      BY <1>6, <2>1
    <3>2. s[i] \in 1..n /\ s[j] \in 1..n
      BY <2>1
    <3>. QED
      BY <1>1, <3>1, <3>2
  <2>3. \A k \in 1..n : s[k] = k
    BY <1>1, <2>1, <2>2, IncreasingCounts
  <2>. QED
    BY <2>1, <2>3
<1>. HIDE DEF counted, Rising
<1>7. Steps = counted
  BY <1>4, <1>5, <1>6
<1>. QED
  BY <1>7 DEF counted, n

\* The digest is made for the first steps, in order.
LEMMA DigestCount ==
  ASSUME TypeOK, StepsChained
  PROVE  /\ Len(DigestSteps) = Omitted(stepObjs, V2TailExchanges)
         /\ DOMAIN DigestSteps = 1..Omitted(stepObjs, V2TailExchanges)
         /\ \A k \in DOMAIN DigestSteps : DigestSteps[k] = k
         /\ Omitted(stepObjs, V2TailExchanges) \in 0..Len(stepObjs)
<1>1. Steps = [k \in 1..Len(stepObjs) |-> k]
  BY StepsCount
<1>2. Len(stepObjs) \in Nat /\ V2TailExchanges \in Nat
  BY WindowsAssumption DEF TypeOK
<1>3. Steps \in Seq(Nat) /\ Len(Steps) = Len(stepObjs)
  BY <1>1, <1>2
<1>4. /\ Omitted(Steps, V2TailExchanges) = Omitted(stepObjs, V2TailExchanges)
      /\ Omitted(stepObjs, V2TailExchanges) \in 0..Len(stepObjs)
  BY <1>2, <1>3 DEF Omitted
<1>. QED
  BY <1>1, <1>2, <1>3, <1>4 DEF DigestSteps

-----------------------------------------------------------------------------
(* The v1 prompt                                                             *)

\* A window of a sequence, position by position.
LEMMA WindowAt ==
  ASSUME NEW S, NEW s \in Seq(S), NEW n \in Nat \ {0}
  PROVE  /\ Omitted(s, n) \in 0..Len(s) /\ Window(s, n) \in Seq(S)
         /\ Omitted(s, n) + Len(Window(s, n)) = Len(s) /\ Len(Window(s, n)) <= n
         /\ Omitted(s, n) > 0 => Len(Window(s, n)) = n
         /\ DOMAIN Window(s, n) = 1..Len(Window(s, n))
         /\ \A k \in 1..Len(Window(s, n)) : /\ Omitted(s, n) + k \in 1..Len(s)
                                            /\ Window(s, n)[k] = s[Omitted(s, n) + k]
<1>1. Omitted(s, n) \in 0..Len(s)
  BY DEF Omitted
<1>. DEFINE first == Omitted(s, n)
<1>2. Len(s) - first <= n /\ (first > 0 => Len(s) - first = n)
  BY DEF Omitted
<1>. HIDE DEF first
<1>3. SubSeq(s, first + 1, Len(s)) \in Seq(S)
  BY <1>1 DEF first
<1>4. Len(SubSeq(s, first + 1, Len(s))) = Len(s) - first
  BY <1>1 DEF first
<1>5. \A k \in 1..(Len(s) - first) : SubSeq(s, first + 1, Len(s))[k] = s[first + k]
  BY <1>1 DEF first
<1>6. Window(s, n) = SubSeq(s, first + 1, Len(s))
  BY DEF first, Window
<1>7. /\ Window(s, n) \in Seq(S) /\ Len(Window(s, n)) = Len(s) - first
      /\ DOMAIN Window(s, n) = 1..(Len(s) - first)
      /\ \A k \in 1..(Len(s) - first) : Window(s, n)[k] = s[first + k]
  BY <1>3, <1>4, <1>5, <1>6
<1>8. \A k \in 1..(Len(s) - first) : first + k \in 1..Len(s)
  BY <1>1 DEF first
<1>9. first + (Len(s) - first) = Len(s)
  BY <1>1 DEF first
<1>10. /\ first + Len(Window(s, n)) = Len(s) /\ Len(Window(s, n)) <= n
       /\ first > 0 => Len(Window(s, n)) = n
       /\ DOMAIN Window(s, n) = 1..Len(Window(s, n))
       /\ \A k \in 1..Len(Window(s, n)) : /\ first + k \in 1..Len(s)
                                          /\ Window(s, n)[k] = s[first + k]
  BY <1>2, <1>7, <1>8, <1>9
<1>. QED
  BY <1>1, <1>7, <1>10 DEF first

\* A statement leaves the exchanges of the turns before this one as they are.
LEMMA PastKept ==
  ASSUME IInv, TurnsProjected, Proceed
  PROVE  SubSeq(Exchanges', 1, step) = SubSeq(Exchanges, 1, step)
<1>. DEFINE n == Len(Exchanges)
<1>1. TypeOK /\ step \in Nat /\ n \in Nat /\ TypeOK'
  BY TypesNow, ExchangesType
<1>2. CASE UNCHANGED log
  BY <1>2, QuietProject
<1>3. CASE Sideways
  BY <1>3, SidewaysStep
<1>4. CASE ModelTurn
  <2>1. pc = "turn" /\ \E note \in Notes : Emit("model_turn", note)
    BY <1>4 DEF ModelTurn, Notes
  <2>2. Len(Exchanges') = n + 1 /\ \A k \in 1..n : Exchanges'[k] = Exchanges[k]
    BY <1>1, <2>1, TurnOpened
  <2>3. n = step
    BY <2>1 DEF TurnsProjected, BeforeTurn
  <2>4. \A k \in 1..step : Exchanges'[k] = Exchanges[k]
    BY <2>2, <2>3
  <2>. QED
    BY <1>1, <2>4
<1>5. CASE ParseFailed \/ IdleTurn \/ OutputObserved
  <2>1. /\ pc \in AfterTurn
        /\ \E type \in FeedbackTypes, note \in Notes : Emit(type, note)
    BY <1>5 DEF ParseFailed, IdleTurn, OutputObserved, Goto, AfterTurn, FeedbackTypes, Notes,
       IInv, TypeOK
  <2>2. n = step + 1 /\ n # 0 /\ n - 1 = step
    BY <1>1, <2>1 DEF TurnsProjected
  <2>3. \A k \in 1..(n - 1) : Exchanges'[k] = Exchanges[k]
    BY <1>1, <2>1, <2>2, FeedbackJoins
  <2>4. \A k \in 1..step : Exchanges'[k] = Exchanges[k]
    BY <2>2, <2>3
  <2>. QED
    BY <1>1, <2>4
<1>6. CASE RecordTurn
  BY <1>2, <1>6 DEF RecordTurn
<1>. QED
  BY <1>3, <1>4, <1>5, <1>6 DEF Proceed, Sideways

\* What is built at the top is what there is of all the turns before.
LEMMA BuiltNow ==
  ASSUME IInv, TurnsProjected, pc = "top"
  PROVE  /\ Len(Exchanges) = step /\ SubSeq(Exchanges, 1, step) = Exchanges
         /\ BuildV1 = PromptOf(Exchanges, step)
<1>1. Exchanges \in Seq(Pair)
  BY ExchangesType DEF IInv, Pairs
<1>2. Len(Exchanges) = step
  BY DEF TurnsProjected, BeforeTurn
<1>. QED
  BY <1>1, <1>2 DEF BuildV1, PromptOf

\* Every step keeps the last prompt the one of the turn asked for.
LEMMA PromptStep ==
  ASSUME IInv, TurnsProjected, PromptTracked, BuildPrompt \/ OtherStep
  PROVE  PromptTracked'
<1>. DEFINE Resting == {"begin", "top"}
<1>1. step \in Nat /\ step' \in Nat
  <2>1. Proceed
    BY DEF BuildPrompt, OtherStep, Proceed
  <2>2. TypeOK'
    BY <2>1, TypesNow
  <2>. QED
    BY <2>1, <2>2, TypesNow, BudgetsAssumption DEF TypeOK
<1>2. CASE BuildPrompt
  <2>1. /\ BuildContext /\ pc = "top" /\ pc' = "call" /\ step' = step
        /\ promptV1' = BuildV1
    BY <1>2 DEF BuildPrompt, BuildContext, Goto
  <2>2. Exchanges' = Exchanges
    BY <2>1, SidewaysStep DEF Sideways
  <2>3. promptV1' = PromptOf(SubSeq(Exchanges', 1, step'), step')
    BY <2>1, <2>2, BuiltNow
  <2>4. Asked(step)' /\ step' = step
    BY <2>1, <2>3 DEF Asked, PromptOf
  <2>. QED
    BY <2>1, <2>4 DEF PromptTracked
<1>3. CASE OtherStep
  <2>1. /\ Proceed /\ promptV1' = promptV1 /\ ~(pc = "top" /\ ~Exhausted)
    BY <1>3 DEF OtherStep
  <2>2. ASSUME NEW s, promptV1 = PromptOf(SubSeq(Exchanges, 1, step), s)
        PROVE  promptV1' = PromptOf(SubSeq(Exchanges', 1, step), s)
    BY <2>1, <2>2, PastKept
  <2>3. CASE RecordTurn
    <3>1. /\ pc = "record"
          /\ \/ pc' = "returned"
             \/ pc' = "top" /\ step' = step + 1
      BY <2>3 DEF RecordTurn, Goto
    <3>2. promptV1 = PromptOf(SubSeq(Exchanges, 1, step), step)
      BY <3>1 DEF PromptTracked, Asked, Final
    <3>3. promptV1' = PromptOf(SubSeq(Exchanges', 1, step), step)
      BY <2>2, <3>2
    <3>4. CASE pc' = "top" /\ step' = step + 1
      <4>1. step' - 1 = step /\ step' # 0
        BY <1>1, <3>4
      <4>2. Asked(step - 1)'
        BY <3>3, <4>1 DEF Asked, PromptOf
      <4>. QED
        BY <3>4, <4>1, <4>2 DEF PromptTracked
    <3>. QED
      BY <3>1, <3>4 DEF PromptTracked, Final
  <2>4. CASE ~RecordTurn /\ pc \in Resting
    <3>1. \/ pc = "begin" /\ pc' = "top" /\ step' = step /\ log' = log
          \/ pc' = "returned"
      BY <2>1, <2>4 DEF Proceed, AddTask, BudgetExhausted, BuildContext, CallFails,
         Backoff, CallRejected, CallAnswered, FatalError, FatalErrorObject, ModelTurn, AddStep,
         ParseFailed, ParseErrorObject, TaskFinished, IdleTurn, AddCommand, AddFile,
         StartCommand, CommandEnds, CommandExecuted, OutputObserved, AddObservation,
         CommandFailed, CommandErrorObject, Goto
    <3>2. CASE pc' = "returned"
      BY <3>2 DEF PromptTracked, Final
    <3>3. CASE pc = "begin" /\ pc' = "top" /\ step' = step /\ log' = log
      <4>1. Exchanges' = Exchanges
        BY <3>3, QuietProject
      <4>2. Asked(step - 1)' <=> Asked(step - 1)
        BY <2>1, <3>3, <4>1 DEF Asked, PromptOf
      <4>. QED
        BY <2>1, <3>3, <4>2 DEF PromptTracked, NoPrompt
    <3>. QED
      BY <3>1, <3>2, <3>3
  <2>5. CASE ~RecordTurn /\ pc \notin Resting
    <3>1. pc' \notin Resting /\ step' = step /\ pc \notin Final
      BY <2>1, <2>5, BranchType DEF Proceed, AddTask, BudgetExhausted, BuildContext, CallFails,
         Backoff, CallRejected, CallAnswered, FatalError, FatalErrorObject, ModelTurn, AddStep,
         ParseFailed, ParseErrorObject, TaskFinished, IdleTurn, AddCommand, AddFile,
         StartCommand, CommandEnds, CommandExecuted, OutputObserved, AddObservation,
         CommandFailed, CommandErrorObject, Goto, Final
    <3>2. promptV1 = PromptOf(SubSeq(Exchanges, 1, step), step)
      BY <2>5, <3>1 DEF PromptTracked, Asked
    <3>3. Asked(step)'
      BY <2>2, <3>1, <3>2 DEF Asked, PromptOf
    <3>. QED
      BY <3>1, <3>3 DEF PromptTracked
  <2>. QED
    BY <2>3, <2>4, <2>5
<1>. QED
  BY <1>2, <1>3

-----------------------------------------------------------------------------
(* The v2 prompt                                                             *)

\* As long as the graph stays, the builder would build the digest and the
\* error again.
LEMMA SameDigest ==
  ASSUME TypeOK, TypeOK', StepsChained, StepsChained', UNCHANGED graphVars
  PROVE  /\ DigestSteps' = DigestSteps
         /\ \A s : DigestLine(s)' = DigestLine(s)
         /\ ActiveError' = ActiveError /\ FailingCommand' = FailingCommand
<1>1. UNCHANGED <<stepObjs, commandObjs, observationObjs, errorObjs>>
  BY DEF graphVars
<1>2. DigestSteps' = DigestSteps
  <2>1. Steps = [k \in 1..Len(stepObjs) |-> k]
    BY StepsCount
  <2>2. (TypeOK /\ StepsChained => Steps = [k \in 1..Len(stepObjs) |-> k])'
    BY StepsCount, PTL
  <2>3. Steps' = Steps
    BY <1>1, <2>1, <2>2
  <2>. QED
    BY <2>3 DEF DigestSteps
<1>3. ASSUME NEW s  PROVE CommandOf(s)' = CommandOf(s)
  BY <1>1 DEF CommandOf
<1>4. ASSUME NEW c  PROVE ExitOf(c)' = ExitOf(c)
  <2>. DEFINE produced == {o \in DOMAIN observationObjs : observationObjs[o].command = c}
  <2>1. produced' = produced
    BY <1>1
  <2>2. ExitOf(c)' = IF produced' = {} THEN "unknown" ELSE observationObjs'[Min(produced')].outcome
    BY DEF ExitOf
  <2>3. ExitOf(c) = IF produced = {} THEN "unknown" ELSE observationObjs[Min(produced)].outcome
    BY DEF ExitOf
  <2>. HIDE DEF produced
  <2>. QED
    BY <1>1, <2>1, <2>2, <2>3
<1>5. ASSUME NEW s  PROVE DigestLine(s)' = DigestLine(s)
  BY <1>1, <1>3, <1>4 DEF DigestLine
<1>6. ActiveError' = ActiveError /\ FailingCommand' = FailingCommand
  BY <1>1 DEF ActiveError, FailingCommand
<1>. QED
  BY <1>2, <1>5, <1>6

\* Every step keeps the slice the one the builder would build again.
LEMMA SliceStep ==
  ASSUME IInv, IInv', GraphInv, GraphInv', SliceTracked, BuildPrompt \/ OtherStep
  PROVE  SliceTracked'
<1>. SUFFICES ASSUME Asking'  PROVE SliceTracked'
  BY DEF SliceTracked
<1>1. TypeOK /\ TypeOK' /\ StepsChained /\ StepsChained'
  BY DEF IInv, GraphInv
<1>2. /\ Exchanges' = Exchanges /\ UNCHANGED graphVars
      /\ slice' = BuildSlice \/ (Asking /\ slice' = slice)
  <2>1. CASE BuildPrompt
    <3>1. BuildContext /\ slice' = BuildSlice
      BY <2>1 DEF BuildPrompt
    <3>. QED
      BY <3>1, SidewaysStep DEF Sideways, BuildContext
  <2>2. CASE OtherStep
    <3>1. CallFails \/ Backoff
      BY <2>2, BranchType DEF OtherStep, Asking, Proceed, AddTask, BudgetExhausted, BuildContext,
         CallRejected, CallAnswered, FatalError, FatalErrorObject, ModelTurn, AddStep,
         ParseFailed, ParseErrorObject, TaskFinished, IdleTurn, AddCommand, AddFile,
         StartCommand, CommandEnds, CommandExecuted, OutputObserved, AddObservation,
         CommandFailed, CommandErrorObject, RecordTurn, Goto
    <3>2. Exchanges' = Exchanges
      BY <3>1, SidewaysStep DEF Sideways
    <3>. QED
      BY <2>2, <3>1, <3>2 DEF OtherStep, Asking, CallFails, Backoff
  <2>. QED
    BY <2>1, <2>2
<1>3. /\ DigestSteps' = DigestSteps /\ \A s : DigestLine(s)' = DigestLine(s)
      /\ ActiveError' = ActiveError /\ FailingCommand' = FailingCommand
  BY <1>1, <1>2, SameDigest
<1>4. files' = files
  BY <1>2 DEF graphVars
<1>5. /\ slice'.digest = [k \in DOMAIN DigestSteps |-> DigestLine(DigestSteps[k])]
      /\ slice'.tail = Window(Exchanges, V2TailExchanges)
      /\ slice'.error = ActiveError /\ slice'.failing = FailingCommand
      /\ slice'.files = Window(files, V2MaxFiles)
      /\ slice'.moreFiles = Omitted(files, V2MaxFiles)
  BY <1>2 DEF BuildSlice, SliceTracked
<1>6. slice'.digest = [k \in DOMAIN DigestSteps' |-> DigestLine(DigestSteps[k])']
  <2>1. \A k \in DOMAIN DigestSteps : DigestLine(DigestSteps[k])' = DigestLine(DigestSteps[k])
    BY <1>3
  <2>. QED
    BY <1>3, <1>5, <2>1
<1>7. /\ Window(Exchanges, V2TailExchanges)' = Window(Exchanges, V2TailExchanges)
      /\ Window(files, V2MaxFiles)' = Window(files, V2MaxFiles)
      /\ Omitted(files, V2MaxFiles)' = Omitted(files, V2MaxFiles)
  BY <1>2, <1>4 DEF Window, Omitted
<1>. QED
  BY <1>3, <1>5, <1>6, <1>7 DEF SliceTracked

-----------------------------------------------------------------------------
(* The cached prefix of v1                                                   *)

\* The blocks of a v1 prompt, and the two that a pair makes.
Texts ==
    {<<"system">>} \cup {<<"instruction", n>> : n \in Nat} \cup {<<"assistant", n>> : n \in Nat}
      \cup {<<"feedback", n, told>> : n \in Nat, told \in Seq(Events)}
Answer(pair) == <<"assistant", pair.turn>>
Told(pair)   == <<"feedback", pair.turn, pair.feedback>>

\* The blocks of a v1 prompt, position by position.
LEMMA BodyAt ==
  ASSUME NEW omitted \in Nat, NEW tail \in Pairs
  PROVE  /\ Body(omitted, tail) \in Seq(Texts)
         /\ Len(Body(omitted, tail)) = 2 + 2 * Len(tail)
         /\ Body(omitted, tail)[1] = <<"system">>
         /\ Body(omitted, tail)[2] = <<"instruction", omitted>>
         /\ \A k \in 1..Len(tail) : /\ Body(omitted, tail)[2 * k + 1] = Answer(tail[k])
                                    /\ Body(omitted, tail)[2 * k + 2] = Told(tail[k])
<1>. DEFINE L == Len(tail)
            opening == << <<"system">>, <<"instruction", omitted>> >>
            two == [k \in DOMAIN tail |-> <<Answer(tail[k]), Told(tail[k])>>]
            blocks == FlattenSeq(two)
<1>1. L \in Nat /\ DOMAIN tail = 1..L /\ \A k \in 1..L : tail[k] \in Pair
  BY DEF Pairs
<1>2. Body(omitted, tail) = opening \o blocks
  BY DEF Body, Answer, Told
<1>3. opening \in Seq(Texts) /\ Len(opening) = 2
  BY DEF Texts
<1>4. /\ blocks \in Seq(Texts) /\ Len(blocks) = 2 * L
      /\ \A k \in 1..L : blocks[2 * k - 1] = Answer(tail[k]) /\ blocks[2 * k] = Told(tail[k])
  <2>1. CASE L = 0
    <3>1. two = <<>>
      BY <1>1, <2>1
    <3>2. blocks = <<>>
      BY <3>1 DEF FlattenSeq
    <3>3. <<>> \in Seq(Texts) /\ Len(<<>>) = 0 /\ 2 * L = 0 /\ 1..L = {}
      BY <2>1
    <3>. HIDE DEF blocks, L
    <3>. QED
      BY <3>2, <3>3
  <2>2. CASE L # 0
    <3>. DEFINE upto == [n \in 0..L |-> 2 * n]
    <3>1. ASSUME NEW pair \in Pair  PROVE <<Answer(pair), Told(pair)>> \in Seq(Texts)
      BY DEF Pair, Texts, Answer, Told
    <3>2. /\ two \in Seq(Seq(Texts)) /\ Len(two) = L
          /\ \A k \in 1..L : two[k] = <<Answer(tail[k]), Told(tail[k])>> /\ Len(two[k]) = 2
      BY <1>1, <3>1
    <3>3. Lengths(upto, two, L)
      BY <1>1, <3>2 DEF Lengths
    <3>4. two # <<>>
      BY <2>2, <3>2
    <3>. HIDE DEF two, upto
    <3>5. blocks \in Seq(Texts) /\ Joined(blocks, two, upto, L)
      BY <3>2, <3>3, <3>4, FlattenAt
    <3>6. Len(blocks) = 2 * L
      BY <1>1, <3>5 DEF Joined, upto
    <3>7. ASSUME NEW k \in 1..L
          PROVE  blocks[2 * k - 1] = Answer(tail[k]) /\ blocks[2 * k] = Told(tail[k])
      <4>1. \A i \in 1..2 : blocks[upto[k - 1] + i] = two[k][i]
        BY <3>2, <3>5 DEF Joined
      <4>2. upto[k - 1] + 1 = 2 * k - 1 /\ upto[k - 1] + 2 = 2 * k
        BY <1>1 DEF upto
      <4>3. two[k][1] = Answer(tail[k]) /\ two[k][2] = Told(tail[k])
        BY <3>2
      <4>. QED
        BY <4>1, <4>2, <4>3
    <3>. QED
      BY <3>5, <3>6, <3>7
  <2>. QED
    BY <2>1, <2>2
<1>5. opening[1] = <<"system">> /\ opening[2] = <<"instruction", omitted>>
  OBVIOUS
<1>. HIDE DEF opening, blocks
<1>. HIDE DEF L
<1>6. /\ opening \o blocks \in Seq(Texts) /\ Len(opening \o blocks) = 2 + 2 * L
      /\ \A i \in 1..2 : (opening \o blocks)[i] = opening[i]
      /\ \A i \in 1..(2 * L) : (opening \o blocks)[2 + i] = blocks[i]
  <2>1. blocks \in Seq(Texts)
    BY <1>4
  <2>2. /\ opening \o blocks \in Seq(Texts)
        /\ Len(opening \o blocks) = Len(opening) + Len(blocks)
        /\ \A i \in 1..Len(opening) : (opening \o blocks)[i] = opening[i]
        /\ \A i \in 1..Len(blocks) : (opening \o blocks)[Len(opening) + i] = blocks[i]
    BY <1>3, <2>1, ConcatAt
  <2>. QED
    BY <1>3, <1>4, <2>2
<1>7. ASSUME NEW k \in 1..L
      PROVE  /\ (opening \o blocks)[2 * k + 1] = Answer(tail[k])
             /\ (opening \o blocks)[2 * k + 2] = Told(tail[k])
  <2>1. /\ 2 * k - 1 \in 1..(2 * L) /\ 2 * k \in 1..(2 * L)
        /\ 2 + (2 * k - 1) = 2 * k + 1 /\ 2 + 2 * k = 2 * k + 2
    BY <1>1
  <2>. QED
    BY <1>4, <1>6, <2>1
<1>. QED
  BY <1>2, <1>5, <1>6, <1>7 DEF L

\* One more exchange: the prompt before it is a prefix of the one after it as
\* long as the window omits nothing, and then only.
LEMMA PrefixHit ==
  ASSUME NEW pairs \in Pairs, NEW n \in Nat, Len(pairs) = n + 1
  PROVE  PromptOf(pairs, n + 1).marked <=>
           IsPrefix(PromptOf(SubSeq(pairs, 1, n), n).body, PromptOf(pairs, n + 1).body)
<1>. DEFINE M == MaxTailExchanges
            older == SubSeq(pairs, 1, n)
            before == Body(Omitted(older, M), Window(older, M))
            now == Body(Omitted(pairs, M), Window(pairs, M))
<1>1. /\ M \in Nat \ {0}
      /\ pairs \in Seq(Pair) /\ older \in Seq(Pair) /\ Len(older) = n
      /\ \A k \in 1..n : older[k] = pairs[k]
  BY WindowsAssumption DEF Pairs
<1>2. /\ PromptOf(pairs, n + 1).marked <=> Omitted(pairs, M) = 0
      /\ PromptOf(pairs, n + 1).body = now /\ PromptOf(older, n).body = before
  BY DEF PromptOf
<1>. HIDE DEF M, older
<1>3. /\ Window(older, M) \in Pairs /\ Window(pairs, M) \in Pairs
      /\ Omitted(older, M) \in Nat /\ Omitted(pairs, M) \in Nat
  BY <1>1, WindowAt DEF Pairs
<1>4. /\ before \in Seq(Texts) /\ Len(before) = 2 + 2 * Len(Window(older, M))
      /\ before[1] = <<"system">>
      /\ before[2] = <<"instruction", Omitted(older, M)>>
      /\ \A k \in 1..Len(Window(older, M)) : /\ before[2 * k + 1] = Answer(Window(older, M)[k])
                                             /\ before[2 * k + 2] = Told(Window(older, M)[k])
  BY <1>3, BodyAt
<1>a. /\ now \in Seq(Texts) /\ Len(now) = 2 + 2 * Len(Window(pairs, M))
      /\ now[1] = <<"system">>
      /\ now[2] = <<"instruction", Omitted(pairs, M)>>
      /\ \A k \in 1..Len(Window(pairs, M)) : /\ now[2 * k + 1] = Answer(Window(pairs, M)[k])
                                             /\ now[2 * k + 2] = Told(Window(pairs, M)[k])
  BY <1>3, BodyAt
<1>. HIDE DEF before, now
<1>5. IsPrefix(before, now) <=>
        Len(before) <= Len(now) /\ \A i \in 1..Len(before) : before[i] = now[i]
  <2>1. before \in Seq(Texts) /\ now \in Seq(Texts)
    BY <1>4, <1>a
  <2>. QED
    BY <2>1, PrefixAt
<1>6. CASE Omitted(pairs, M) = 0
  <2>1. Omitted(older, M) = 0
    BY <1>1, <1>6 DEF Omitted
  <2>2. /\ Len(Window(older, M)) = n /\ \A k \in 1..n : Window(older, M)[k] = pairs[k]
        /\ Len(Window(pairs, M)) = n + 1 /\ \A k \in 1..(n + 1) : Window(pairs, M)[k] = pairs[k]
    BY <1>1, <1>6, <2>1, WindowAt
  <2>3. ASSUME NEW i \in 1..Len(before)  PROVE before[i] = now[i]
    <3>1. CASE i < 3
      <4>1. i = 1 \/ i = 2
        BY <3>1
      <4>. QED
        BY <1>4, <1>a, <1>6, <2>1, <4>1
    <3>2. CASE ~(i < 3)
      <4>1. i \in 1..(2 + 2 * n)
        BY <1>4, <2>2
      <4>2. \E k \in 1..n : i = 2 * k + 1 \/ i = 2 * k + 2
        <5>1. (i - 1) \div 2 \in 1..n
          BY <3>2, <4>1
        <5>2. i = 2 * ((i - 1) \div 2) + 1 \/ i = 2 * ((i - 1) \div 2) + 2
          BY <4>1
        <5>. QED
          BY <5>1, <5>2
      <4>3. PICK k \in 1..n : i = 2 * k + 1 \/ i = 2 * k + 2
        BY <4>2
      <4>4. k \in 1..(n + 1) /\ k \in 1..n
        OBVIOUS
      <4>5. Window(older, M)[k] = Window(pairs, M)[k]
        BY <2>2, <4>4
      <4>6. /\ before[2 * k + 1] = Answer(Window(older, M)[k])
            /\ before[2 * k + 2] = Told(Window(older, M)[k])
        BY <1>4, <2>2, <4>4
      <4>7. /\ now[2 * k + 1] = Answer(Window(pairs, M)[k])
            /\ now[2 * k + 2] = Told(Window(pairs, M)[k])
        BY <1>a, <2>2, <4>4
      <4>. QED
        BY <4>3, <4>5, <4>6, <4>7
    <3>. QED
      BY <3>1, <3>2
  <2>4. Len(before) <= Len(now)
    BY <1>4, <1>a, <2>2
  <2>. QED
    BY <1>2, <1>5, <1>6, <2>3, <2>4 DEF older
<1>7. CASE Omitted(pairs, M) # 0
  <2>1. Omitted(older, M) # Omitted(pairs, M)
    BY <1>1, <1>7 DEF Omitted
  <2>2. before[2] # now[2]
    BY <1>4, <1>a, <2>1
  <2>3. 2 \in 1..Len(before)
    <3>1. Len(Window(older, M)) \in Nat
      BY <1>3 DEF Pairs
    <3>. QED
      BY <1>4, <3>1
  <2>. QED
    BY <1>2, <1>5, <1>7, <2>2, <2>3 DEF older
<1>. QED
  BY <1>6, <1>7

\* Every step keeps the breakpoint where the cache is hit.
LEMMA CacheStep ==
  ASSUME IInv, TurnsProjected, PromptTracked, CacheHits, BuildPrompt \/ OtherStep
  PROVE  CacheHits'
<1>1. CASE OtherStep
  BY <1>1 DEF OtherStep, CacheHits
<1>2. CASE BuildPrompt
  <2>1. pc = "top" /\ promptV1' = BuildV1 /\ earlierV1' = promptV1
    BY <1>2 DEF BuildPrompt, BuildContext
  <2>2. promptV1' = PromptOf(Exchanges, step) /\ Len(Exchanges) = step
    BY <2>1, BuiltNow
  <2>3. step \in Nat /\ Exchanges \in Pairs
    BY BudgetsAssumption, ExchangesType DEF IInv, TypeOK
  <2>4. CASE step = 0
    BY <2>1, <2>4 DEF PromptTracked, CacheHits, NoPrompt
  <2>5. CASE step # 0
    <3>. DEFINE n == step - 1
    <3>1. n \in Nat /\ step = n + 1
      BY <2>3, <2>5
    <3>2. promptV1 = PromptOf(SubSeq(Exchanges, 1, n), n)
      BY <2>1, <2>5 DEF PromptTracked, Asked
    <3>. HIDE DEF n
    <3>3. PromptOf(Exchanges, n + 1).marked <=>
            IsPrefix(PromptOf(SubSeq(Exchanges, 1, n), n).body, PromptOf(Exchanges, n + 1).body)
      BY <2>2, <2>3, <3>1, PrefixHit
    <3>4. promptV1'.marked <=> IsPrefix(earlierV1'.body, promptV1'.body)
      BY <2>1, <2>2, <3>1, <3>2, <3>3
    <3>. QED
      BY <3>4 DEF CacheHits
  <2>. QED
    BY <2>4, <2>5
<1>. QED
  BY <1>1, <1>2

-----------------------------------------------------------------------------
(* The invariant                                                             *)

\* The builders start in the invariant.
LEMMA InitRetrieval == RetrievalInit => Invariant
<1>. SUFFICES ASSUME RetrievalInit  PROVE Invariant
  OBVIOUS
<1>1. Init /\ promptV1 = NoPrompt /\ earlierV1 = NoPrompt
  BY DEF RetrievalInit
<1>2. pc = "begin" /\ step = 0
  BY <1>1 DEF Init
<1>3. PromptTracked /\ SliceTracked /\ CacheHits
  BY <1>1, <1>2 DEF PromptTracked, SliceTracked, CacheHits, Asking
<1>. QED
  BY <1>1, <1>3, InitIInv, InitGraph, InitLoopTracked DEF Invariant, GraphLoopInv, RetrievalInv

\* Where nothing changes the invariant stays.
LEMMA QuietRetrieval ==
  ASSUME Invariant, GraphLoopInv', UNCHANGED retrievalVars
  PROVE  RetrievalInv'
<1>1. /\ UNCHANGED <<log, pc, step, reply, paths, ran, promptV1, earlierV1, slice>>
      /\ UNCHANGED graphVars /\ UNCHANGED <<attempt, outcome>>
  BY DEF retrievalVars, loopVars
<1>2. UNCHANGED <<stepObjs, commandObjs, observationObjs, errorObjs, files, touches>>
  BY <1>1 DEF graphVars
<1>3. Exchanges' = Exchanges
  BY <1>1, QuietProject
<1>4. /\ \A c : TurnOf(c)' = TurnOf(c)
      /\ \A s : EventsOf({"output_observed"}, s)' = EventsOf({"output_observed"}, s)
      /\ ErrorReports' = ErrorReports /\ PathsOf(ran)' = PathsOf(ran)
      /\ Finishing' = Finishing
  BY <1>1, <1>2 DEF TurnOf, EventsOf, EventsIn, ErrorReports, PathsOf, Finishing
<1>5. LoopTracked'
  <2>. SUFFICES ASSUME pc' \notin Final  PROVE LoopTracked'
    BY DEF LoopTracked
  <2>1. /\ TurnsProjected /\ CommandOfTurn /\ CommandsObserved /\ ObservationsKept
        /\ ErrorTracked /\ FilesTracked
    BY <1>1 DEF Invariant, RetrievalInv, LoopTracked
  <2>2. TurnsProjected'
    BY <1>1, <1>3, <1>4, <2>1 DEF TurnsProjected
  <2>3. CommandOfTurn'
    BY <1>1, <1>2, <2>1 DEF CommandOfTurn
  <2>4. CommandsObserved'
    BY <1>1, <1>2, <1>4, <2>1 DEF CommandsObserved
  <2>5. ObservationsKept'
    BY <1>1, <1>2, <1>4, <2>1 DEF ObservationsKept
  <2>6. ErrorTracked'
    BY <1>1, <1>2, <1>4, <2>1 DEF ErrorTracked, LastReport
  <2>7. FilesTracked'
    BY <1>1, <1>2, <1>4, <2>1 DEF FilesTracked
  <2>. QED
    BY <2>2, <2>3, <2>4, <2>5, <2>6, <2>7 DEF LoopTracked
<1>6. PromptTracked'
  BY <1>1, <1>3 DEF Invariant, RetrievalInv, PromptTracked, Asked, PromptOf, NoPrompt
<1>7. SliceTracked'
  <2>. SUFFICES ASSUME Asking'  PROVE SliceTracked'
    BY DEF SliceTracked
  <2>1. Asking /\ SliceTracked
    BY <1>1 DEF Asking, Invariant, RetrievalInv
  <2>2. /\ DigestSteps' = DigestSteps /\ \A s : DigestLine(s)' = DigestLine(s)
        /\ ActiveError' = ActiveError /\ FailingCommand' = FailingCommand
    <3>1. TypeOK /\ TypeOK' /\ StepsChained /\ StepsChained'
      BY DEF Invariant, GraphLoopInv, IInv, GraphInv
    <3>. QED
      BY <1>1, <3>1, SameDigest
  <2>3. \A k \in DOMAIN DigestSteps : DigestLine(DigestSteps[k])' = DigestLine(DigestSteps[k])
    BY <2>2
  <2>4. /\ Window(Exchanges, V2TailExchanges)' = Window(Exchanges, V2TailExchanges)
        /\ Window(files, V2MaxFiles)' = Window(files, V2MaxFiles)
        /\ Omitted(files, V2MaxFiles)' = Omitted(files, V2MaxFiles)
    BY <1>2, <1>3 DEF Window, Omitted
  <2>5. slice.digest = [k \in DOMAIN DigestSteps' |-> DigestLine(DigestSteps[k])']
    BY <2>1, <2>2, <2>3 DEF SliceTracked
  <2>. QED
    BY <1>1, <2>1, <2>2, <2>4, <2>5 DEF SliceTracked
<1>8. CacheHits'
  BY <1>1 DEF Invariant, RetrievalInv, CacheHits, NoPrompt
<1>. QED
  BY <1>5, <1>6, <1>7, <1>8 DEF RetrievalInv

\* Every step keeps the invariant: the loop's as the builders only read.
LEMMA NextRetrieval == Invariant /\ [RetrievalNext]_retrievalVars => Invariant'
<1>. SUFFICES ASSUME Invariant, [RetrievalNext]_retrievalVars  PROVE Invariant'
  OBVIOUS
<1>1. BuildPrompt \/ OtherStep \/ UNCHANGED retrievalVars
  BY DEF RetrievalNext, LoopOver
<1>2. Proceed \/ UNCHANGED loopVars
  BY <1>1 DEF BuildPrompt, OtherStep, Proceed, retrievalVars
<1>3. [Next]_loopVars
  BY <1>2 DEF Next, LoopStep
<1>4. IInv /\ GraphInv /\ LoopTracked /\ PromptTracked /\ SliceTracked /\ CacheHits
  BY DEF Invariant, GraphLoopInv, RetrievalInv
<1>5. IInv' /\ GraphInv'
  BY <1>3, <1>4, NextIInv, NextGraph
<1>6. CASE BuildPrompt \/ OtherStep
  <2>1. Proceed
    BY <1>6 DEF BuildPrompt, OtherStep, Proceed
  <2>2. pc \notin Final
    BY <2>1 DEF Proceed, AddTask, BudgetExhausted, BuildContext, CallFails, Backoff,
       CallRejected, CallAnswered, FatalError, FatalErrorObject, ModelTurn, AddStep,
       ParseFailed, ParseErrorObject, TaskFinished, IdleTurn, AddCommand, AddFile,
       StartCommand, CommandEnds, CommandExecuted, OutputObserved, AddObservation,
       CommandFailed, CommandErrorObject, RecordTurn, Final
  <2>3. TurnsProjected
    BY <1>4, <2>2 DEF LoopTracked
  <2>4. LoopTracked'
    BY <1>4, <2>1, LoopTrackedStep
  <2>5. PromptTracked'
    BY <1>4, <1>6, <2>3, PromptStep
  <2>6. SliceTracked'
    BY <1>4, <1>5, <1>6, SliceStep
  <2>7. CacheHits'
    BY <1>4, <1>6, <2>3, CacheStep
  <2>. QED
    BY <1>5, <2>4, <2>5, <2>6, <2>7 DEF Invariant, GraphLoopInv, RetrievalInv
<1>7. CASE UNCHANGED retrievalVars
  <2>1. GraphLoopInv'
    BY <1>5 DEF GraphLoopInv
  <2>. QED
    BY <1>7, <2>1, QuietRetrieval DEF Invariant
<1>. QED
  BY <1>1, <1>6, <1>7

-----------------------------------------------------------------------------
(* The prompts as the model is asked                                         *)

\* What holds while the model is asked.
LEMMA AskingNow ==
  ASSUME Invariant, Asking
  PROVE  /\ TypeOK /\ IInv /\ GraphInv
         /\ TurnsProjected /\ CommandsObserved /\ ObservationsKept /\ ErrorTracked
         /\ FilesTracked /\ SliceTracked /\ promptV1 = PromptOf(Exchanges, step)
         /\ Len(Exchanges) = step /\ Len(stepObjs) = step /\ step \in Nat
         /\ pc \notin {"observation", "rejectobj", "complainobj", "fatalobj", "files"}
<1>1. pc \in BeforeTurn /\ pc \notin {"begin", "top"} \cup Final
  BY DEF Asking, BeforeTurn, Final
<1>2. TypeOK /\ IInv /\ GraphInv /\ LoopTracked /\ PromptTracked /\ SliceTracked
  BY DEF Invariant, GraphLoopInv, RetrievalInv, IInv
<1>3. /\ TurnsProjected /\ CommandsObserved /\ ObservationsKept /\ ErrorTracked
      /\ FilesTracked
  BY <1>1, <1>2 DEF LoopTracked
<1>4. Len(Exchanges) = step
  BY <1>1, <1>3 DEF TurnsProjected
<1>5. Len(stepObjs) = step
  BY <1>1, <1>2 DEF GraphInv, StepsChained
<1>6. step \in Nat
  BY <1>2, BudgetsAssumption DEF TypeOK
<1>7. SubSeq(Exchanges, 1, step) = Exchanges
  <2>1. Exchanges \in Seq(Pair)
    BY <1>2, ExchangesType DEF Pairs
  <2>. QED
    BY <1>4, <1>6, <2>1
<1>8. promptV1 = PromptOf(Exchanges, step)
  BY <1>1, <1>2, <1>7 DEF PromptTracked, Asked
<1>9. pc \notin {"observation", "rejectobj", "complainobj", "fatalobj", "files"}
  BY DEF Asking
<1>. QED
  BY <1>2, <1>3, <1>4, <1>5, <1>6, <1>8, <1>9

\* The window over the exchanges shows the latest turns, in order.
LEMMA TurnsShown ==
  ASSUME Invariant, Asking, NEW n \in Nat \ {0}
  PROVE  LET shown == Window(Exchanges, n)
         IN  /\ Omitted(Exchanges, n) + Len(shown) = step /\ Len(shown) <= n
             /\ Omitted(Exchanges, n) \in Nat /\ shown \in Pairs
             /\ \A k \in DOMAIN shown : /\ shown[k].turn = Omitted(Exchanges, n) + k - 1
                                        /\ Len(shown[k].feedback) = 1
<1>. DEFINE shown == Window(Exchanges, n)
            first == Omitted(Exchanges, n)
<1>1. /\ Len(Exchanges) = step /\ TurnsProjected /\ step \in Nat /\ Exchanges \in Seq(Pair)
      /\ DOMAIN Exchanges = 1..step
  BY AskingNow, ExchangesType DEF Pairs
<1>2. /\ first \in 0..step /\ shown \in Seq(Pair) /\ first + Len(shown) = step
      /\ Len(shown) <= n /\ DOMAIN shown = 1..Len(shown)
      /\ \A k \in 1..Len(shown) : first + k \in 1..step /\ shown[k] = Exchanges[first + k]
  BY <1>1, WindowAt
<1>3. \A k \in 1..step : Exchanges[k].turn = k - 1 /\ Len(Exchanges[k].feedback) = 1
  BY <1>1 DEF TurnsProjected
<1>. HIDE DEF shown, first
<1>4. \A k \in DOMAIN shown : shown[k].turn = first + k - 1 /\ Len(shown[k].feedback) = 1
  BY <1>2, <1>3
<1>5. first \in Nat /\ shown \in Pairs
  BY <1>1, <1>2 DEF Pairs
<1>. QED
  BY <1>2, <1>4, <1>5 DEF shown, first

\* Where the model is asked, the v1 prompt is complete.
LEMMA TranscriptNow == Invariant => TranscriptComplete
<1>. SUFFICES ASSUME Invariant, Asking  PROVE TranscriptComplete
  BY DEF TranscriptComplete
<1>1. /\ promptV1.tail = Window(Exchanges, MaxTailExchanges)
      /\ promptV1.omitted = Omitted(Exchanges, MaxTailExchanges)
  BY AskingNow DEF PromptOf
<1>2. MaxTailExchanges \in Nat \ {0}
  BY WindowsAssumption
<1>. QED
  BY <1>1, <1>2, TurnsShown DEF TranscriptComplete

\* The lines of the digest, one for each of the steps before the tail.
LEMMA DigestLines ==
  ASSUME Invariant, Asking
  PROVE  LET first == Omitted(Exchanges, V2TailExchanges)
         IN  /\ DOMAIN slice.digest = 1..first /\ first \in 0..step
             /\ \A k \in 1..first : /\ slice.digest[k] = DigestLine(k)
                                    /\ stepObjs[k].index = k - 1
<1>. DEFINE first == Omitted(Exchanges, V2TailExchanges)
<1>1. TypeOK /\ StepsChained /\ Len(stepObjs) = step /\ Len(Exchanges) = step /\ SliceTracked
  BY AskingNow DEF GraphInv
<1>2. first = Omitted(stepObjs, V2TailExchanges)
  BY <1>1 DEF Omitted
<1>3. /\ DOMAIN DigestSteps = 1..first /\ \A k \in DOMAIN DigestSteps : DigestSteps[k] = k
      /\ first \in 0..step
  BY <1>1, <1>2, DigestCount
<1>4. slice.digest = [k \in DOMAIN DigestSteps |-> DigestLine(DigestSteps[k])]
  BY <1>1 DEF SliceTracked
<1>5. \A k \in DOMAIN stepObjs : stepObjs[k].index = k - 1
  BY <1>1 DEF StepsChained
<1>6. stepObjs \in Seq([index : Nat, follows : Nat]) /\ step \in Nat
  BY <1>1, BudgetsAssumption DEF TypeOK
<1>. HIDE DEF first
<1>7. \A k \in 1..first : k \in DOMAIN stepObjs
  BY <1>1, <1>3, <1>6
<1>. QED
  BY <1>3, <1>4, <1>5, <1>7 DEF first

\* Digest and tail are the whole history.
LEMMA HistoryNow == Invariant => HistoryOnce
<1>. SUFFICES ASSUME Invariant, Asking  PROVE HistoryOnce
  BY DEF HistoryOnce
<1>. DEFINE first == Omitted(Exchanges, V2TailExchanges)
            old == [k \in DOMAIN slice.digest |-> slice.digest[k].turn]
            new == [k \in DOMAIN slice.tail |-> slice.tail[k].turn]
<1>1. /\ slice.tail = Window(Exchanges, V2TailExchanges) /\ step \in Nat
      /\ V2TailExchanges \in Nat \ {0}
  BY AskingNow, WindowsAssumption DEF SliceTracked
<1>2. /\ first + Len(slice.tail) = step /\ first \in Nat /\ slice.tail \in Pairs
      /\ \A k \in DOMAIN slice.tail : slice.tail[k].turn = first + k - 1
  BY <1>1, TurnsShown
<1>3. /\ DOMAIN slice.digest = 1..first
      /\ \A k \in 1..first : /\ slice.digest[k] = DigestLine(k)
                             /\ stepObjs[k].index = k - 1
  BY DigestLines
<1>4. \A k \in 1..first : slice.digest[k].turn = k - 1
  <2>1. \A k : DigestLine(k).turn = stepObjs[k].index
    BY DEF DigestLine
  <2>. QED
    BY <1>3, <2>1
<1>5. Len(slice.tail) \in Nat /\ DOMAIN slice.tail = 1..Len(slice.tail)
  BY <1>2 DEF Pairs
<1>. HIDE DEF first
<1>6. old \in Seq(Nat) /\ Len(old) = first /\ \A k \in 1..first : old[k] = k - 1
  <2>1. \A k \in 1..first : k - 1 \in Nat
    BY <1>2
  <2>2. old = [k \in 1..first |-> k - 1]
    BY <1>3, <1>4
  <2>. HIDE DEF old
  <2>. QED
    BY <1>2, <2>1, <2>2
<1>7. /\ new \in Seq(Nat) /\ Len(new) = Len(slice.tail)
      /\ \A k \in 1..Len(slice.tail) : new[k] = first + k - 1
  <2>1. \A k \in 1..Len(slice.tail) : first + k - 1 \in Nat
    BY <1>2, <1>5
  <2>2. new = [k \in 1..Len(slice.tail) |-> first + k - 1]
    <3>1. \A k \in 1..Len(slice.tail) : slice.tail[k].turn = first + k - 1
      BY <1>2, <1>5
    <3>. QED
      BY <1>5, <3>1
  <2>. HIDE DEF new
  <2>. QED
    BY <1>5, <2>1, <2>2
<1>. HIDE DEF old, new
<1>8. /\ old \o new \in Seq(Nat) /\ Len(old \o new) = step
      /\ \A k \in 1..first : (old \o new)[k] = k - 1
      /\ \A k \in 1..Len(slice.tail) : (old \o new)[first + k] = first + k - 1
  <2>1. /\ old \o new \in Seq(Nat) /\ Len(old \o new) = Len(old) + Len(new)
        /\ \A i \in 1..Len(old) : (old \o new)[i] = old[i]
        /\ \A i \in 1..Len(new) : (old \o new)[Len(old) + i] = new[i]
    <3>1. old \in Seq(Nat) /\ new \in Seq(Nat)
      BY <1>6, <1>7
    <3>. QED
      BY <3>1, ConcatAt
  <2>. QED
    BY <1>2, <1>6, <1>7, <2>1
<1>9. ASSUME NEW k \in 1..step  PROVE (old \o new)[k] = k - 1
  <2>1. CASE k \in 1..first
    BY <1>8, <2>1
  <2>2. CASE k \notin 1..first
    <3>1. /\ k - first \in 1..Len(slice.tail)
          /\ first + (k - first) = k /\ first + (k - first) - 1 = k - 1
      BY <1>1, <1>2, <1>5, <2>2
    <3>2. (old \o new)[first + (k - first)] = first + (k - first) - 1
      BY <1>8, <3>1
    <3>. QED
      BY <3>1, <3>2
  <2>. QED
    BY <2>1, <2>2
<1>10. old \o new = [k \in 1..step |-> k - 1]
  <2>. DEFINE all == old \o new
  <2>1. all \in Seq(Nat) /\ Len(all) = step /\ \A k \in 1..step : all[k] = k - 1
    BY <1>8, <1>9
  <2>. HIDE DEF all
  <2>2. all = [k \in 1..step |-> k - 1]
    BY <1>1, <2>1
  <2>. QED
    BY <2>2 DEF all
<1>. QED
  BY <1>10 DEF HistoryOnce, old, new

\* The digest tells what the log says of each turn in it.
LEMMA DigestNow == Invariant => DigestTruthful
<1>. SUFFICES ASSUME Invariant, Asking, NEW k \in DOMAIN slice.digest
              PROVE  LET line == slice.digest[k]
                         seen == EventsOf({"output_observed"}, line.turn)
                     IN  IF seen = {} THEN line.command = 0
                         ELSE \A i \in seen : line.command # 0 /\ line.exit = log[i].note
  BY DEF DigestTruthful
<1>. DEFINE seen == EventsOf({"output_observed"}, k - 1)
<1>1. /\ TypeOK /\ IInv /\ GraphInv /\ CommandsObserved /\ ObservationsKept
      /\ pc # "observation" /\ step \in Nat
  BY AskingNow
<1>2. slice.digest[k] = DigestLine(k) /\ stepObjs[k].index = k - 1 /\ k \in 1..step
  <2>1. /\ DOMAIN slice.digest = 1..Omitted(Exchanges, V2TailExchanges)
        /\ Omitted(Exchanges, V2TailExchanges) \in 0..step
        /\ \A j \in 1..Omitted(Exchanges, V2TailExchanges) :
             slice.digest[j] = DigestLine(j) /\ stepObjs[j].index = j - 1
    BY DigestLines
  <2>. QED
    BY <1>1, <2>1
<1>3. k - 1 \in 0..(step - 1) /\ k - 1 < step
  BY <1>1, <1>2
<1>4. slice.digest[k].turn = k - 1
  BY <1>2 DEF DigestLine
<1>5. /\ commandObjs \in Seq([step : Nat, text : Commands])
      /\ observationObjs \in Seq([command : Nat, outcome : Outcomes])
  BY <1>1 DEF TypeOK
<1>6. ASSUME NEW c \in DOMAIN commandObjs  PROVE c \in CommandOf(k) <=> TurnOf(c) = k - 1
  <2>1. commandObjs[c].step \in Nat /\ TurnOf(c) = commandObjs[c].step - 1
    BY <1>1, TurnOfCommand
  <2>2. c \in CommandOf(k) <=> commandObjs[c].step = k
    BY DEF CommandOf
  <2>. QED
    BY <1>2, <2>1, <2>2
<1>7. CASE seen = {}
  <2>1. CommandOf(k) = {}
    <3>1. CommandOf(k) \subseteq DOMAIN commandObjs
      BY DEF CommandOf
    <3>2. \A c \in DOMAIN commandObjs : TurnOf(c) = k - 1 => seen # {}
      BY <1>1, <1>3 DEF CommandsObserved
    <3>. QED
      BY <1>6, <1>7, <3>1, <3>2
  <2>2. slice.digest[k].command = 0
    BY <1>2, <2>1 DEF DigestLine
  <2>. QED
    BY <1>4, <1>7, <2>2
<1>8. CASE seen # {}
  <2>. SUFFICES ASSUME NEW i \in seen
                PROVE  slice.digest[k].command # 0 /\ slice.digest[k].exit = log[i].note
    BY <1>4, <1>8
  <2>1. /\ i \in DOMAIN log /\ log[i].type = "output_observed" /\ log[i].step = k - 1
    BY DEF EventsOf, EventsIn
  <2>2. PICK o \in DOMAIN observationObjs : TurnOf(observationObjs[o].command) = k - 1
    BY <1>1, <2>1 DEF ObservationsKept
  <2>. DEFINE c == observationObjs[o].command
              produced == {p \in DOMAIN observationObjs : observationObjs[p].command = c}
  <2>3. c \in DOMAIN commandObjs /\ c \in CommandOf(k)
    <3>1. c \in DOMAIN commandObjs
      BY <1>1, CommandObserved
    <3>. QED
      BY <1>6, <2>2, <3>1
  <2>4. CommandOf(k) = {c}
    <3>1. \A d \in DOMAIN commandObjs : commandObjs[d].step = commandObjs[c].step => d = c
      BY <1>1, <2>3 DEF GraphInv, CommandsIssued
    <3>. QED
      BY <2>3, <3>1 DEF CommandOf
  <2>5. Max(CommandOf(k)) = c /\ c # 0
    <3>1. c \in 1..Len(commandObjs) /\ Len(commandObjs) \in Nat
      BY <1>5, <2>3
    <3>2. CommandOf(k) \in SUBSET (0..Len(commandObjs)) /\ CommandOf(k) # {}
      BY <2>4, <3>1
    <3>3. Max(CommandOf(k)) \in CommandOf(k)
      BY <3>1, <3>2, GreatestOf
    <3>. QED
      BY <2>4, <3>1, <3>3
  <2>6. slice.digest[k].command = c /\ slice.digest[k].exit = ExitOf(c)
    <3>1. DigestLine(k) = [turn |-> stepObjs[k].index, command |-> Max(CommandOf(k)),
                           exit |-> ExitOf(Max(CommandOf(k)))]
      BY <2>3 DEF DigestLine
    <3>. HIDE DEF c
    <3>. QED
      BY <1>2, <2>5, <3>1
  <2>7. o \in produced
    OBVIOUS
  <2>8. Min(produced) \in produced
    <3>1. DOMAIN observationObjs \in SUBSET Nat
      BY <1>5
    <3>2. produced \in SUBSET Nat /\ produced # {}
      BY <2>7, <3>1
    <3>. HIDE DEF produced
    <3>. QED
      BY <3>2, LeastOf
  <2>9. ExitOf(c) = observationObjs[Min(produced)].outcome
    BY <2>7 DEF ExitOf
  <2>. DEFINE p == Min(produced)
  <2>10. p \in DOMAIN observationObjs /\ observationObjs[p].command = c
    BY <2>8
  <2>. HIDE DEF p, c, produced
  <2>11. PICK j \in EventsOf({"output_observed"}, k - 1) : log[j].note = observationObjs[p].outcome
    <3>1. ToldOf(observationObjs[p])
      BY <1>1, <2>10 DEF GraphInv, ObservationsTold
    <3>2. TurnOf(c) = k - 1
      BY <1>6, <2>3
    <3>. QED
      BY <2>10, <3>1, <3>2 DEF ToldOf, TurnOf
  <2>12. i = j
    <3>1. AnsweredIn(log, k - 1)
      BY <1>1, <1>3 DEF IInv, ExactlyOneFeedback
    <3>2. i \in EventsIn(log, FeedbackTypes, k - 1) /\ j \in EventsIn(log, FeedbackTypes, k - 1)
      BY <2>1, <2>11 DEF EventsOf, EventsIn, FeedbackTypes
    <3>. QED
      BY <3>1, <3>2 DEF AnsweredIn
  <2>. QED
    BY <2>5, <2>6, <2>9, <2>11, <2>12 DEF p
<1>. QED
  BY <1>7, <1>8

\* The active error is the one reported last.
LEMMA ErrorNow == Invariant => ActiveErrorCurrent
<1>. SUFFICES ASSUME Invariant, Asking  PROVE ActiveErrorCurrent
  BY DEF ActiveErrorCurrent
<1>1. /\ TypeOK /\ GraphInv /\ ErrorTracked /\ SliceTracked
      /\ pc \notin {"rejectobj", "complainobj", "fatalobj"}
  BY AskingNow
<1>2. slice.error = Len(errorObjs) /\ slice.failing = FailingCommand
  BY <1>1 DEF SliceTracked, ActiveError
<1>3. /\ ErrorReports = {} <=> errorObjs = <<>>
      /\ \A i \in DOMAIN log : LastReport(i) =>
           LET from == errorObjs[Len(errorObjs)].observation
           IN  IF log[i].type = "error_raised"
                 THEN from # 0 /\ TurnOf(observationObjs[from].command) = log[i].step
                 ELSE from = 0
  BY <1>1 DEF ErrorTracked
<1>4. CASE ErrorReports = {}
  <2>1. slice.error = 0
    BY <1>2, <1>3, <1>4
  <2>. QED
    BY <1>4, <2>1 DEF ActiveErrorCurrent
<1>5. CASE ErrorReports # {}
  <2>. DEFINE last == Max(ErrorReports)
              e == Len(errorObjs)
              from == errorObjs[e].observation
  <2>1. last \in DOMAIN log /\ LastReport(last)
    <3>1. DOMAIN log = 1..Len(log) /\ Len(log) \in Nat
      BY <1>1 DEF TypeOK
    <3>2. ErrorReports \in SUBSET (0..Len(log)) /\ ErrorReports \subseteq DOMAIN log
      BY <3>1 DEF ErrorReports
    <3>3. Max(ErrorReports) \in ErrorReports /\ \A k \in ErrorReports : k <= Max(ErrorReports)
      BY <1>5, <3>1, <3>2, GreatestOf
    <3>. QED
      BY <3>2, <3>3 DEF LastReport
  <2>2. e \in DOMAIN errorObjs /\ e # 0 /\ ActiveError = e
    <3>1. errorObjs \in Seq([kind : {"LLMError", "ParseError", "ExecError", "NonZeroExit"},
                             observation : Nat])
      BY <1>1 DEF TypeOK
    <3>. QED
      BY <1>3, <1>5, <3>1 DEF ActiveError
  <2>. HIDE DEF last
  <2>3. IF log[last].type = "error_raised"
          THEN from # 0 /\ TurnOf(observationObjs[from].command) = log[last].step
          ELSE from = 0
    BY <1>3, <2>1
  <2>4. FailingCommand = IF from = 0 THEN 0 ELSE observationObjs[from].command
    BY <2>2 DEF FailingCommand
  <2>5. CASE log[last].type = "error_raised"
    <3>1. from \in DOMAIN observationObjs
      <4>1. from \in Blamed
        BY <2>2, <2>3, <2>5 DEF Blamed, CommandErrors
      <4>2. Blamed \subseteq FailedObservations
        BY <1>1 DEF GraphInv, ErrorsBlamed, ErrorChains, Blamed, CommandErrors, FailedObservations
      <4>. QED
        BY <4>1, <4>2 DEF FailedObservations
    <3>2. observationObjs[from].command \in DOMAIN commandObjs
      BY <1>1, <3>1 DEF GraphInv, ObservationsTold
    <3>3. observationObjs[from].command # 0
      <4>1. DOMAIN commandObjs = 1..Len(commandObjs)
        BY <1>1 DEF TypeOK
      <4>. QED
        BY <3>2, <4>1
    <3>4. /\ slice.error # 0 /\ slice.failing # 0
          /\ stepObjs[commandObjs[slice.failing].step].index = log[last].step
      BY <1>2, <2>2, <2>3, <2>4, <2>5, <3>3 DEF TurnOf
    <3>. QED
      BY <1>5, <2>5, <3>4 DEF ActiveErrorCurrent, last
  <2>6. CASE log[last].type # "error_raised"
    <3>1. slice.error # 0 /\ slice.failing = 0
      BY <1>2, <2>2, <2>3, <2>4, <2>6
    <3>. QED
      BY <1>5, <2>6, <3>1 DEF ActiveErrorCurrent, last
  <2>. QED
    BY <2>5, <2>6
<1>. QED
  BY <1>4, <1>5

\* A sequence without repetitions has as many elements as positions.
LEMMA SetSize ==
  ASSUME NEW S, NEW s \in Seq(S), \A i, j \in DOMAIN s : s[i] = s[j] => i = j
  PROVE  Cardinality(ToSet(s)) = Len(s)
<1>1. s \in Bijection(1..Len(s), ToSet(s))
  <2>1. s \in [1..Len(s) -> ToSet(s)]
    BY DEF ToSet
  <2>2. \A y \in ToSet(s) : \E i \in 1..Len(s) : s[i] = y
    BY DEF ToSet
  <2>. QED
    BY <2>1, <2>2 DEF Bijection, Injection, Surjection, IsInjective
<1>2. ExistsBijection(1..Len(s), ToSet(s))
  BY <1>1 DEF ExistsBijection
<1>3. IsFiniteSet(1..Len(s)) /\ Cardinality(1..Len(s)) = Len(s)
  <2>. DEFINE n == Len(s)
  <2>1. n \in Nat
    OBVIOUS
  <2>. HIDE DEF n
  <2>2. IsFiniteSet(1..n) /\ Cardinality(1..n) = n
    BY <2>1, FS_Interval
  <2>. QED
    BY <2>2 DEF n
<1>. QED
  BY <1>2, <1>3, FS_Bijection

\* The files shown and the files counted are all files.
LEMMA FilesNow == Invariant => FilesAccounted
<1>. SUFFICES ASSUME Invariant, Asking  PROVE FilesAccounted
  BY DEF FilesAccounted
<1>. DEFINE first == Omitted(files, V2MaxFiles)
            shown == Window(files, V2MaxFiles)
<1>1. /\ TypeOK /\ FilesTracked /\ SliceTracked /\ pc # "files"
      /\ V2MaxFiles \in Nat \ {0}
  BY AskingNow, WindowsAssumption
<1>2. files \in Seq(Paths)
  BY <1>1 DEF TypeOK
<1>3. /\ \A i, j \in DOMAIN files : files[i] = files[j] => i = j
      /\ \A t \in touches : t[2] \in ToSet(files)
      /\ ToSet(files) = PathsOf(ran)
  BY <1>1 DEF FilesTracked
<1>4. slice.files = shown /\ slice.moreFiles = first
  BY <1>1 DEF SliceTracked
<1>5. /\ first \in 0..Len(files) /\ shown \in Seq(Paths) /\ first + Len(shown) = Len(files)
      /\ DOMAIN shown = 1..Len(shown)
      /\ \A k \in 1..Len(shown) : first + k \in 1..Len(files) /\ shown[k] = files[first + k]
  BY <1>1, <1>2, WindowAt
<1>6. Cardinality(ToSet(files)) = Len(files)
  BY <1>2, <1>3, SetSize
<1>. HIDE DEF shown, first
<1>7. \A i, j \in DOMAIN shown : shown[i] = shown[j] => i = j
  <2>. SUFFICES ASSUME NEW i \in 1..Len(shown), NEW j \in 1..Len(shown), shown[i] = shown[j]
                PROVE  i = j
    BY <1>5
  <2>1. first + i \in DOMAIN files /\ first + j \in DOMAIN files
    BY <1>2, <1>5
  <2>2. files[first + i] = files[first + j]
    BY <1>5
  <2>3. first + i = first + j
    BY <1>3, <2>1, <2>2
  <2>. QED
    BY <1>2, <1>5, <2>3
<1>8. Cardinality(ToSet(shown)) = Len(shown)
  BY <1>5, <1>7, SetSize
<1>9. ToSet(shown) \subseteq ToSet(files)
  <2>1. \A k \in DOMAIN shown : first + k \in DOMAIN files /\ shown[k] = files[first + k]
    BY <1>2, <1>5
  <2>. QED
    BY <2>1 DEF ToSet
<1>10. Len(shown) + first = Len(files)
  BY <1>2, <1>5
<1>11. PathsOf(ran) = UNION {ToSet(FilesOf[ran[c]]) : c \in DOMAIN ran}
  BY DEF PathsOf
<1>12. /\ Len(slice.files) + slice.moreFiles = Cardinality(PathsOf(ran))
       /\ Cardinality(ToSet(slice.files)) = Len(slice.files)
       /\ ToSet(slice.files) \subseteq PathsOf(ran)
       /\ \A t \in touches : t[2] \in PathsOf(ran)
  BY <1>3, <1>4, <1>6, <1>8, <1>9, <1>10
<1>. QED
  BY <1>11, <1>12 DEF FilesAccounted

\* The head and the tail that are kept of a long text, and the count of the rest.
LEMMA TruncationAt ==
  ASSUME NEW n \in Nat, NEW max \in Nat, max >= 2
  PROVE  LET text == [k \in 1..n |-> k]
             cut  == TruncateMiddle(text, max)
             kept == cut.head \o cut.tail
         IN  /\ Len(kept) <= max /\ Len(kept) + cut.omitted = n
             /\ \A k \in DOMAIN kept :
                  kept[k] = IF k <= Len(cut.head) THEN k ELSE k + cut.omitted
<1>. DEFINE text == [k \in 1..n |-> k]
            half == max \div 2
            cut  == TruncateMiddle(text, max)
            kept == cut.head \o cut.tail
<1>1. text \in Seq(Nat) /\ Len(text) = n /\ \A k \in 1..n : text[k] = k
  OBVIOUS
<1>2. half \in Nat /\ half # 0 /\ 2 * half <= max
  OBVIOUS
<1>. HIDE DEF text, half
<1>3. CASE n <= max
  <2>1. cut = [head |-> text, omitted |-> 0, tail |-> <<>>]
    BY <1>1, <1>3 DEF TruncateMiddle
  <2>2. cut.head = text /\ cut.omitted = 0 /\ cut.tail = <<>>
    BY <2>1
  <2>3. kept = text
    BY <1>1, <2>2
  <2>4. DOMAIN text = 1..n
    BY <1>1
  <2>. HIDE DEF cut, kept
  <2>5. Len(kept) <= max /\ Len(kept) + cut.omitted = n
    BY <1>1, <1>3, <2>2, <2>3
  <2>6. \A k \in DOMAIN kept : kept[k] = IF k <= Len(cut.head) THEN k ELSE k + cut.omitted
    BY <1>1, <2>2, <2>3, <2>4
  <2>. QED
    BY <2>5, <2>6 DEF cut, kept, text
<1>4. CASE ~(n <= max)
  <2>. DEFINE front == SubSeq(text, 1, half)
              back  == SubSeq(text, n - half + 1, n)
  <2>1. cut = [head |-> front, omitted |-> n - 2 * half, tail |-> back]
    BY <1>1, <1>2, <1>4 DEF TruncateMiddle, Half, half
  <2>2. n - 2 * half \in Nat /\ n - half \in Nat /\ half <= n
    BY <1>2, <1>4
  <2>3. /\ front \in Seq(Nat) /\ Len(front) = half /\ \A k \in 1..half : front[k] = k
    BY <1>1, <1>2, <2>2
  <2>4. back \in Seq(Nat) /\ Len(back) = half
    BY <1>1, <1>2, <2>2
  <2>5. \A k \in 1..half : back[k] = n - half + k
    BY <1>1, <1>2, <2>2
  <2>. HIDE DEF front, back
  <2>6. cut.head = front /\ cut.omitted = n - 2 * half /\ cut.tail = back
    <3>. HIDE DEF cut
    <3>. QED
      BY <2>1
  <2>7. /\ front \o back \in Seq(Nat) /\ Len(front \o back) = Len(front) + Len(back)
        /\ \A i \in 1..Len(front) : (front \o back)[i] = front[i]
        /\ \A i \in 1..Len(back) : (front \o back)[Len(front) + i] = back[i]
    <3>1. front \in Seq(Nat) /\ back \in Seq(Nat)
      BY <2>3, <2>4
    <3>. QED
      BY <3>1, ConcatAt
  <2>8. kept = front \o back
    BY <2>6
  <2>. HIDE DEF kept, cut
  <2>9. kept \in Seq(Nat) /\ Len(kept) = 2 * half /\ DOMAIN kept = 1..(2 * half)
    BY <1>2, <2>3, <2>4, <2>7, <2>8
  <2>10. Len(kept) <= max /\ Len(kept) + cut.omitted = n
    BY <1>2, <2>2, <2>6, <2>9
  <2>11. ASSUME NEW k \in 1..(2 * half)
         PROVE  kept[k] = IF k <= Len(cut.head) THEN k ELSE k + cut.omitted
    <3>1. CASE k <= half
      <4>1. k \in 1..half
        BY <1>2, <3>1
      <4>. QED
        BY <2>3, <2>6, <2>7, <2>8, <3>1, <4>1
    <3>2. CASE ~(k <= half)
      <4>1. k - half \in 1..half /\ half + (k - half) = k
        BY <1>2, <3>2
      <4>2. (front \o back)[half + (k - half)] = back[k - half]
        BY <2>3, <2>4, <2>7, <4>1
      <4>3. back[k - half] = n - half + (k - half)
        BY <2>5, <4>1
      <4>4. n - half + (k - half) = k + (n - 2 * half)
        BY <1>2
      <4>. QED
        BY <2>3, <2>6, <2>8, <3>2, <4>1, <4>2, <4>3, <4>4
    <3>. QED
      BY <3>1, <3>2
  <2>. QED
    BY <2>9, <2>10, <2>11 DEF cut, kept, text
<1>. QED
  BY <1>3, <1>4

-----------------------------------------------------------------------------
(* The requests                                                              *)

\* The texts of a request, and its blocks.
RequestTexts ==
    Texts \cup {<<"instruction">>, <<"slice">>}
      \cup {<<"feedback", n>> : n \in Nat} \cup {<<"budget", n>> : n \in Nat}
RequestBlocks == [text : RequestTexts, cache : BOOLEAN]
Volatile(text) == text[1] \in {"budget", "slice"}

\* Which block of a request carries a breakpoint, with prompt caching.
LEMMA SentAt ==
  ASSUME NEW messages, EnablePromptCaching
  PROVE  LET flat == FlattenSeq(messages)
         IN  /\ DOMAIN Sent(messages) = DOMAIN flat
             /\ \A k \in DOMAIN flat : Sent(messages)[k].text = flat[k].text
             /\ Breakpoints(Sent(messages)) = {k \in DOMAIN flat : k = 1 \/ flat[k].cache}
<1>. DEFINE flat == FlattenSeq(messages)
<1>1. Sent(messages) =
        [k \in DOMAIN flat |->
           [text |-> flat[k].text,
            breakpoint |-> EnablePromptCaching /\ (k = 1 \/ flat[k].cache),
            flag |-> ~EnablePromptCaching /\ flat[k].cache]]
  BY DEF Sent
<1>. HIDE DEF flat
<1>2. /\ DOMAIN Sent(messages) = DOMAIN flat
      /\ \A k \in DOMAIN flat : /\ Sent(messages)[k].text = flat[k].text
                                /\ Sent(messages)[k].breakpoint <=> k = 1 \/ flat[k].cache
  <2>1. DOMAIN Sent(messages) = DOMAIN flat
    BY <1>1
  <2>2. ASSUME NEW k \in DOMAIN flat
        PROVE  /\ Sent(messages)[k].text = flat[k].text
               /\ Sent(messages)[k].breakpoint = (EnablePromptCaching /\ (k = 1 \/ flat[k].cache))
    <3>1. Sent(messages)[k] =
            [text |-> flat[k].text,
             breakpoint |-> EnablePromptCaching /\ (k = 1 \/ flat[k].cache),
             flag |-> ~EnablePromptCaching /\ flat[k].cache]
      BY <1>1
    <3>. QED
      BY <3>1
  <2>. QED
    BY <2>1, <2>2
<1>3. Breakpoints(Sent(messages)) = {k \in DOMAIN flat : k = 1 \/ flat[k].cache}
  BY <1>2 DEF Breakpoints
<1>. QED
  BY <1>2, <1>3 DEF flat

\* Breakpoints at one or two positions are among the four the API allows.
LEMMA FewBreakpoints == ASSUME NEW a, NEW b PROVE Cardinality({a, b}) \in 1..4
<1>1. IsFiniteSet({}) /\ Cardinality({}) = 0
  BY FS_EmptySet
<1>2. IsFiniteSet({} \cup {a}) /\ Cardinality({} \cup {a}) = 1
  BY <1>1, FS_AddElement
<1>3. {} \cup {a} = {a}
  OBVIOUS
<1>4. Cardinality({a} \cup {b}) = IF b \in {a} THEN Cardinality({a}) ELSE Cardinality({a}) + 1
  BY <1>2, <1>3, FS_AddElement
<1>5. {a} \cup {b} = {a, b}
  OBVIOUS
<1>. QED
  BY <1>2, <1>3, <1>4, <1>5

\* The v1 request: its body, the last block marked or not, and the budget line.
LEMMA RequestV1 ==
  ASSUME Invariant, Asking, EnablePromptCaching
  PROVE  LET last == Len(promptV1.body)
         IN  /\ last \in Nat /\ last >= 2
             /\ Breakpoints(Sent(MessagesV1)) = IF promptV1.marked THEN {1, last} ELSE {1}
             /\ \A k \in DOMAIN Sent(MessagesV1) :
                  Volatile(Sent(MessagesV1)[k].text) => k = last + 1
<1>. DEFINE body == promptV1.body
            marked == promptV1.marked
            last == Len(body)
            messages == MessagesV1
            flat == FlattenSeq(messages)
            upto == [n \in 0..last |-> IF n = last THEN last + 1 ELSE n]
<1>1. body \in Seq(Texts) /\ last \in Nat /\ last >= 2 /\ marked \in BOOLEAN /\ step \in Nat
  <2>. DEFINE omitted == Omitted(Exchanges, MaxTailExchanges)
              tail == Window(Exchanges, MaxTailExchanges)
  <2>1. body = Body(omitted, tail) /\ marked \in BOOLEAN /\ step \in Nat
    <3>1. promptV1 = [body |-> Body(omitted, tail), marked |-> omitted = 0,
                      omitted |-> omitted, tail |-> tail, budgetLine |-> step]
      BY AskingNow DEF PromptOf
    <3>2. step \in Nat
      BY AskingNow
    <3>. HIDE DEF omitted, tail
    <3>. QED
      BY <3>1, <3>2
  <2>2. omitted \in Nat /\ tail \in Pairs
    BY TurnsShown, WindowsAssumption
  <2>. HIDE DEF omitted, tail
  <2>3. body \in Seq(Texts) /\ Len(body) = 2 + 2 * Len(tail)
    BY <2>1, <2>2, BodyAt
  <2>4. Len(tail) \in Nat
    BY <2>2 DEF Pairs
  <2>. QED
    BY <2>1, <2>3, <2>4
<1>2. messages = [k \in 1..last |-> IF k = last THEN <<Block(body[k], marked), BudgetLine>>
                                    ELSE <<Block(body[k], FALSE)>>]
  <2>1. DOMAIN body = 1..last
    BY <1>1
  <2>. QED
    BY <2>1 DEF MessagesV1
<1>. HIDE DEF body, marked, last, messages
<1>3. /\ \A k \in 1..last, cache \in BOOLEAN : Block(body[k], cache) \in RequestBlocks
      /\ BudgetLine \in RequestBlocks
  <2>1. \A k \in 1..last : body[k] \in RequestTexts
    BY <1>1 DEF RequestTexts, last
  <2>2. <<"budget", step>> \in RequestTexts
    BY <1>1 DEF RequestTexts
  <2>. QED
    BY <2>1, <2>2 DEF Block, BudgetLine, RequestBlocks
<1>4. /\ messages \in Seq(Seq(RequestBlocks)) /\ Len(messages) = last
      /\ \A k \in 1..last : k # last => /\ Len(messages[k]) = 1
                                        /\ messages[k][1] = Block(body[k], FALSE)
      /\ Len(messages[last]) = 2 /\ messages[last][1] = Block(body[last], marked)
      /\ messages[last][2] = BudgetLine
  <2>1. /\ \A k \in 1..last : <<Block(body[k], FALSE)>> \in Seq(RequestBlocks)
        /\ <<Block(body[last], marked), BudgetLine>> \in Seq(RequestBlocks)
    <3>1. \A b, c \in RequestBlocks : <<b>> \in Seq(RequestBlocks) /\ <<b, c>> \in Seq(RequestBlocks)
      OBVIOUS
    <3>2. last \in 1..last /\ FALSE \in BOOLEAN
      BY <1>1
    <3>. QED
      BY <1>1, <1>3, <3>1, <3>2
  <2>2. \A k \in 1..last : k # last => messages[k] = <<Block(body[k], FALSE)>>
    BY <1>2
  <2>3. messages[last] = <<Block(body[last], marked), BudgetLine>>
    <3>1. last \in 1..last
      BY <1>1
    <3>. QED
      BY <1>2, <3>1
  <2>4. \A k \in 1..last : messages[k] \in Seq(RequestBlocks)
    BY <2>1, <2>2, <2>3
  <2>5. messages \in Seq(Seq(RequestBlocks)) /\ Len(messages) = last
    <3>1. messages = [k \in 1..last |-> messages[k]]
      BY <1>2
    <3>. DEFINE Items == Seq(RequestBlocks)
    <3>2. \A k \in 1..last : messages[k] \in Items
      BY <2>4
    <3>3. last \in Nat
      BY <1>1
    <3>. HIDE DEF Items
    <3>4. messages \in Seq(Items) /\ Len(messages) = last
      BY <3>1, <3>2, <3>3
    <3>. QED
      BY <3>4 DEF Items
  <2>6. \A b, c : /\ Len(<<b>>) = 1 /\ <<b>>[1] = b
                 /\ Len(<<b, c>>) = 2 /\ <<b, c>>[1] = b /\ <<b, c>>[2] = c
    OBVIOUS
  <2>7. \A k \in 1..last : k # last => Len(messages[k]) = 1 /\ messages[k][1] = Block(body[k], FALSE)
    BY <2>2, <2>6
  <2>8. /\ Len(messages[last]) = 2 /\ messages[last][1] = Block(body[last], marked)
        /\ messages[last][2] = BudgetLine
    BY <2>3, <2>6
  <2>. QED
    BY <2>5, <2>7, <2>8
<1>5. Lengths(upto, messages, last)
  <2>1. upto[0] = 0 /\ \A k \in 0..last : upto[k] \in Nat
    BY <1>1
  <2>2. ASSUME NEW k \in 1..last  PROVE upto[k] = upto[k - 1] + Len(messages[k])
    <3>1. upto[k - 1] = k - 1 /\ (k # last => upto[k] = k) /\ upto[last] = last + 1
      BY <1>1
    <3>. HIDE DEF upto
    <3>2. (k = last => Len(messages[k]) = 2) /\ (k # last => Len(messages[k]) = 1)
      BY <1>4
    <3>3. last \in Nat /\ k \in Nat
      BY <1>1
    <3>4. CASE k = last
      <4>1. upto[k - 1] = k - 1 /\ upto[k] = k + 1 /\ Len(messages[k]) = 2
        BY <3>1, <3>2, <3>4
      <4>. QED
        BY <3>3, <4>1
    <3>5. CASE k # last
      <4>1. upto[k - 1] = k - 1 /\ upto[k] = k /\ Len(messages[k]) = 1
        BY <3>1, <3>2, <3>5
      <4>. QED
        BY <3>3, <4>1
    <3>. QED
      BY <3>4, <3>5
  <2>. QED
    BY <2>1, <2>2 DEF Lengths
<1>. HIDE DEF upto, flat
<1>6. flat \in Seq(RequestBlocks) /\ Joined(flat, messages, upto, last)
  <2>1. messages # <<>>
    BY <1>1, <1>4
  <2>. QED
    BY <1>4, <1>5, <2>1, FlattenAt DEF flat
<1>7. upto[last] = last + 1 /\ \A k \in 1..last : upto[k - 1] = k - 1
  BY <1>1 DEF upto
<1>8. /\ Len(flat) = last + 1
      /\ \A k \in 1..last : k # last => flat[k] = Block(body[k], FALSE)
      /\ flat[last] = Block(body[last], marked) /\ flat[last + 1] = BudgetLine
  <2>1. Len(flat) = last + 1
    BY <1>6, <1>7 DEF Joined
  <2>2. ASSUME NEW k \in 1..last  PROVE flat[k] = messages[k][1]
    <3>1. 1 \in 1..Len(messages[k])
      <4>1. Len(messages[k]) = 1 \/ Len(messages[k]) = 2
        BY <1>4
      <4>. QED
        BY <4>1
    <3>2. flat[upto[k - 1] + 1] = messages[k][1]
      BY <1>6, <3>1 DEF Joined
    <3>3. upto[k - 1] + 1 = k
      BY <1>1, <1>7
    <3>. QED
      BY <3>2, <3>3
  <2>3. flat[last + 1] = messages[last][2]
    <3>1. last \in 1..last /\ 2 \in 1..Len(messages[last])
      BY <1>1, <1>4
    <3>2. flat[upto[last - 1] + 2] = messages[last][2]
      BY <1>6, <3>1 DEF Joined
    <3>3. upto[last - 1] + 2 = last + 1
      BY <1>1, <1>7, <3>1
    <3>. QED
      BY <3>2, <3>3
  <2>4. last \in 1..last
    BY <1>1
  <2>. QED
    BY <1>4, <2>1, <2>2, <2>3, <2>4
<1>9. DOMAIN flat = 1..(last + 1) /\ \A k \in 1..(last + 1) : k \in 1..last \/ k = last + 1
  BY <1>1, <1>6, <1>8
<1>10. /\ \A k \in DOMAIN flat : flat[k].cache <=> k = last /\ marked
       /\ \A k \in DOMAIN flat : Volatile(flat[k].text) => k = last + 1
  <2>a. ASSUME NEW k \in 1..last, k # last
        PROVE  flat[k].text = body[k] /\ flat[k].cache = FALSE
    <3>1. flat[k] = [text |-> body[k], cache |-> FALSE]
      BY <1>8, <2>a DEF Block
    <3>. QED
      BY <3>1
  <2>1. flat[last].text = body[last] /\ flat[last].cache = marked
    <3>1. flat[last] = [text |-> body[last], cache |-> marked]
      BY <1>8 DEF Block
    <3>. QED
      BY <3>1
  <2>2. flat[last + 1].cache = FALSE
    <3>1. flat[last + 1] = [text |-> <<"budget", step>>, cache |-> FALSE]
      BY <1>8 DEF Block, BudgetLine
    <3>. QED
      BY <3>1
  <2>3. \A k \in 1..last : flat[k].text = body[k]
    BY <2>a, <2>1
  <2>4. \A text \in Texts : ~Volatile(text)
    BY DEF Texts, Volatile
  <2>5. \A k \in 1..last : body[k] \in Texts
    BY <1>1 DEF last
  <2>6. last # last + 1
    BY <1>1
  <2>7. \A k \in DOMAIN flat : flat[k].cache <=> k = last /\ marked
    BY <1>9, <2>a, <2>1, <2>2, <2>6
  <2>8. \A k \in DOMAIN flat : Volatile(flat[k].text) => k = last + 1
    BY <1>9, <2>3, <2>4, <2>5
  <2>. QED
    BY <2>7, <2>8
<1>11. /\ DOMAIN Sent(messages) = DOMAIN flat
       /\ \A k \in DOMAIN flat : Sent(messages)[k].text = flat[k].text
       /\ Breakpoints(Sent(messages)) = {k \in DOMAIN flat : k = 1 \/ flat[k].cache}
  BY SentAt DEF flat
<1>12. Breakpoints(Sent(messages)) = IF marked THEN {1, last} ELSE {1}
  <2>1. 1 \in DOMAIN flat /\ last \in DOMAIN flat
    BY <1>1, <1>9
  <2>. QED
    BY <1>10, <1>11, <2>1
<1>13. \A k \in DOMAIN Sent(messages) : Volatile(Sent(messages)[k].text) => k = last + 1
  BY <1>10, <1>11
<1>. QED
  BY <1>1, <1>12, <1>13 DEF messages, marked, last, body

\* The messages of the v2 tail carry one block each, without a breakpoint and
\* with a text that stays.
PlainTexts == {<<"assistant", n>> : n \in Nat} \cup {<<"feedback", n>> : n \in Nat}
PlainBlocks == [text : PlainTexts, cache : {FALSE}]
PlainMessages == {<<b>> : b \in PlainBlocks}
TailV2 == FlattenSeq([k \in DOMAIN slice.tail |->
             << <<Block(<<"assistant", k>>, FALSE)>>, <<Block(<<"feedback", k>>, FALSE)>> >>])
LEMMA TailPlain ==
  ASSUME NEW S, slice.tail \in Seq(S)
  PROVE  TailV2 \in Seq(PlainMessages)
<1>. DEFINE L == Len(slice.tail)
            Two(k) == << <<Block(<<"assistant", k>>, FALSE)>>, <<Block(<<"feedback", k>>, FALSE)>> >>
            twos == [k \in DOMAIN slice.tail |-> Two(k)]
            upto == [n \in 0..L |-> 2 * n]
<1>1. L \in Nat /\ DOMAIN slice.tail = 1..L
  OBVIOUS
<1>2. ASSUME NEW k \in Nat  PROVE Two(k) \in Seq(PlainMessages) /\ Len(Two(k)) = 2
  <2>1. /\ Block(<<"assistant", k>>, FALSE) \in PlainBlocks
        /\ Block(<<"feedback", k>>, FALSE) \in PlainBlocks
    BY DEF Block, PlainBlocks, PlainTexts
  <2>2. /\ <<Block(<<"assistant", k>>, FALSE)>> \in PlainMessages
        /\ <<Block(<<"feedback", k>>, FALSE)>> \in PlainMessages
    BY <2>1 DEF PlainMessages
  <2>3. \A a, b \in PlainMessages : <<a, b>> \in Seq(PlainMessages) /\ Len(<<a, b>>) = 2
    OBVIOUS
  <2>. QED
    BY <2>2, <2>3
<1>3. TailV2 = FlattenSeq(twos)
  BY DEF TailV2
<1>. HIDE DEF Two
<1>4. twos = [k \in 1..L |-> Two(k)]
  BY <1>1
<1>. HIDE DEF twos, L
<1>5. CASE L = 0
  <2>1. twos = <<>>
    BY <1>4, <1>5
  <2>2. FlattenSeq(twos) = <<>>
    BY <2>1 DEF FlattenSeq
  <2>. QED
    BY <1>3, <2>2
<1>6. CASE L # 0
  <2>. DEFINE Many == Seq(PlainMessages)
  <2>1. \A k \in 1..L : Two(k) \in Many /\ Len(Two(k)) = 2
    BY <1>1, <1>2
  <2>. HIDE DEF Many
  <2>2. twos \in Seq(Many) /\ Len(twos) = L /\ twos # <<>>
    BY <1>1, <1>4, <1>6, <2>1
  <2>3. \A k \in 1..L : Len(twos[k]) = 2
    BY <1>4, <2>1
  <2>4. Lengths(upto, twos, L)
    <3>1. upto[0] = 0 /\ \A k \in 0..L : upto[k] \in Nat
      BY <1>1
    <3>2. ASSUME NEW k \in 1..L  PROVE upto[k] = upto[k - 1] + Len(twos[k])
      <4>1. upto[k] = 2 * k /\ upto[k - 1] = 2 * (k - 1) /\ 2 * k = 2 * (k - 1) + 2
        BY <1>1
      <4>. QED
        BY <2>3, <4>1
    <3>. QED
      BY <3>1, <3>2 DEF Lengths
  <2>. HIDE DEF upto
  <2>5. twos \in Seq(Seq(PlainMessages)) /\ Lengths(upto, twos, Len(twos))
    BY <2>2, <2>4 DEF Many
  <2>6. FlattenSeq(twos) \in Seq(PlainMessages)
    BY <2>2, <2>5, FlattenAt
  <2>. QED
    BY <1>3, <2>6
<1>. QED
  BY <1>5, <1>6

\* The messages of the v2 request, by position: the system prompt, the cached
\* instruction with the slice, plain ones, and the budget line in the last.
Plain(block) == block.cache = FALSE /\ ~Volatile(block.text)
LEMMA MessagesOfV2 ==
  ASSUME TailV2 \in Seq(PlainMessages), step \in Nat
  PROVE  LET last == Len(MessagesV2)
             Blocks(k) == Len(MessagesV2[k])
         IN  /\ last \in Nat /\ last >= 2 /\ MessagesV2 \in Seq(Seq(RequestBlocks))
             /\ MessagesV2[1] = <<Block(<<"system">>, FALSE)>>
             /\ MessagesV2[2][1] = Block(<<"instruction">>, TRUE)
             /\ MessagesV2[2][2] = Block(<<"slice">>, FALSE)
             /\ \A k \in 3..last : Plain(MessagesV2[k][1])
             /\ MessagesV2[last][Blocks(last)] = BudgetLine
             /\ Blocks(2) = IF last = 2 THEN 3 ELSE 2
             /\ \A k \in 3..last : Blocks(k) = IF k = last THEN 2 ELSE 1
<1>. DEFINE first == <<Block(<<"system">>, FALSE)>>
            second == FirstMessageV2
            two == <<first, second>>
            body == two \o TailV2
            last == Len(body)
            closing == Append(body[last], BudgetLine)
<1>1. MessagesV2 = [body EXCEPT ![last] = closing]
  BY DEF MessagesV2, TailV2
<1>2. /\ Block(<<"system">>, FALSE) \in RequestBlocks /\ Block(<<"instruction">>, TRUE) \in RequestBlocks
      /\ Block(<<"slice">>, FALSE) \in RequestBlocks /\ BudgetLine \in RequestBlocks
      /\ PlainBlocks \subseteq RequestBlocks
  <2>1. /\ Block(<<"system">>, FALSE) \in RequestBlocks
        /\ Block(<<"instruction">>, TRUE) \in RequestBlocks
        /\ Block(<<"slice">>, FALSE) \in RequestBlocks
    BY DEF Block, RequestBlocks, RequestTexts, Texts
  <2>2. BudgetLine \in RequestBlocks
    BY DEF BudgetLine, Block, RequestBlocks, RequestTexts
  <2>3. PlainTexts \subseteq RequestTexts
    BY DEF PlainTexts, RequestTexts, Texts
  <2>4. PlainBlocks \subseteq RequestBlocks
    BY <2>3 DEF PlainBlocks, RequestBlocks
  <2>. QED
    BY <2>1, <2>2, <2>4
<1>. DEFINE Items == Seq(RequestBlocks)
<1>3. \A a, b \in RequestBlocks : /\ <<a>> \in Items /\ Len(<<a>>) = 1 /\ <<a>>[1] = a
                                  /\ <<a, b>> \in Items /\ Len(<<a, b>>) = 2
                                  /\ <<a, b>>[1] = a /\ <<a, b>>[2] = b
  OBVIOUS
<1>4. /\ first \in Items
      /\ second \in Items /\ Len(second) = 2
      /\ second[1] = Block(<<"instruction">>, TRUE) /\ second[2] = Block(<<"slice">>, FALSE)
  BY <1>2, <1>3 DEF FirstMessageV2
<1>5. ASSUME NEW message \in PlainMessages
      PROVE  message \in Items /\ Len(message) = 1 /\ Plain(message[1])
  <2>1. PICK b \in PlainBlocks : message = <<b>>
    BY DEF PlainMessages
  <2>2. Plain(b)
    <3>1. b.cache = FALSE /\ b.text \in PlainTexts
      BY DEF PlainBlocks
    <3>2. \A t \in PlainTexts : ~Volatile(t)
      BY DEF PlainTexts, Volatile
    <3>. QED
      BY <3>1, <3>2 DEF Plain
  <2>. QED
    BY <1>2, <1>3, <2>1, <2>2
<1>. HIDE DEF first, second, Items
<1>6. TailV2 \in Seq(Items) /\ \A i \in 1..Len(TailV2) : TailV2[i] \in PlainMessages
  <2>1. TailV2 \in Seq(PlainMessages)
    OBVIOUS
  <2>2. PlainMessages \subseteq Items
    BY <1>5
  <2>. QED
    BY <2>1, <2>2
<1>7. two \in Seq(Items) /\ Len(two) = 2 /\ two[1] = first /\ two[2] = second
  BY <1>4
<1>. DEFINE T == Len(TailV2)
<1>8. /\ body \in Seq(Items) /\ T \in Nat /\ last = 2 + T
      /\ body[1] = first /\ body[2] = second
      /\ \A i \in 1..T : body[2 + i] = TailV2[i]
  <2>1. two \in Seq(Items) /\ TailV2 \in Seq(Items)
    BY <1>6, <1>7
  <2>. HIDE DEF two
  <2>2. /\ two \o TailV2 \in Seq(Items) /\ Len(two \o TailV2) = Len(two) + Len(TailV2)
        /\ \A i \in 1..Len(two) : (two \o TailV2)[i] = two[i]
        /\ \A i \in 1..Len(TailV2) : (two \o TailV2)[Len(two) + i] = TailV2[i]
    BY <2>1, ConcatAt
  <2>3. T \in Nat
    BY <1>6
  <2>. QED
    BY <1>7, <2>2, <2>3
<1>. HIDE DEF two, body, last, T
<1>9. \A k \in 3..last : body[k] \in PlainMessages
  <2>. SUFFICES ASSUME NEW k \in 3..last  PROVE body[k] \in PlainMessages
    OBVIOUS
  <2>1. k - 2 \in 1..T /\ 2 + (k - 2) = k
    BY <1>8
  <2>2. body[2 + (k - 2)] = TailV2[k - 2] /\ TailV2[k - 2] \in PlainMessages
    BY <1>6, <1>8, <2>1 DEF T
  <2>. QED
    BY <2>1, <2>2
<1>10. last \in Nat /\ last >= 2 /\ last \in 1..last /\ DOMAIN body = 1..last /\ body[last] \in Items
  <2>1. last \in Nat /\ last >= 2
    BY <1>8
  <2>2. DOMAIN body = 1..last
    BY <1>8 DEF last
  <2>. QED
    BY <1>8, <2>1, <2>2
<1>11. /\ closing \in Items /\ Len(closing) = Len(body[last]) + 1 /\ closing[Len(closing)] = BudgetLine
       /\ \A i \in 1..Len(body[last]) : closing[i] = body[last][i]
       /\ Len(body[last]) \in Nat
  BY <1>2, <1>10 DEF Items
<1>. HIDE DEF closing
<1>12. /\ MessagesV2 \in Seq(Items) /\ Len(MessagesV2) = last
       /\ MessagesV2[last] = closing
       /\ \A k \in 1..last : k # last => MessagesV2[k] = body[k]
  <2>1. Len(body) = last
    BY DEF last
  <2>. QED
    BY <1>1, <1>8, <1>10, <1>11, <2>1
<1>13. MessagesV2[1] = <<Block(<<"system">>, FALSE)>>
  <2>1. 1 \in 1..last /\ 1 # last
    BY <1>10
  <2>. QED
    BY <1>8, <1>12, <2>1 DEF first
<1>14. /\ MessagesV2[2][1] = Block(<<"instruction">>, TRUE)
       /\ MessagesV2[2][2] = Block(<<"slice">>, FALSE)
       /\ Len(MessagesV2[2]) = IF last = 2 THEN 3 ELSE 2
  <2>1. CASE last = 2
    <3>1. MessagesV2[2] = closing /\ body[last] = second
      BY <1>8, <1>12, <2>1
    <3>2. Len(closing) = 3 /\ \A i \in 1..2 : closing[i] = second[i]
      <4>1. Len(body[last]) = 2
        BY <1>4, <3>1
      <4>2. Len(closing) = 3
        BY <1>11, <4>1
      <4>3. \A i \in 1..2 : closing[i] = body[last][i]
        BY <1>11, <4>1
      <4>. QED
        BY <3>1, <4>2, <4>3
    <3>3. closing[1] = second[1] /\ closing[2] = second[2]
      BY <3>2
    <3>. QED
      BY <1>4, <2>1, <3>1, <3>2, <3>3
  <2>2. CASE last # 2
    <3>1. 2 \in 1..last
      BY <1>10
    <3>. QED
      BY <1>4, <1>8, <1>12, <2>2, <3>1
  <2>. QED
    BY <2>1, <2>2
<1>15. ASSUME NEW k \in 3..last
       PROVE  Plain(MessagesV2[k][1]) /\ Len(MessagesV2[k]) = IF k = last THEN 2 ELSE 1
  <2>1. Len(body[k]) = 1 /\ Plain(body[k][1])
    BY <1>5, <1>9
  <2>2. CASE k = last
    <3>1. MessagesV2[k] = closing /\ Len(body[last]) = 1 /\ Plain(body[last][1])
      BY <1>12, <2>1, <2>2
    <3>2. Len(closing) = 2 /\ closing[1] = body[last][1]
      BY <1>11, <3>1
    <3>. QED
      BY <2>2, <3>1, <3>2
  <2>3. CASE k # last
    <3>1. k \in 1..last
      BY <1>10
    <3>. QED
      BY <1>12, <2>1, <2>3, <3>1
  <2>. QED
    BY <2>2, <2>3
<1>16. MessagesV2[last][Len(MessagesV2[last])] = BudgetLine
  BY <1>11, <1>12
<1>. QED
  BY <1>10, <1>12, <1>13, <1>14, <1>15, <1>16 DEF Items

\* The v2 request: the system prompt, the instruction, both with a breakpoint,
\* and behind them the slice, the tail and the budget line, all without.
LEMMA RequestV2 ==
  ASSUME Invariant, Asking, EnablePromptCaching
  PROVE  /\ Breakpoints(Sent(MessagesV2)) = {1, 2}
         /\ \A k \in DOMAIN Sent(MessagesV2) : Volatile(Sent(MessagesV2)[k].text) => k \in Nat /\ k > 2
<1>. DEFINE messages == MessagesV2
            last == Len(messages)
            Blocks(k) == Len(messages[k])
            flat == FlattenSeq(messages)
            upto == [n \in 0..last |-> n + (IF n >= 2 THEN 1 ELSE 0) + (IF n = last THEN 1 ELSE 0)]
<1>1. step \in Nat /\ TailV2 \in Seq(PlainMessages)
  <2>1. slice.tail \in Seq(Pair) /\ step \in Nat
    <3>1. slice.tail = Window(Exchanges, V2TailExchanges) /\ step \in Nat
      BY AskingNow DEF SliceTracked
    <3>2. Window(Exchanges, V2TailExchanges) \in Pairs
      BY TurnsShown, WindowsAssumption
    <3>. QED
      BY <3>1, <3>2 DEF Pairs
  <2>. QED
    BY <2>1, TailPlain
<1>2. /\ last \in Nat /\ last >= 2 /\ messages \in Seq(Seq(RequestBlocks))
      /\ messages[1] = <<Block(<<"system">>, FALSE)>>
      /\ messages[2][1] = Block(<<"instruction">>, TRUE)
      /\ messages[2][2] = Block(<<"slice">>, FALSE)
      /\ \A k \in 3..last : Plain(messages[k][1])
      /\ messages[last][Blocks(last)] = BudgetLine
      /\ Blocks(2) = IF last = 2 THEN 3 ELSE 2
      /\ \A k \in 3..last : Blocks(k) = IF k = last THEN 2 ELSE 1
  BY <1>1, MessagesOfV2
<1>. HIDE DEF messages, last
<1>a. last \in Nat /\ last >= 2 /\ \A k \in 3..last : Blocks(k) \in {1, 2}
  BY <1>2
<1>3. Blocks(1) = 1 /\ messages[1][1] = Block(<<"system">>, FALSE)
  BY <1>2
<1>4. /\ upto[0] = 0 /\ upto[1] = 1 /\ upto[last] = last + 2
      /\ \A k \in 2..(last - 1) : upto[k] = k + 1
  BY <1>2
<1>5. Lengths(upto, messages, last)
  <2>1. \A k \in 0..last : upto[k] \in Nat
    BY <1>2
  <2>2. ASSUME NEW k \in 1..last  PROVE upto[k] = upto[k - 1] + Blocks(k)
    <3>. HIDE DEF upto, Blocks
    <3>1. CASE k = 1
      <4>1. upto[k] = 1 /\ upto[k - 1] = 0 /\ Blocks(k) = 1
        BY <1>2, <1>3, <1>4, <3>1
      <4>. QED
        BY <4>1
    <3>2. CASE k = 2 /\ k = last
      <4>1. upto[k] = 4 /\ upto[k - 1] = 1 /\ Blocks(k) = 3
        BY <1>2, <1>4, <3>2
      <4>. QED
        BY <4>1
    <3>3. CASE k = 2 /\ k # last
      <4>1. upto[k] = 3 /\ upto[k - 1] = 1 /\ Blocks(k) = 2
        <5>1. 2 \in 2..(last - 1)
          BY <1>2, <3>3
        <5>. QED
          BY <1>2, <1>4, <3>3, <5>1
      <4>. QED
        BY <4>1
    <3>4. CASE k > 2 /\ k = last
      <4>1. k - 1 \in 2..(last - 1) /\ k \in 3..last
        BY <1>2, <3>4
      <4>2. upto[k] = k + 2 /\ upto[k - 1] = (k - 1) + 1 /\ Blocks(k) = 2
        BY <1>2, <1>4, <3>4, <4>1
      <4>. QED
        BY <4>2
    <3>5. CASE k > 2 /\ k # last
      <4>1. k - 1 \in 2..(last - 1) /\ k \in 2..(last - 1) /\ k \in 3..last
        BY <1>2, <3>5
      <4>2. upto[k] = k + 1 /\ upto[k - 1] = (k - 1) + 1 /\ Blocks(k) = 1
        BY <1>2, <1>4, <3>5, <4>1
      <4>. QED
        BY <4>2
    <3>. QED
      BY <1>2, <3>1, <3>2, <3>3, <3>4, <3>5
  <2>. QED
    BY <1>4, <2>1, <2>2 DEF Lengths
<1>. HIDE DEF upto, flat
<1>6. /\ flat \in Seq(RequestBlocks) /\ Len(flat) = last + 2
      /\ \A k \in 1..last : \A i \in 1..Blocks(k) : flat[upto[k - 1] + i] = messages[k][i]
  <2>1. messages # <<>> /\ Lengths(upto, messages, Len(messages))
    BY <1>2, <1>5 DEF last
  <2>2. flat \in Seq(RequestBlocks) /\ Joined(flat, messages, upto, Len(messages))
    BY <1>2, <2>1, FlattenAt DEF flat
  <2>. QED
    BY <1>4, <2>2 DEF Joined, last
<1>. HIDE DEF Blocks
<1>7. flat[1] = Block(<<"system">>, FALSE) /\ flat[2] = Block(<<"instruction">>, TRUE)
  <2>1. 1 \in 1..last /\ 2 \in 1..last /\ 1 \in 1..Blocks(1) /\ 1 \in 1..Blocks(2)
    BY <1>2, <1>3
  <2>2. flat[upto[0] + 1] = messages[1][1] /\ flat[upto[1] + 1] = messages[2][1]
    <3>1. flat[upto[1 - 1] + 1] = messages[1][1] /\ flat[upto[2 - 1] + 1] = messages[2][1]
      BY <1>6, <2>1
    <3>. QED
      BY <3>1
  <2>3. upto[0] + 1 = 1 /\ upto[1] + 1 = 2
    BY <1>4
  <2>4. flat[1] = messages[1][1] /\ flat[2] = messages[2][1]
    BY <2>2, <2>3
  <2>. QED
    BY <1>2, <1>3, <2>4
<1>8. \A text, cache : Block(text, cache).text = text
  BY DEF Block
<1>9. ASSUME NEW i \in 3..(last + 2)  PROVE flat[i].cache = FALSE
  <2>1. CASE i = 3
    <3>1. 2 \in 1..last /\ 2 \in 1..Blocks(2)
      BY <1>2
    <3>2. flat[upto[2 - 1] + 2] = messages[2][2]
      BY <1>6, <3>1
    <3>3. flat[i] = [text |-> <<"slice">>, cache |-> FALSE]
      BY <1>2, <1>4, <2>1, <3>2 DEF Block
    <3>. QED
      BY <3>3
  <2>2. CASE i > 3 /\ i < last + 2
    <3>. DEFINE k == i - 1
    <3>1. k \in 3..last /\ k \in 1..last /\ k - 1 \in 2..(last - 1) /\ (k - 1) + 1 + 1 = i
      BY <1>a, <2>2
    <3>2. 1 \in 1..Blocks(k)
      <4>1. Blocks(k) \in {1, 2}
        BY <1>a, <3>1
      <4>. QED
        BY <4>1
    <3>3. upto[k - 1] = (k - 1) + 1
      BY <1>4, <3>1
    <3>4. flat[upto[k - 1] + 1] = messages[k][1] /\ Plain(messages[k][1])
      BY <1>2, <1>6, <3>1, <3>2
    <3>. QED
      BY <3>1, <3>3, <3>4 DEF Plain
  <2>3. CASE i = last + 2
    <3>1. last \in 1..last
      BY <1>2
    <3>2. upto[last - 1] + Blocks(last) = last + 2 /\ Blocks(last) \in 1..Blocks(last)
      <4>1. upto[last] = upto[last - 1] + Blocks(last)
        BY <1>5, <3>1 DEF Lengths, Blocks
      <4>2. Blocks(last) = 2 \/ Blocks(last) = 3
        BY <1>2
      <4>. QED
        BY <1>4, <4>1, <4>2
    <3>3. flat[upto[last - 1] + Blocks(last)] = messages[last][Blocks(last)]
      BY <1>6, <3>1, <3>2
    <3>4. flat[i] = [text |-> <<"budget", step>>, cache |-> FALSE]
      BY <1>2, <2>3, <3>2, <3>3 DEF BudgetLine, Block
    <3>. QED
      BY <3>4
  <2>4. i = 3 \/ (i > 3 /\ i < last + 2) \/ i = last + 2
    BY <1>a
  <2>. QED
    BY <2>1, <2>2, <2>3, <2>4
<1>10. DOMAIN flat = 1..(last + 2) /\ \A i \in 1..(last + 2) : i = 1 \/ i = 2 \/ i \in 3..(last + 2)
  BY <1>2, <1>6
<1>11. /\ DOMAIN Sent(messages) = DOMAIN flat
       /\ \A k \in DOMAIN flat : Sent(messages)[k].text = flat[k].text
       /\ Breakpoints(Sent(messages)) = {k \in DOMAIN flat : k = 1 \/ flat[k].cache}
  BY SentAt DEF flat
<1>12. Breakpoints(Sent(messages)) = {1, 2}
  <2>1. 1 \in DOMAIN flat /\ 2 \in DOMAIN flat
    BY <1>2, <1>10
  <2>2. flat[2].cache
    <3>1. flat[2] = [text |-> <<"instruction">>, cache |-> TRUE]
      BY <1>7 DEF Block
    <3>. QED
      BY <3>1
  <2>. QED
    BY <1>9, <1>10, <1>11, <2>1, <2>2
<1>13. ASSUME NEW k \in DOMAIN Sent(messages), Volatile(Sent(messages)[k].text)
       PROVE  k \in Nat /\ k > 2
  <2>1. k # 1 /\ k # 2
    <3>1. flat[1].text = <<"system">> /\ flat[2].text = <<"instruction">>
      BY <1>7, <1>8
    <3>2. ~Volatile(<<"system">>) /\ ~Volatile(<<"instruction">>)
      BY DEF Volatile
    <3>. QED
      BY <1>11, <1>13, <3>1, <3>2
  <2>2. k \in 1..(last + 2)
    BY <1>10, <1>11
  <2>. QED
    BY <1>a, <2>1, <2>2
<1>. QED
  BY <1>12, <1>13 DEF messages

\* The prefix either builder caches is one that stays.
LEMMA PrefixNow == Invariant => CachedPrefixStable
<1>. SUFFICES ASSUME Invariant, Asking, EnablePromptCaching  PROVE CachedPrefixStable
  BY DEF CachedPrefixStable
<1>. DEFINE Stable(request) ==
              /\ Cardinality(Breakpoints(request)) \in 1..4
              /\ \A b \in Breakpoints(request), k \in DOMAIN request :
                   Volatile(request[k].text) => b < k
<1>1. Stable(Sent(MessagesV1))
  <2>. DEFINE last == Len(promptV1.body)
              request == Sent(MessagesV1)
  <2>1. /\ last \in Nat /\ last >= 2
        /\ Breakpoints(request) = IF promptV1.marked THEN {1, last} ELSE {1}
        /\ \A k \in DOMAIN request : Volatile(request[k].text) => k = last + 1
    BY RequestV1
  <2>. HIDE DEF last, request
  <2>2. {1} = {1, 1}
    OBVIOUS
  <2>3. Cardinality(Breakpoints(request)) \in 1..4
    BY <2>1, <2>2, FewBreakpoints
  <2>4. \A b \in Breakpoints(request) : b = 1 \/ b = last
    BY <2>1
  <2>5. \A b \in Breakpoints(request), k \in DOMAIN request : Volatile(request[k].text) => b < k
    BY <2>1, <2>4
  <2>. QED
    BY <2>3, <2>5 DEF request
<1>2. Stable(Sent(MessagesV2))
  <2>. DEFINE request == Sent(MessagesV2)
  <2>1. /\ Breakpoints(request) = {1, 2}
        /\ \A k \in DOMAIN request : Volatile(request[k].text) => k \in Nat /\ k > 2
    BY RequestV2
  <2>. HIDE DEF request
  <2>2. Cardinality({1, 2}) \in 1..4
    BY FewBreakpoints
  <2>3. \A b \in Breakpoints(request) : b = 1 \/ b = 2
    BY <2>1
  <2>4. \A b \in Breakpoints(request), k \in DOMAIN request : Volatile(request[k].text) => b < k
    BY <2>1, <2>3
  <2>. QED
    BY <2>1, <2>2, <2>4 DEF request
<1>3. promptV1.omitted > 0 => Breakpoints(Sent(MessagesV1)) = {1}
  <2>. DEFINE omitted == Omitted(Exchanges, MaxTailExchanges)
              tail == Window(Exchanges, MaxTailExchanges)
  <2>1. promptV1.marked <=> promptV1.omitted = 0
    <3>1. promptV1 = [body |-> Body(omitted, tail), marked |-> omitted = 0,
                      omitted |-> omitted, tail |-> tail, budgetLine |-> step]
      BY AskingNow DEF PromptOf
    <3>. HIDE DEF omitted, tail
    <3>. QED
      BY <3>1
  <2>. QED
    BY <2>1, RequestV1
<1>. HIDE DEF Stable
<1>4. \A request \in {Sent(MessagesV1), Sent(MessagesV2)} : Stable(request)
  BY <1>1, <1>2
<1>. QED
  BY <1>3, <1>4 DEF CachedPrefixStable, Stable, Volatile

-----------------------------------------------------------------------------
(* The theorems                                                              *)

\* The builders are run on every history the loop can have.
THEOREM RetrievalInvHolds == RetrievalSpec => []Invariant
  BY InitRetrieval, NextRetrieval, PTL DEF RetrievalSpec

\* What the builders read follows the loop, statement by statement, and the last
\* two prompts are those of the exchanges there were: the invariant TLC checks.
THEOREM RetrievalTracked == RetrievalSpec => []RetrievalInv
  BY RetrievalInvHolds, PTL DEF Invariant

\* The builders only read: a behaviour of the loop with them is one of the loop,
\* and what is proved of every behaviour of the loop holds of it.
THEOREM BuildersOnlyRead == RetrievalSpec => Spec
<1>1. RetrievalInit => Init
  BY DEF RetrievalInit
<1>2. [RetrievalNext]_retrievalVars => [Next]_loopVars
  BY DEF RetrievalNext, BuildPrompt, OtherStep, LoopOver, Proceed, LoopStep, Next, retrievalVars
<1>. QED
  BY <1>1, <1>2, PTL DEF RetrievalSpec, Spec

\* v1: every turn is shown or counted, the latest are the ones shown, in order
\* and each with its one feedback.
THEOREM TranscriptCorrect == RetrievalSpec => []TranscriptComplete
  BY RetrievalInvHolds, TranscriptNow, PTL

\* v1: the breakpoint is set exactly when the prompt before is a prefix of this
\* one, whatever the window and however long the history.
THEOREM CacheCorrect == RetrievalSpec => []CacheHits
<1>1. Invariant => CacheHits
  BY DEF Invariant, RetrievalInv
<1>. QED
  BY <1>1, RetrievalInvHolds, PTL

\* v2: digest and verbatim tail are the whole history, each turn once, in order.
THEOREM HistoryCorrect == RetrievalSpec => []HistoryOnce
  BY RetrievalInvHolds, HistoryNow, PTL

\* v2: what the digest says of a turn, read off the graph, is what the log says.
THEOREM DigestCorrect == RetrievalSpec => []DigestTruthful
  BY RetrievalInvHolds, DigestNow, PTL

\* v2: the active error is the last one reported, with the command that failed.
THEOREM ErrorCorrect == RetrievalSpec => []ActiveErrorCurrent
  BY RetrievalInvHolds, ErrorNow, PTL

\* v2: the files shown and the files counted are those of the commands started.
THEOREM FilesCorrect == RetrievalSpec => []FilesAccounted
  BY RetrievalInvHolds, FilesNow, PTL

\* The requests of both builders have at most the breakpoints the API allows,
\* and none at or behind a text that changes every turn.
THEOREM PrefixCorrect == RetrievalSpec => []CachedPrefixStable
  BY RetrievalInvHolds, PrefixNow, PTL

\* truncate_middle keeps a head and a tail within the limit and counts the rest:
\* for every length and limit, of which the property names a few.
THEOREM TruncationCorrect == RetrievalSpec => []TruncationExact
<1>. DEFINE Exact(n, max) ==
              LET text == [k \in 1..n |-> k]
                  cut  == TruncateMiddle(text, max)
                  kept == cut.head \o cut.tail
              IN  /\ Len(kept) <= max /\ Len(kept) + cut.omitted = n
                  /\ \A k \in DOMAIN kept :
                       kept[k] = IF k <= Len(cut.head) THEN k ELSE k + cut.omitted
<1>1. ASSUME NEW n \in 0..6, NEW max \in 2..6  PROVE Exact(n, max)
  <2>1. n \in Nat /\ max \in Nat /\ max >= 2
    OBVIOUS
  <2>. QED
    BY <2>1, TruncationAt
<1>2. TruncationExact
  BY <1>1 DEF TruncationExact
<1>. QED
  BY <1>2, PTL
=============================================================================
