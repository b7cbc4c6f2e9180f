--------------------------- MODULE ReactLoopProofs ---------------------------
(***************************************************************************)
(* TLAPS proofs about ReactLoop: type correctness, the feedback and        *)
(* terminal-event invariants, and that the loop implements the ledger of   *)
(* turns, for any budget, retry limit, command set and timing.  The        *)
(* ledger's state is read off the log and the records (ReactLoopInv), so   *)
(* the refinement goes through what one appended event does to the sets of *)
(* turns that have an event of some types.                                 *)
(***************************************************************************)
EXTENDS ReactLoopInv, TLAPS

-----------------------------------------------------------------------------
(* Type correctness *)

\* An appended event keeps the log a sequence of events.
LEMMA EmitType ==
  ASSUME TypeOK, NEW type \in EventTypes, NEW note \in Notes, Emit(type, note)
  PROVE  log' \in Seq(Events)
  BY DEF TypeOK, Emit, Events

\* Times are numbers.
LEMMA TimesType == CallTimes \subseteq Nat /\ CommandTimes \subseteq Nat
<1>1. CallTimes \in {CallTimes, CommandTimes} /\ CommandTimes \in {CallTimes, CommandTimes}
  OBVIOUS
<1> QED
  BY <1>1, TimesAssumption

\* What every answer of the model carries.
LEMMA ReplyType ==
  ASSUME NEW r \in Replies \cup {NoReply}
  PROVE  /\ r.parsed \in BOOLEAN /\ r.done \in BOOLEAN
         /\ r.command \in Commands \cup {NoCommand}
         /\ r.tokens \in Nat
<1>1. CASE r = NoReply
  BY <1>1 DEF NoReply
<1>2. CASE r \in [parsed : {TRUE}, command : Commands \cup {NoCommand},
                  done : BOOLEAN, tokens : Usage]
  BY <1>2, UsageAssumption
<1>3. CASE r \in [parsed : {FALSE}, command : {NoCommand}, done : {FALSE},
                  tokens : Usage]
  BY <1>3, UsageAssumption
<1> QED
  BY <1>1, <1>2, <1>3 DEF Replies

\* Where the loop goes after the step object.
LEMMA BranchType == Branch \in {"reject", "finish", "idle", "issue"}
  BY DEF Branch

\* Every step of the loop keeps the types.
LEMMA TypeStep == IInv /\ LoopStep => TypeOK'
<1> SUFFICES ASSUME IInv, LoopStep PROVE TypeOK'
  OBVIOUS
<1> USE DEF IInv, TypeOK, Goto, graphVars, counterVars, PCs, Awaiting, Final, Writing
<1>1. CASE AddTask
  BY <1>1 DEF AddTask
<1>2. CASE BudgetExhausted
  BY <1>2, EmitType, BudgetsAssumption DEF BudgetExhausted, Return, EventTypes, Notes,
     TerminalTypes
<1>3. CASE BuildContext
  BY <1>3, EmitType, RetriesAssumption DEF BuildContext, EventTypes, Notes
<1>4. CASE CallFails
  <2>1. elapsed' \in Nat
    BY <1>4, TimesType DEF CallFails
  <2> QED
    BY <1>4, <2>1, EmitType DEF CallFails, EventTypes, Notes
<1>5. CASE Backoff
  <2>1. attempt \in 0..(MaxRetries - 1)
    BY <1>5, RetriesAssumption DEF Backoff, CountersBounded
  <2>2. attempt' \in 0..MaxRetries
    BY <1>5, <2>1, RetriesAssumption DEF Backoff
  <2>3. elapsed' \in Nat
    <3>1. elapsed \in Nat /\ elapsed' = elapsed + RetryDelay[attempt]
      BY <1>5 DEF Backoff
    <3> HIDE DEF IInv, TypeOK
    <3>2. RetryDelay[attempt] \in Nat
      BY <2>1, RetriesAssumption
    <3> QED
      BY <3>1, <3>2
  <2> QED
    BY <1>5, <2>2, <2>3 DEF Backoff
<1>6. CASE CallRejected
  BY <1>6, TimesType DEF CallRejected
<1>7. CASE CallAnswered
  <2>1. PICK r \in Replies : reply' = r /\ tokens' = tokens + r.tokens
    BY <1>7 DEF CallAnswered
  <2>2. tokens' \in Nat
    <3>1. r.tokens \in Nat
      BY ReplyType
    <3>2. tokens \in Nat
      OBVIOUS
    <3>3. tokens' = tokens + r.tokens
      BY <2>1
    <3> HIDE DEF IInv, TypeOK
    <3> QED
      BY <3>1, <3>2, <3>3
  <2>3. PICK d \in CallTimes : elapsed' = elapsed + d
    BY <1>7 DEF CallAnswered
  <2>4. elapsed' \in Nat
    <3>1. d \in Nat /\ elapsed \in Nat
      BY TimesType
    <3> HIDE DEF IInv, TypeOK
    <3> QED
      BY <2>3, <3>1
  <2>5. reply' \in Replies /\ pc' \in PCs
    BY <1>7, <2>1 DEF CallAnswered
  <2> QED
    BY <1>7, <2>2, <2>4, <2>5 DEF CallAnswered
<1>8. CASE FatalError
  BY <1>8, EmitType DEF FatalError, EventTypes, Notes
<1>9. CASE FatalErrorObject
  BY <1>9 DEF FatalErrorObject
<1>10. CASE ModelTurn
  BY <1>10, EmitType DEF ModelTurn, EventTypes, Notes, FailuresTracked, BeforeTurn
<1>11. CASE AddStep
  <2>1. pc' \in PCs
    BY <1>11, BranchType DEF AddStep
  <2> QED
    BY <1>11, <2>1 DEF AddStep
<1>12. CASE ParseFailed
  BY <1>12, EmitType DEF ParseFailed, EventTypes, Notes
<1>13. CASE ParseErrorObject
  BY <1>13 DEF ParseErrorObject
<1>14. CASE TaskFinished
  BY <1>14, EmitType DEF TaskFinished, EventTypes, Notes
<1>15. CASE IdleTurn
  BY <1>15, EmitType DEF IdleTurn, EventTypes, Notes
<1>16. CASE AddCommand
  BY <1>16, FilesAssumption DEF AddCommand, BranchTaken
<1>17. CASE AddFile
  <2>1. Head(paths) \in Paths /\ paths' \in Seq(Paths)
    BY <1>17 DEF AddFile
  <2>2. files' \in Seq(Paths)
    BY <1>17, <2>1 DEF AddFile
  <2>3. touches' \subseteq Nat \X Paths
    BY <1>17, <2>1 DEF AddFile
  <2> QED
    BY <1>17, <2>1, <2>2, <2>3 DEF AddFile
<1>18. CASE StartCommand
  BY <1>18 DEF StartCommand, BranchTaken
<1>19. CASE CommandEnds
  BY <1>19, TimesType DEF CommandEnds
<1>20. CASE CommandExecuted
  BY <1>20, EmitType DEF CommandExecuted, EventTypes, Notes, Outcomes
<1>21. CASE OutputObserved
  BY <1>21, EmitType DEF OutputObserved, EventTypes, Notes, Outcomes
<1>22. CASE AddObservation
  BY <1>22 DEF AddObservation
<1>23. CASE CommandFailed
  BY <1>23, EmitType DEF CommandFailed, EventTypes, Notes
<1>24. CASE CommandErrorObject
  BY <1>24 DEF CommandErrorObject
<1>25. CASE RecordTurn
  <2>1. turns' \in Seq([step : Nat, command : Commands \cup {NoCommand}, done : BOOLEAN,
                        parseFailed : BOOLEAN, tokens : Nat])
    BY <1>25, ReplyType DEF RecordTurn, HandOver
  <2>2. step < MaxSteps
    BY <1>25 DEF RecordTurn, CountersBounded
  <2>3. CASE Finishing
    <3>1. /\ UNCHANGED step /\ pc' = "returned"
          /\ result' = [reason |-> "task_finished", nSteps |-> step + 1,
                        nCommands |-> nCommands, nErrors |-> nErrors, tokens |-> tokens]
      BY <1>25, <2>3 DEF RecordTurn, Return
    <3>2. result' \in [reason : TerminalTypes \cup {"none"}, nSteps : Nat, nCommands : Nat,
                       nErrors : Nat, tokens : Nat]
      BY <2>2, <3>1, BudgetsAssumption DEF TerminalTypes
    <3> QED
      BY <1>25, <2>1, <3>1, <3>2 DEF RecordTurn
  <2>4. CASE ~Finishing
    <3>1. step' = step + 1 /\ pc' = "top" /\ UNCHANGED result
      BY <1>25, <2>4 DEF RecordTurn
    <3> QED
      BY <1>25, <2>1, <2>2, <3>1, BudgetsAssumption DEF RecordTurn
  <2> QED
    BY <2>3, <2>4
<1>26. CASE RecordRaises
  BY <1>26, ReplyType DEF RecordRaises, HandOver
<1>27. CASE StoreFails
  BY <1>27 DEF StoreFails
<1>28. CASE Cancel
  BY <1>28 DEF Cancel

<1> QED
  BY <1>1, <1>2, <1>3, <1>4, <1>5, <1>6, <1>7, <1>8, <1>9, <1>10, <1>11, <1>12, <1>13,
     <1>14,
     <1>15, <1>16, <1>17, <1>18, <1>19, <1>20, <1>21, <1>22, <1>23, <1>24, <1>25, <1>26,
     <1>27,
     <1>28 DEF LoopStep, Proceed

-----------------------------------------------------------------------------
(* The answer in hand, and the counters *)

\* The answer in hand stays the one its branch was chosen for.
LEMMA BranchStep == IInv /\ LoopStep => BranchTaken'
<1> SUFFICES ASSUME IInv, LoopStep PROVE BranchTaken'
  OBVIOUS
<1> USE DEF IInv, BranchTaken, Finishing, Goto
<1>1. CASE AddStep
  <2>1. reply' = reply /\ pc' = Branch
    BY <1>1 DEF AddStep
  <2>2. TypeOK => reply.command \in Commands \cup {NoCommand}
    BY ReplyType DEF TypeOK
  <2> QED
    BY <2>1, <2>2, BranchType, CommandsAssumption DEF Branch
<1>2. CASE RecordTurn
  BY <1>2 DEF RecordTurn
<1>3. CASE LoopStep /\ ~AddStep /\ ~RecordTurn
  BY <1>3 DEF LoopStep, Proceed, AddTask, BudgetExhausted, BuildContext, CallFails, Backoff,
     CallRejected, CallAnswered, FatalError, FatalErrorObject, ModelTurn, ParseFailed,
     ParseErrorObject, TaskFinished, IdleTurn, AddCommand, AddFile, StartCommand,
     CommandEnds,
     CommandExecuted, OutputObserved, AddObservation, CommandFailed, CommandErrorObject,
     RecordRaises, StoreFails, Cancel
<1> QED
  BY <1>1, <1>2, <1>3

\* A turn is only begun below the step limit, a backoff below the retry limit.
LEMMA CountersStep == IInv /\ LoopStep => CountersBounded'
<1> SUFFICES ASSUME IInv, LoopStep PROVE CountersBounded'
  OBVIOUS
<1> USE DEF IInv, CountersBounded, Goto, Final
<1>1. CASE BuildContext
  BY <1>1, BudgetsAssumption DEF BuildContext, Exhausted, TypeOK
<1>2. CASE RecordTurn
  BY <1>2 DEF RecordTurn
<1>3. CASE AddStep
  BY <1>3, BranchType DEF AddStep
<1>4. CASE LoopStep /\ ~BuildContext /\ ~RecordTurn /\ ~AddStep
  BY <1>4 DEF LoopStep, Proceed, AddTask, BudgetExhausted, CallFails, Backoff,
     CallRejected, CallAnswered, FatalError, FatalErrorObject, ModelTurn, ParseFailed,
     ParseErrorObject, TaskFinished, IdleTurn, AddCommand, AddFile, StartCommand,
     CommandEnds,
     CommandExecuted, OutputObserved, AddObservation, CommandFailed, CommandErrorObject,
     RecordRaises, StoreFails, Cancel, Awaiting, Writing
<1> QED
  BY <1>1, <1>2, <1>3, <1>4

-----------------------------------------------------------------------------
(* One more event in the log *)

\* EventsIn of a log with one more event.
LEMMA AppendEvents ==
  ASSUME NEW l \in Seq(Events), NEW e \in Events, NEW T, NEW s
  PROVE  /\ e.type \in T /\ e.step = s =>
              EventsIn(Append(l, e), T, s) = EventsIn(l, T, s) \cup {Len(l) + 1}
         /\ ~(e.type \in T /\ e.step = s) => EventsIn(Append(l, e), T, s) = EventsIn(l, T, s)
  BY DEF EventsIn

\* What append_event does to the log and to the events of each turn.
LEMMA EmitEvents ==
  ASSUME TypeOK, NEW type \in EventTypes, NEW note \in Notes, Emit(type, note)
  PROVE  /\ log \in Seq(Events) /\ log' \in Seq(Events) /\ Len(log') = Len(log) + 1
         /\ \A i \in 1..Len(log) : log'[i] = log[i]
         /\ log'[Len(log) + 1] = [type |-> type, step |-> step, note |-> note]
         /\ \A T, s : type \in T /\ step = s =>
              EventsIn(log', T, s) = EventsIn(log, T, s) \cup {Len(log) + 1}
         /\ \A T, s : ~(type \in T /\ step = s) => EventsIn(log', T, s) = EventsIn(log, T, s)
<1> DEFINE e == [type |-> type, step |-> step, note |-> note]
<1>1. log \in Seq(Events) /\ e \in Events /\ log' = Append(log, e)
  BY BudgetsAssumption DEF TypeOK, Emit, Events
<1>2. ASSUME NEW T, NEW s
      PROVE  /\ type \in T /\ step = s =>
                  EventsIn(log', T, s) = EventsIn(log, T, s) \cup {Len(log) + 1}
             /\ ~(type \in T /\ step = s) => EventsIn(log', T, s) = EventsIn(log, T, s)
  <2>1. e.type = type /\ e.step = step
    OBVIOUS
  <2> HIDE DEF e
  <2> QED
    BY <1>1, <2>1, AppendEvents
<1> QED
  BY <1>1, <1>2

\* An event of another type, or of another turn, leaves a set of events alone.
LEMMA EmitKeeps ==
  ASSUME TypeOK, NEW type \in EventTypes, NEW note \in Notes, Emit(type, note),
         NEW T, NEW s, ~(type \in T /\ step = s)
  PROVE  EventsIn(log', T, s) = EventsIn(log, T, s)
BY EmitEvents

\* A turn stays answered unless the event is another answer to it.
LEMMA AnsweredKept ==
  ASSUME TypeOK, NEW type \in EventTypes, NEW note \in Notes, Emit(type, note),
         NEW s \in Nat, AnsweredIn(log, s),
         s # step \/ type \notin {"model_turn"} \cup FeedbackTypes
  PROVE  AnsweredIn(log', s)
<1>1. /\ EventsIn(log', {"model_turn"}, s) = EventsIn(log, {"model_turn"}, s)
      /\ EventsIn(log', FeedbackTypes, s) = EventsIn(log, FeedbackTypes, s)
  <2>1. ~(type \in {"model_turn"} /\ step = s) /\ ~(type \in FeedbackTypes /\ step = s)
    OBVIOUS
  <2>2. EventsIn(log', {"model_turn"}, s) = EventsIn(log, {"model_turn"}, s)
    BY <2>1, EmitKeeps
  <2>3. EventsIn(log', FeedbackTypes, s) = EventsIn(log, FeedbackTypes, s)
    BY <2>1, EmitKeeps
  <2> QED
    BY <2>2, <2>3
<1>2. DOMAIN log \subseteq DOMAIN log'
  <2>1. log \in Seq(Events) /\ log' \in Seq(Events) /\ Len(log') = Len(log) + 1
    BY EmitEvents
  <2> QED
    BY <2>1
<1> QED
  BY <1>1, <1>2 DEF AnsweredIn

\* The feedback event answers the turn that waits for it.
LEMMA AnsweredNow ==
  ASSUME TypeOK, NEW type \in FeedbackTypes, NEW note \in Notes, Emit(type, note), Waiting
  PROVE  AnsweredIn(log', step)
<1>1. type \in EventTypes /\ type # "model_turn"
  BY DEF FeedbackTypes, EventTypes
<1>2. PICK i \in DOMAIN log : EventsIn(log, {"model_turn"}, step) = {i}
  BY DEF Waiting, EventsOf
<1>3. type \notin {"model_turn"} /\ type \in FeedbackTypes
  BY <1>1
<1>4. EventsIn(log', {"model_turn"}, step) = {i}
  <2>1. EventsIn(log', {"model_turn"}, step) = EventsIn(log, {"model_turn"}, step)
    BY <1>1, <1>3, EmitKeeps
  <2> QED
    BY <1>2, <2>1
<1>5. EventsIn(log', FeedbackTypes, step) = {Len(log) + 1}
  <2>1. EventsIn(log', FeedbackTypes, step) =
          EventsIn(log, FeedbackTypes, step) \cup {Len(log) + 1}
    BY <1>1, <1>3, EmitEvents
  <2> QED
    BY <2>1 DEF Waiting, EventsOf
<1>6. i \in DOMAIN log' /\ Len(log) + 1 \in DOMAIN log' /\ i < Len(log) + 1
  <2>1. log \in Seq(Events) /\ log' \in Seq(Events) /\ Len(log') = Len(log) + 1
    BY <1>1, EmitEvents
  <2> QED
    BY <1>2, <2>1
<1> QED
  BY <1>4, <1>5, <1>6 DEF AnsweredIn

-----------------------------------------------------------------------------
(* The steps that write no event, and those that write one *)

\* The steps that write no event and do not end the turn.
Quiet ==
    \/ AddTask \/ Backoff \/ CallRejected \/ CallAnswered \/ FatalErrorObject
    \/ AddStep \/ ParseErrorObject \/ AddCommand \/ AddFile \/ StartCommand \/ CommandEnds
    \/ AddObservation \/ CommandErrorObject \/ RecordRaises \/ StoreFails \/ Cancel

\* These steps leave the log and the step number as they are.
LEMMA QuietStep == Quiet => UNCHANGED <<log, step>>
  BY DEF Quiet, AddTask, Backoff, CallRejected, CallAnswered, FatalErrorObject,
      AddStep, ParseErrorObject, AddCommand, AddFile, StartCommand, CommandEnds,
      AddObservation,
      CommandErrorObject, RecordRaises, StoreFails, Cancel

\* Every step but these and RecordTurn appends one event of the current turn.
LEMMA LogStep ==
  TypeOK /\ LoopStep =>
    \/ Quiet
    \/ RecordTurn
    \/ \E type \in EventTypes, note \in Notes : Emit(type, note) /\ UNCHANGED step
<1> SUFFICES ASSUME TypeOK, LoopStep, ~RecordTurn, ~Quiet
             PROVE  \E type \in EventTypes, note \in Notes : Emit(type,
             note) /\ UNCHANGED step
  OBVIOUS
<1> USE DEF EventTypes, Notes
<1>1. CASE BudgetExhausted \/ BuildContext \/ CallFails \/ FatalError
  BY <1>1 DEF BudgetExhausted, BuildContext, CallFails, FatalError
<1>2. CASE ModelTurn \/ ParseFailed \/ TaskFinished \/ IdleTurn
  BY <1>2 DEF ModelTurn, ParseFailed, TaskFinished, IdleTurn
<1>3. CASE CommandExecuted \/ OutputObserved \/ CommandFailed
  BY <1>3 DEF CommandExecuted, OutputObserved, CommandFailed, TypeOK, Outcomes
<1> QED
  BY <1>1, <1>2, <1>3 DEF LoopStep, Proceed, Quiet

\* No event is stamped with a step to come.
LEMMA StepsBoundedStep == IInv /\ LoopStep => StepsBounded'
<1> SUFFICES ASSUME TypeOK, StepsBounded, LoopStep PROVE StepsBounded'
  BY DEF IInv
<1>1. CASE Quiet
  BY <1>1, QuietStep DEF StepsBounded
<1>2. CASE RecordTurn
  <2>1. log' = log /\ step' \in {step, step + 1}
    BY <1>2 DEF RecordTurn
  <2>2. log \in Seq(Events) /\ step \in Nat
    BY BudgetsAssumption DEF TypeOK
  <2>3. \A i \in DOMAIN log : log[i].step \in Nat
    <3>1. \A i \in DOMAIN log : log[i] \in Events
      BY <2>2
    <3> QED
      BY <3>1 DEF Events
  <2> QED
    BY <2>1, <2>2, <2>3 DEF StepsBounded
<1>3. ASSUME NEW type \in EventTypes, NEW note \in Notes, Emit(type, note), UNCHANGED step
      PROVE  StepsBounded'
  <2>1. /\ \A i \in 1..Len(log) : log'[i] = log[i]
        /\ log \in Seq(Events) /\ log' \in Seq(Events) /\ Len(log') = Len(log) + 1
    BY <1>3, EmitEvents
  <2>2. log'[Len(log) + 1].step = step
    <3>1. log'[Len(log) + 1] = [type |-> type, step |-> step, note |-> note]
      BY <1>3, EmitEvents
    <3> QED
      BY <3>1
  <2>3. step \in Nat
    BY BudgetsAssumption DEF TypeOK
  <2> QED
    BY <1>3, <2>1, <2>2, <2>3 DEF StepsBounded
<1> QED
  BY <1>1, <1>2, <1>3, LogStep

\* Answered turns stay answered, and the turn that ends is one of them.
LEMMA ExactlyOneFeedbackStep == IInv /\ LoopStep => ExactlyOneFeedback'
<1> SUFFICES ASSUME IInv, LoopStep PROVE ExactlyOneFeedback'
  OBVIOUS
<1>1. CASE Quiet
  BY <1>1, QuietStep DEF IInv, ExactlyOneFeedback
<1>2. CASE RecordTurn
  <2>1. CASE Finishing
    BY <1>2, <2>1 DEF RecordTurn, IInv, ExactlyOneFeedback
  <2>2. CASE ~Finishing
    <3>1. log' = log /\ step' = step + 1 /\ step \in Nat
      BY <1>2, <2>2, BudgetsAssumption DEF RecordTurn, IInv, TypeOK
    <3>2. AnsweredIn(log, step)
      BY <1>2, <2>2 DEF RecordTurn, IInv, CurrentTurn
    <3> QED
      BY <3>1, <3>2 DEF IInv, ExactlyOneFeedback
  <2> QED
    BY <2>1, <2>2
<1>3. ASSUME NEW type \in EventTypes, NEW note \in Notes, Emit(type, note), UNCHANGED step
      PROVE  ExactlyOneFeedback'
  <2> SUFFICES ASSUME NEW s \in 0..(step - 1) PROVE AnsweredIn(log', s)
    BY <1>3 DEF ExactlyOneFeedback
  <2>1. s \in Nat /\ s # step /\ TypeOK
    BY BudgetsAssumption DEF IInv, TypeOK
  <2>2. AnsweredIn(log, s)
    BY DEF IInv, ExactlyOneFeedback
  <2> QED
    BY <1>3, <2>1, <2>2, AnsweredKept
<1> QED
  BY <1>1, <1>2, <1>3, LogStep DEF IInv

-----------------------------------------------------------------------------
(* The turn being taken *)

\* Events of other kinds leave the turn silent, or waiting.
LEMMA TurnKept ==
  ASSUME TypeOK, NEW type \in EventTypes, NEW note \in Notes, Emit(type, note),
  UNCHANGED step,
         type \notin {"model_turn"} \cup FeedbackTypes
  PROVE  (Silent => Silent') /\ (Waiting => Waiting')
<1>1. /\ EventsIn(log', {"model_turn"}, step) = EventsIn(log, {"model_turn"}, step)
      /\ EventsIn(log', FeedbackTypes, step) = EventsIn(log, FeedbackTypes, step)
  <2>1. type \notin {"model_turn"} /\ type \notin FeedbackTypes
    OBVIOUS
  <2>2. EventsIn(log', {"model_turn"}, step) = EventsIn(log, {"model_turn"}, step)
    BY <2>1, EmitKeeps
  <2>3. EventsIn(log', FeedbackTypes, step) = EventsIn(log, FeedbackTypes, step)
    BY <2>1, EmitKeeps
  <2> QED
    BY <2>2, <2>3
<1>2. DOMAIN log \subseteq DOMAIN log'
  <2>1. log \in Seq(Events) /\ log' \in Seq(Events) /\ Len(log') = Len(log) + 1
    BY EmitEvents
  <2> QED
    BY <2>1
<1> QED
  BY <1>1, <1>2 DEF Silent, Waiting, EventsOf

\* The model_turn event of a silent turn makes it wait for its feedback.
LEMMA TurnLogged ==
  ASSUME TypeOK, NEW note \in Notes, Emit("model_turn", note), UNCHANGED step, Silent
  PROVE  Waiting'
<1>1. "model_turn" \in EventTypes /\ "model_turn" \notin FeedbackTypes
  BY DEF EventTypes, FeedbackTypes
<1>2. EventsIn(log', {"model_turn"}, step) = {Len(log) + 1}
  <2>1. EventsIn(log', {"model_turn"}, step) =
          EventsIn(log, {"model_turn"}, step) \cup {Len(log) + 1}
    BY <1>1, EmitEvents
  <2> QED
    BY <2>1 DEF Silent, EventsOf
<1>3. EventsIn(log', FeedbackTypes, step) = {}
  BY <1>1, EmitEvents DEF Silent, EventsOf
<1>4. Len(log) + 1 \in DOMAIN log'
  <2>1. log \in Seq(Events) /\ log' \in Seq(Events) /\ Len(log') = Len(log) + 1
    BY <1>1, EmitEvents
  <2> QED
    BY <2>1
<1> QED
  BY <1>2, <1>3, <1>4 DEF Waiting, EventsOf

\* The log holds of the current turn what the statement reached says.
LEMMA CurrentTurnStep == IInv /\ LoopStep => CurrentTurn'
<1> SUFFICES ASSUME IInv, LoopStep PROVE CurrentTurn'
  OBVIOUS
<1> USE DEF Goto, BeforeTurn, AfterTurn, AfterFeedback, CurrentTurn
<1>a. TypeOK /\ BranchTaken /\ CurrentTurn
  BY DEF IInv
<1>b. step \in Nat /\ {"model_turn"} \cup FeedbackTypes \subseteq EventTypes
  BY <1>a, BudgetsAssumption DEF TypeOK, FeedbackTypes, EventTypes
<1>1. CASE Quiet
  <2>1. /\ Silent => Silent'
        /\ Waiting => Waiting'
        /\ AnsweredIn(log, step) => AnsweredIn(log', step')
    BY <1>1, QuietStep DEF Silent, Waiting, EventsOf
  <2>2. CASE AddStep
    BY <1>a, <2>1, <2>2, BranchType DEF AddStep
  <2>3. CASE ~AddStep
    <3> HIDE DEF CurrentTurn
    <3>1. \/ pc \in BeforeTurn /\ pc' \in BeforeTurn
          \/ pc \in AfterTurn /\ pc' \in AfterTurn
          \/ pc \in AfterFeedback /\ pc' \in AfterFeedback \cup {"record"}
          \/ pc' \in Final
      BY <1>1, <2>3 DEF Quiet, AddTask, Backoff, CallRejected, CallAnswered,
         FatalErrorObject,
         ParseErrorObject, AddCommand, AddFile, StartCommand, CommandEnds, AddObservation,
         CommandErrorObject, RecordRaises, StoreFails, Cancel, Final
    <3> QED
      BY <1>a, <2>1, <3>1 DEF CurrentTurn, Final
  <2> QED
    BY <2>2, <2>3
<1>2. CASE RecordTurn
  <2>1. log' = log /\ pc' \in {"top", "returned"} /\ (pc' = "top" => step' = step + 1)
    BY <1>2 DEF RecordTurn
  <2>2. ASSUME pc' = "top" PROVE Silent'
    <3>1. \A i \in DOMAIN log : log[i].step <= step /\ log[i].step \in Nat
      <4>1. \A i \in DOMAIN log : log[i] \in Events
        BY <1>a DEF TypeOK
      <4> QED
        BY <4>1 DEF IInv, StepsBounded, Events
    <3> QED
      BY <1>b, <2>1, <2>2, <3>1 DEF Silent, EventsOf, EventsIn
  <2> QED
    BY <2>1, <2>2
<1>3. CASE BuildContext \/ CallFails \/ FatalError \/ CommandExecuted
  <2>1. \E type \in EventTypes \ ({"model_turn"} \cup FeedbackTypes), note \in Notes :
          Emit(type, note) /\ UNCHANGED step
    BY <1>3, <1>a DEF BuildContext, CallFails, FatalError, CommandExecuted, EventTypes,
       FeedbackTypes, Notes, TypeOK, Outcomes
  <2>2. (Silent => Silent') /\ (Waiting => Waiting')
    BY <1>a, <2>1, TurnKept
  <2>3. \/ pc \in BeforeTurn /\ pc' \in BeforeTurn
        \/ pc \in AfterTurn /\ pc' \in AfterTurn
    BY <1>3 DEF BuildContext, CallFails, FatalError, CommandExecuted
  <2> QED
    BY <1>a, <2>2, <2>3
<1>4. CASE ModelTurn
  <2>1. \E note \in Notes : Emit("model_turn", note) /\ UNCHANGED step /\ pc' = "step"
    BY <1>4 DEF ModelTurn, Notes
  <2>2. Silent
    BY <1>4, <1>a DEF ModelTurn
  <2> QED
    BY <1>a, <2>1, <2>2, TurnLogged
<1>5. CASE ParseFailed \/ IdleTurn \/ OutputObserved
  <2>1. \E type \in FeedbackTypes, note \in Notes : Emit(type, note) /\ UNCHANGED step
    BY <1>5, <1>a DEF ParseFailed, IdleTurn, OutputObserved, FeedbackTypes, Notes, TypeOK,
       Outcomes
  <2>2. Waiting
    BY <1>5, <1>a DEF ParseFailed, IdleTurn, OutputObserved
  <2>3. AnsweredIn(log', step')
    BY <1>a, <2>1, <2>2, AnsweredNow
  <2>4. pc' \in AfterFeedback \cup {"record"}
    BY <1>5 DEF ParseFailed, IdleTurn, OutputObserved
  <2> QED
    BY <2>3, <2>4
<1>6. CASE CommandFailed
  <2>1. /\ Emit("error_raised", "nonfatal") /\ UNCHANGED step /\ pc' = "complainobj"
        /\ AnsweredIn(log, step)
    BY <1>6, <1>a DEF CommandFailed
  <2>2. AnsweredIn(log', step)
    BY <1>a, <1>b, <2>1, AnsweredKept DEF EventTypes, FeedbackTypes, Notes
  <2> QED
    BY <2>1, <2>2
<1>7. CASE TaskFinished
  <2>1. pc = "finish" /\ pc' = "record" /\ reply' = reply
    BY <1>7 DEF TaskFinished
  <2> QED
    BY <1>a, <2>1 DEF BranchTaken, Finishing
<1>8. CASE BudgetExhausted
  BY <1>8 DEF BudgetExhausted
<1> QED
  BY <1>1, <1>2, <1>3, <1>4, <1>5, <1>6, <1>7, <1>8
  DEF LoopStep, Proceed, Quiet

-----------------------------------------------------------------------------
(* Answers that cannot be parsed *)

\* Events other than parse_error do not change which turns have one.
LEMMA ParseErrorKept ==
  ASSUME TypeOK, NEW type \in EventTypes, NEW note \in Notes, Emit(type, note), NEW s,
         type # "parse_error" \/ s # step
  PROVE  EventsIn(log', {"parse_error"}, s) = EventsIn(log, {"parse_error"}, s)
<1>1. ~(type \in {"parse_error"} /\ step = s)
  OBVIOUS
<1> QED
  BY <1>1, EmitEvents

\* A turn that waits for its feedback has no parse_error event.
LEMMA WaitingNoParseError == Waiting => EventsIn(log, {"parse_error"}, step) = {}
  BY DEF Waiting, EventsOf, EventsIn, FeedbackTypes

\* consecutive_parse_failures keeps counting the parse_error events it stands for.
LEMMA FailuresTrackedStep == IInv /\ LoopStep => FailuresTracked'
<1> SUFFICES ASSUME IInv, LoopStep PROVE FailuresTracked'
  OBVIOUS
<1> USE DEF Goto, BeforeTurn, AfterTurn, AfterFeedback, ParseErrorAt, EventsOf, counterVars
<1>a. TypeOK /\ BranchTaken /\ FailuresTracked
  BY DEF IInv
<1>b. step \in Nat /\ failures \in Nat
  BY <1>a, BudgetsAssumption DEF TypeOK
<1>1. CASE Quiet
  <2>1. UNCHANGED <<log, step, failures>>
    BY <1>1, QuietStep DEF Quiet, AddTask, Backoff, CallRejected, CallAnswered,
       FatalErrorObject, AddStep, ParseErrorObject, AddCommand, AddFile, StartCommand,
       CommandEnds, AddObservation, CommandErrorObject, RecordRaises, StoreFails, Cancel
  <2>2. CASE AddStep
    <3>1. pc = "step" /\ pc' = Branch /\ reply' = reply
      BY <2>2 DEF AddStep
    <3>2. reply.parsed => failures = 0 /\ ~ParseErrorAt(step)
      BY <1>a, <3>1, WaitingNoParseError DEF IInv, CurrentTurn, FailuresTracked
    <3>3. CASE reply.parsed
      <4>1. pc' \in {"finish", "idle", "issue"}
        BY <3>1, <3>3 DEF Branch
      <4> QED
        BY <2>1, <3>2, <3>3, <4>1 DEF FailuresTracked
    <3>4. CASE ~reply.parsed
      <4>1. pc' = "reject"
        BY <3>1, <3>4 DEF Branch, Finishing
      <4> QED
        BY <1>a, <2>1, <3>1, <3>4, <4>1 DEF FailuresTracked
    <3> QED
      BY <3>3, <3>4
  <2>3. CASE ~AddStep
    <3>1. \/ pc \in BeforeTurn /\ pc' \in BeforeTurn
          \/ /\ pc \in (AfterTurn \ {"step", "reject"}) \cup AfterFeedback
             /\ pc' \in (AfterTurn \ {"step", "reject"}) \cup AfterFeedback \cup {"record"}
          \/ pc' \in Final
      BY <1>1, <2>3 DEF Quiet, AddTask, Backoff, CallRejected, CallAnswered,
         FatalErrorObject,
         ParseErrorObject, AddCommand, AddFile, StartCommand, CommandEnds, AddObservation,
         CommandErrorObject, RecordRaises, StoreFails, Cancel, Final
    <3> QED
      BY <1>a, <2>1, <3>1 DEF FailuresTracked, Final
  <2> QED
    BY <2>2, <2>3
<1>2. CASE RecordTurn
  <2>1. /\ pc = "record" /\ log' = log /\ failures' = failures
        /\ pc' \in {"top", "returned"} /\ (pc' = "top" => step' = step + 1)
    BY <1>2 DEF RecordTurn
  <2>2. pc' = "top" => step' - 1 = step
    BY <1>b, <2>1
  <2> QED
    BY <1>a, <2>1, <2>2 DEF FailuresTracked
<1>3. CASE BuildContext \/ CallFails \/ FatalError
  <2>1. \E type \in EventTypes \ {"parse_error"}, note \in Notes : Emit(type, note)
    BY <1>3 DEF BuildContext, CallFails, FatalError, EventTypes, Notes
  <2>2. EventsIn(log', {"parse_error"}, step - 1) = EventsIn(log, {"parse_error"}, step - 1)
    BY <1>a, <2>1, ParseErrorKept
  <2>3. UNCHANGED <<step, failures>> /\ pc \in BeforeTurn /\ pc' \in BeforeTurn
    BY <1>3 DEF BuildContext, CallFails, FatalError
  <2> QED
    BY <1>a, <2>2, <2>3 DEF FailuresTracked
<1>4. CASE TaskFinished \/ IdleTurn \/ CommandExecuted \/ OutputObserved \/ CommandFailed
  <2>1. \E type \in EventTypes \ {"parse_error"}, note \in Notes : Emit(type, note)
    BY <1>4, <1>a DEF TaskFinished, IdleTurn, CommandExecuted, OutputObserved,
       CommandFailed,
       EventTypes, Notes, TypeOK, Outcomes
  <2>2. EventsIn(log', {"parse_error"}, step) = EventsIn(log, {"parse_error"}, step)
    BY <1>a, <2>1, ParseErrorKept
  <2>3. /\ UNCHANGED <<step, failures>>
        /\ pc \in (AfterTurn \ {"step", "reject"}) \cup AfterFeedback
        /\ pc' \in (AfterTurn \ {"step", "reject"}) \cup AfterFeedback \cup {"record"}
    BY <1>4 DEF TaskFinished, IdleTurn, CommandExecuted, OutputObserved, CommandFailed
  <2> QED
    BY <1>a, <2>2, <2>3 DEF FailuresTracked
<1>5. CASE ModelTurn
  <2>1. /\ pc = "turn" /\ pc' = "step" /\ UNCHANGED <<step, reply>>
        /\ failures' = IF reply.parsed THEN 0 ELSE failures + 1
        /\ \E note \in Notes : Emit("model_turn", note)
    BY <1>5 DEF ModelTurn, Notes
  <2>2. EventsIn(log', {"parse_error"}, step - 1) = EventsIn(log, {"parse_error"}, step - 1)
    BY <1>a, <2>1, ParseErrorKept DEF EventTypes
  <2>3. failures \in 0..1 /\ (failures = 1 <=> ParseErrorAt(step - 1))
    BY <1>a, <2>1 DEF FailuresTracked
  <2> QED
    BY <2>1, <2>2, <2>3 DEF FailuresTracked
<1>6. CASE ParseFailed
  <2>1. pc = "reject" /\ pc' = "rejectobj" /\ UNCHANGED <<step, reply>>
    BY <1>6 DEF ParseFailed
  <2>2. ~reply.parsed /\ failures \in 1..2
    BY <1>a, <2>1 DEF BranchTaken, FailuresTracked
  <2>3. EventsIn(log, {"parse_error"}, step) = {}
    BY <2>1, WaitingNoParseError DEF IInv, CurrentTurn
  <2>4. CASE failures >= 2
    <3>1. Emit("noop_turn", "parse_failed") /\ failures' = 0
      BY <1>6, <2>4 DEF ParseFailed
    <3>2. EventsIn(log', {"parse_error"}, step) = EventsIn(log, {"parse_error"}, step)
      BY <1>a, <3>1, ParseErrorKept DEF EventTypes, Notes
    <3> QED
      BY <2>1, <2>3, <3>1, <3>2 DEF FailuresTracked
  <2>5. CASE failures < 2
    <3>1. Emit("parse_error", "parse_failed") /\ failures' = 1
      BY <1>6, <2>2, <2>5 DEF ParseFailed
    <3>2. EventsIn(log', {"parse_error"}, step) =
            EventsIn(log, {"parse_error"}, step) \cup {Len(log) + 1}
      <4>1. "parse_error" \in EventTypes /\ "parse_failed" \in Notes
        BY DEF EventTypes, Notes
      <4> QED
        BY <1>a, <3>1, <4>1, EmitEvents
    <3> QED
      BY <2>1, <3>1, <3>2 DEF FailuresTracked
  <2> QED
    BY <2>2, <2>4, <2>5
<1>7. CASE BudgetExhausted
  BY <1>7 DEF BudgetExhausted, FailuresTracked
<1> QED
  BY <1>1, <1>2, <1>3, <1>4, <1>5, <1>6, <1>7 DEF LoopStep, Proceed, Quiet

\* parse_error and the no-op of a second failure keep alternating.
LEMMA FailuresAlternateStep == IInv /\ LoopStep => FailuresAlternate'
<1> SUFFICES ASSUME IInv, LoopStep PROVE FailuresAlternate'
  OBVIOUS
<1>a. TypeOK /\ FailuresAlternate /\ StepsBounded
  BY DEF IInv
<1>b. step \in Nat /\ log \in Seq(Events)
  BY <1>a, BudgetsAssumption DEF TypeOK
<1>c. \A i \in DOMAIN log : log[i].step \in Nat /\ log[i].step - 1 # step
  <2>1. \A i \in DOMAIN log : log[i] \in Events
    BY <1>b
  <2> QED
    BY <1>a, <1>b, <2>1 DEF StepsBounded, Events
<1>1. CASE Quiet
  BY <1>a, <1>1, QuietStep DEF FailuresAlternate, EventsOf
<1>2. CASE RecordTurn
  BY <1>a, <1>2 DEF RecordTurn, FailuresAlternate, EventsOf
<1>3. ASSUME NEW type \in EventTypes, NEW note \in Notes, Emit(type, note),
             LET before == EventsIn(log, {"parse_error"}, step - 1)
             IN  /\ type = "noop_turn" /\ note = "parse_failed" => before # {}
                 /\ type = "parse_error" => before = {}
      PROVE  FailuresAlternate'
  <2>1. /\ log' \in Seq(Events) /\ Len(log') = Len(log) + 1
        /\ \A i \in 1..Len(log) : log'[i] = log[i]
    BY <1>a, <1>3, EmitEvents
  <2>2. log'[Len(log) + 1] = [type |-> type, step |-> step, note |-> note]
    BY <1>a, <1>3, EmitEvents
  <2>3. \A s : s # step =>
          EventsIn(log', {"parse_error"}, s) = EventsIn(log, {"parse_error"}, s)
    BY <1>a, <1>3, ParseErrorKept
  <2> SUFFICES ASSUME NEW i \in DOMAIN log'
               PROVE  LET before == EventsIn(log', {"parse_error"}, log'[i].step - 1)
                      IN  /\ log'[i].type = "noop_turn" /\ log'[i].note = "parse_failed"
                               => before # {}
                          /\ log'[i].type = "parse_error" => before = {}
    BY DEF FailuresAlternate, EventsOf
  <2>4. CASE i \in DOMAIN log
    <3>1. log'[i] = log[i] /\ log[i].step - 1 # step
      BY <1>b, <1>c, <2>1, <2>4
    <3>2. EventsIn(log', {"parse_error"}, log[i].step - 1)
            = EventsIn(log, {"parse_error"}, log[i].step - 1)
      BY <2>3, <3>1
    <3> QED
      BY <1>a, <2>4, <3>1, <3>2 DEF FailuresAlternate, EventsOf
  <2>5. CASE i = Len(log) + 1
    <3>1. EventsIn(log', {"parse_error"}, step - 1) = EventsIn(log, {"parse_error"},
    step - 1)
      BY <1>b, <2>3
    <3>2. log'[i].type = type /\ log'[i].step = step /\ log'[i].note = note
      BY <2>2, <2>5
    <3> QED
      BY <1>3, <3>1, <3>2
  <2> QED
    BY <1>b, <2>1, <2>4, <2>5
<1>4. CASE ParseFailed
  <2>1. pc = "reject" /\ ~reply.parsed /\ failures \in 1..2
        /\ (failures = 2 <=> EventsIn(log, {"parse_error"}, step - 1) # {})
    BY <1>4 DEF ParseFailed, IInv, BranchTaken, FailuresTracked, ParseErrorAt, EventsOf,
       BeforeTurn, AfterTurn, AfterFeedback
  <2>2. "parse_error" \in EventTypes /\ "noop_turn" \in EventTypes /\ "parse_failed" \in Notes
    BY DEF EventTypes, Notes
  <2>3. CASE failures >= 2
    <3>1. Emit("noop_turn", "parse_failed")
      BY <1>4, <2>3 DEF ParseFailed
    <3> QED
      BY <1>3, <2>1, <2>2, <2>3, <3>1
  <2>4. CASE failures < 2
    <3>1. Emit("parse_error", "parse_failed")
      BY <1>4, <2>1, <2>4 DEF ParseFailed
    <3> QED
      BY <1>3, <2>1, <2>2, <2>4, <3>1
  <2> QED
    BY <2>1, <2>3, <2>4
<1>5. CASE ~Quiet /\ ~RecordTurn /\ ~ParseFailed
  <2>1. \E type \in EventTypes, note \in Notes :
           Emit(type,
           note) /\ type # "parse_error" /\ ~(type = "noop_turn" /\ note = "parse_failed")
    BY <1>a, <1>5 DEF LoopStep, Proceed, Quiet, BudgetExhausted, BuildContext, CallFails,
       FatalError, ModelTurn, TaskFinished, IdleTurn, CommandExecuted, OutputObserved,
       CommandFailed, EventTypes, Notes, TypeOK, Outcomes
  <2> QED
    BY <1>3, <2>1
<1> QED
  BY <1>1, <1>2, <1>4, <1>5

-----------------------------------------------------------------------------
(* The end of the log *)

\* While no terminal event is in the log, one more event of any kind keeps a
\* terminal event last, and one that is not terminal keeps the log without.
LEMMA TerminalKept ==
  ASSUME TypeOK, NEW type \in EventTypes, NEW note \in Notes, Emit(type, note),
         \A i \in DOMAIN log : ~TerminalAt(i)
  PROVE  /\ TerminalIsLast'
         /\ type \notin TerminalTypes /\ note # "fatal" => \A i \in DOMAIN log' : ~TerminalAt(i)'
<1>1. /\ log \in Seq(Events) /\ log' \in Seq(Events) /\ Len(log') = Len(log) + 1
      /\ \A i \in 1..Len(log) : log'[i] = log[i]
  BY EmitEvents
<1>2. log'[Len(log) + 1] = [type |-> type, step |-> step, note |-> note]
  BY EmitEvents
<1>3. log'[Len(log) + 1].type = type /\ log'[Len(log) + 1].note = note
  BY <1>2
<1>4. \A i \in DOMAIN log' : i \in DOMAIN log \/ i = Len(log')
  BY <1>1
<1>5. \A i \in DOMAIN log : log'[i] = log[i]
  BY <1>1
<1> QED
  BY <1>1, <1>3, <1>4, <1>5 DEF TerminalIsLast, TerminalAt

\* A terminal event, or a fatal error, was written before this statement.
Ending == pc \in {"fatalobj", "returned", "raised"} \/ (pc = "record" /\ Finishing)

\* A terminal event is written only where nothing can follow it.
LEMMA TerminalStep == IInv /\ LoopStep => TerminalPending' /\ TerminalIsLast'
<1> SUFFICES ASSUME IInv, LoopStep PROVE TerminalPending' /\ TerminalIsLast'
  OBVIOUS
<1> USE DEF Goto
<1>a. /\ TypeOK /\ BranchTaken /\ TerminalIsLast
      /\ ~Ending => \A i \in DOMAIN log : ~TerminalAt(i)
  BY DEF IInv, TerminalPending, Ending
<1>b. SUFFICES /\ TerminalIsLast'
               /\ ~Ending' => \A i \in DOMAIN log' : ~TerminalAt(i)'
  BY DEF TerminalPending, Ending
<1>1. CASE Quiet
  <2>1. ~Ending' => ~Ending
    BY <1>1 DEF Ending, Quiet, AddTask, Backoff, CallRejected, CallAnswered,
       FatalErrorObject, AddStep, ParseErrorObject, AddCommand, AddFile, StartCommand,
       CommandEnds, AddObservation, CommandErrorObject, RecordRaises, StoreFails, Cancel,
       Awaiting, Writing, Finishing
  <2> QED
    BY <1>a, <1>1, <2>1, QuietStep DEF TerminalIsLast, TerminalAt
<1>2. CASE RecordTurn
  <2>1. log' = log /\ (~Ending' => ~Ending)
    BY <1>2 DEF RecordTurn, Ending
  <2> QED
    BY <1>a, <2>1 DEF TerminalIsLast, TerminalAt
<1>3. CASE BudgetExhausted \/ FatalError \/ TaskFinished
  <2>1. \E type \in EventTypes, note \in Notes : Emit(type, note)
    BY <1>3 DEF BudgetExhausted, FatalError, TaskFinished, EventTypes, Notes
  <2>2. ~Ending /\ Ending'
    BY <1>3, <1>a DEF BudgetExhausted, FatalError, TaskFinished, Ending, BranchTaken,
       Finishing
  <2> QED
    BY <1>a, <2>1, <2>2, TerminalKept
<1>4. CASE ~Quiet /\ ~RecordTurn /\ ~(BudgetExhausted \/ FatalError \/ TaskFinished)
  <2>1. \E type \in EventTypes \ TerminalTypes, note \in Notes \ {"fatal"} : Emit(type,
  note)
    BY <1>a, <1>4 DEF LoopStep, Proceed, Quiet, BuildContext, CallFails, ModelTurn,
       ParseFailed,
       IdleTurn, CommandExecuted, OutputObserved, CommandFailed, EventTypes, TerminalTypes,
       Notes, TypeOK, Outcomes
  <2>2. ~Ending
    BY <1>4 DEF LoopStep, Proceed, Quiet, BuildContext, CallFails, ModelTurn, ParseFailed,
       IdleTurn, CommandExecuted, OutputObserved, CommandFailed, Ending
  <2> QED
    BY <1>a, <2>1, <2>2, TerminalKept
<1> QED
  BY <1>1, <1>2, <1>3, <1>4

-----------------------------------------------------------------------------
(* The theorems *)

\* The loop starts in the invariant.
LEMMA InitIInv == Init => IInv
<1> SUFFICES ASSUME Init PROVE IInv
  OBVIOUS
<1> USE DEF Init
<1>1. TypeOK
  BY BudgetsAssumption, RetriesAssumption
  DEF TypeOK, PCs, Awaiting, Final, Writing, NoReply, NoResult, Outcomes
<1>2. BranchTaken /\ CountersBounded
  BY DEF BranchTaken, CountersBounded
<1>3. StepsBounded /\ FailuresAlternate /\ TerminalIsLast /\ TerminalPending
  BY DEF StepsBounded, FailuresAlternate, TerminalIsLast, TerminalPending
<1>4. ExactlyOneFeedback
  BY DEF ExactlyOneFeedback
<1>5. CurrentTurn /\ FailuresTracked
  BY DEF CurrentTurn, FailuresTracked, Silent, ParseErrorAt, EventsOf, EventsIn, BeforeTurn,
     AfterTurn, AfterFeedback
<1> QED
  BY <1>1, <1>2, <1>3, <1>4, <1>5 DEF IInv

\* Every step of the loop preserves the invariant.
LEMMA NextIInv == IInv /\ [Next]_loopVars => IInv'
<1> SUFFICES ASSUME IInv, [Next]_loopVars PROVE IInv'
  OBVIOUS
<1>1. CASE LoopStep
  BY <1>1, TypeStep, BranchStep, CountersStep, StepsBoundedStep, CurrentTurnStep,
     ExactlyOneFeedbackStep, FailuresTrackedStep, FailuresAlternateStep, TerminalStep
     DEF IInv
<1>2. CASE UNCHANGED loopVars
  <2> USE <1>2 DEF loopVars, graphVars, counterVars, IInv
  <2>1. TypeOK'
    BY DEF TypeOK
  <2>2. BranchTaken' /\ CountersBounded'
    BY DEF BranchTaken, Finishing, CountersBounded
  <2>3. StepsBounded' /\ ExactlyOneFeedback'
    BY DEF StepsBounded, ExactlyOneFeedback
  <2>4. CurrentTurn'
    BY DEF CurrentTurn, Silent, Waiting, EventsOf, Finishing
  <2>5. FailuresTracked' /\ FailuresAlternate'
    BY DEF FailuresTracked, ParseErrorAt, FailuresAlternate, EventsOf
  <2>6. TerminalPending' /\ TerminalIsLast'
    BY DEF TerminalPending, TerminalAt, TerminalIsLast, Finishing
  <2> QED
    BY <2>1, <2>2, <2>3, <2>4, <2>5, <2>6
<1> QED
  BY <1>1, <1>2 DEF Next, Terminated

\* The invariant holds in every behaviour of the loop: any model, any store
\* failure, any cancellation.
THEOREM InvariantHolds == Spec => []IInv
  BY InitIInv, NextIInv, PTL DEF Spec

\* Every variable of the loop keeps its type.
THEOREM TypeCorrect == Spec => []TypeOK
  BY InvariantHolds, PTL DEF IInv

\* Every finished turn is in the log with exactly one model_turn and one later
\* feedback event: the pairing the context builders rely on.
THEOREM FeedbackCorrect == Spec => []ExactlyOneFeedback
  BY InvariantHolds, PTL DEF IInv

\* The model is told about two unparsable answers only after it was told about
\* one, and never about one twice in a row.
THEOREM FailuresCorrect == Spec => []FailuresAlternate
  BY InvariantHolds, PTL DEF IInv

\* Nothing is logged after a terminal event or a fatal error.
THEOREM TerminalCorrect == Spec => []TerminalIsLast
  BY InvariantHolds, PTL DEF IInv

-----------------------------------------------------------------------------
(* The ledger's view of the log *)

\* A turn is in the set of turns with such an event if it has such an event.
LEMMA StepsWithEvents ==
  ASSUME NEW T, NEW s
  PROVE  s \in StepsWith(T) <=> EventsOf(T, s) # {}
  BY DEF StepsWith, EventsOf, EventsIn

\* One more event puts the current turn into the sets of its type, and nothing
\* else into any.
LEMMA EmitLedger ==
  ASSUME TypeOK, NEW type \in EventTypes, NEW note \in Notes, Emit(type, note)
  PROVE  /\ \A T : type \in T => StepsWith(T)' = StepsWith(T) \cup {step}
         /\ \A T : type \notin T => StepsWith(T)' = StepsWith(T)
         /\ \A t : Happened(t)' <=> (Happened(t) \/ t = type)
<1>1. /\ log \in Seq(Events) /\ log' \in Seq(Events) /\ Len(log') = Len(log) + 1
      /\ \A i \in 1..Len(log) : log'[i] = log[i]
      /\ log'[Len(log) + 1] = [type |-> type, step |-> step, note |-> note]
  BY EmitEvents
<1>2. DOMAIN log = 1..Len(log) /\ DOMAIN log' = 1..(Len(log) + 1) /\ Len(log) \in Nat
  BY <1>1
<1>3. DOMAIN log' = DOMAIN log \cup {Len(log) + 1}
  BY <1>2
<1>4. \A i \in DOMAIN log : log'[i] = log[i]
  BY <1>1, <1>2
<1>5. log'[Len(log) + 1].type = type /\ log'[Len(log) + 1].step = step
  BY <1>1
<1>6. ASSUME NEW T
      PROVE  StepsWith(T)' = StepsWith(T) \cup (IF type \in T THEN {step} ELSE {})
  BY <1>3, <1>4, <1>5 DEF StepsWith
<1>7. ASSUME NEW t
      PROVE  Happened(t)' <=> (Happened(t) \/ t = type)
  BY <1>3, <1>4, <1>5 DEF Happened
<1> QED
  BY <1>6, <1>7

\* Without a new event nothing moves in the ledger's view of the log.
LEMMA QuietLedger ==
  ASSUME UNCHANGED log
  PROVE  /\ \A T : StepsWith(T)' = StepsWith(T)
         /\ \A t : Happened(t)' <=> Happened(t)
  BY DEF StepsWith, Happened

-----------------------------------------------------------------------------
(* The strengthening of the invariant *)

\* The log says the loop ended only where nothing can follow, and says it of a
\* finishing turn.
LEMMA EndStep == IInv /\ LedgerInv /\ LoopStep => EndPending' /\ FinishLogged'
<1> SUFFICES ASSUME IInv, LedgerInv, LoopStep PROVE EndPending' /\ FinishLogged'
  OBVIOUS
<1> USE DEF Goto, EndPending, FinishLogged
<1>a. TypeOK /\ BranchTaken /\ EndPending /\ FinishLogged
  BY DEF IInv, LedgerInv
<1>1. CASE Quiet
  <2>1. \A t : Happened(t)' <=> Happened(t)
    BY <1>1, QuietStep, QuietLedger
  <2>2. \/ /\ pc \notin {"record", "returned", "raised"}
           /\ pc' = "record" => ~Finishing'
        \/ pc = "record" /\ pc' = "raised"
    BY <1>1, <1>a DEF Quiet, AddTask, Backoff, CallRejected, CallAnswered, FatalErrorObject,
       AddStep, ParseErrorObject, AddCommand, AddFile, StartCommand, CommandEnds,
       AddObservation, CommandErrorObject, RecordRaises, StoreFails, Cancel, Awaiting,
       Writing, Finishing, BranchTaken, Branch
  <2> QED
    BY <1>a, <2>1, <2>2
<1>2. CASE RecordTurn
  <2>1. \A t : Happened(t)' <=> Happened(t)
    BY <1>2, QuietLedger DEF RecordTurn
  <2> QED
    BY <1>2, <1>a, <2>1 DEF RecordTurn
<1>3. CASE BudgetExhausted
  BY <1>3 DEF BudgetExhausted
<1>4. CASE TaskFinished
  <2>1. Emit("task_finished", "none") /\ "task_finished" \in EventTypes /\ "none" \in Notes
    BY <1>4 DEF TaskFinished, EventTypes, Notes
  <2>2. Happened("task_finished")'
    BY <1>a, <2>1, EmitLedger
  <2>3. pc' = "record" /\ Finishing'
    BY <1>4, <1>a DEF TaskFinished, BranchTaken, Finishing
  <2> QED
    BY <2>2, <2>3
<1>5. CASE ~Quiet /\ ~RecordTurn /\ ~BudgetExhausted /\ ~TaskFinished
  <2>1. \E type \in EventTypes \ TerminalTypes, note \in Notes : Emit(type, note)
    BY <1>a, <1>5 DEF LoopStep, Proceed, Quiet, BuildContext, CallFails, FatalError,
       ModelTurn, ParseFailed, IdleTurn, CommandExecuted, OutputObserved, CommandFailed,
       EventTypes, TerminalTypes, Notes, TypeOK, Outcomes
  <2>2. PICK type \in EventTypes \ TerminalTypes, note \in Notes : Emit(type, note)
    BY <2>1
  <2>3. \A t : Happened(t)' <=> (Happened(t) \/ t = type)
    BY <1>a, <2>2, EmitLedger
  <2>4. /\ pc \notin {"record", "returned", "raised"}
        /\ pc' = "record" => ~Finishing'
    BY <1>5, <1>a DEF LoopStep, Proceed, Quiet, BuildContext, CallFails, FatalError,
       ModelTurn, ParseFailed, IdleTurn, CommandExecuted, OutputObserved, CommandFailed,
       BranchTaken, Finishing
  <2> QED
    BY <1>a, <2>2, <2>3, <2>4 DEF TerminalTypes
<1> QED
  BY <1>1, <1>2, <1>3, <1>4, <1>5

\* A command is logged as executed once in its turn.
LEMMA NotExecutedStep == IInv /\ LedgerInv /\ LoopStep => NotExecuted'
<1> SUFFICES ASSUME IInv, LedgerInv, LoopStep PROVE NotExecuted'
  OBVIOUS
<1> DEFINE Unexecuted == BeforeTurn \cup (AfterTurn \ {"observe"})
           X(s) == EventsIn(log, {"command_executed"}, s)
<1> USE DEF Goto, BeforeTurn, AfterTurn
<1>a. TypeOK /\ StepsBounded /\ (pc \in Unexecuted => X(step) = {})
  BY DEF IInv, LedgerInv, NotExecuted, EventsOf
<1>b. SUFFICES pc' \in Unexecuted => EventsIn(log', {"command_executed"}, step') = {}
  BY DEF NotExecuted, EventsOf
<1>1. CASE Quiet
  <2>1. pc' \in Unexecuted => pc \in Unexecuted \/ step' # step
    BY <1>1, BranchType DEF Quiet, AddTask, Backoff, CallRejected, CallAnswered,
       FatalErrorObject, AddStep, ParseErrorObject, AddCommand, AddFile, StartCommand,
       CommandEnds, AddObservation, CommandErrorObject, RecordRaises, StoreFails, Cancel
  <2> QED
    BY <1>1, <1>a, <2>1, QuietStep
<1>2. CASE RecordTurn
  <2>1. log' = log /\ (pc' \in Unexecuted => step' = step + 1)
    BY <1>2 DEF RecordTurn
  <2>2. X(step + 1) = {}
    <3>1. \A i \in DOMAIN log : log[i].step <= step
      BY <1>a DEF StepsBounded
    <3>2. step \in Nat
      BY <1>a, BudgetsAssumption DEF TypeOK
    <3> QED
      BY <3>1, <3>2 DEF EventsIn
  <2> QED
    BY <2>1, <2>2
<1>3. CASE CommandExecuted
  BY <1>3 DEF CommandExecuted
<1>4. CASE ~Quiet /\ ~RecordTurn /\ ~CommandExecuted
  <2>1. /\ \E type \in EventTypes \ {"command_executed"}, note \in Notes : Emit(type, note)
        /\ UNCHANGED step
        /\ pc' \in Unexecuted => pc \in Unexecuted
    BY <1>a, <1>4 DEF LoopStep, Proceed, Quiet, BudgetExhausted, BuildContext, CallFails,
       FatalError, ModelTurn, ParseFailed, TaskFinished, IdleTurn, OutputObserved,
       CommandFailed, EventTypes, Notes, TypeOK, Outcomes
  <2>2. EventsIn(log', {"command_executed"}, step) = X(step)
    BY <1>a, <2>1, EmitKeeps
  <2> QED
    BY <1>a, <2>1, <2>2
<1> QED
  BY <1>1, <1>2, <1>3, <1>4

\* Both invariants together hold in every behaviour.
LEMMA InitLedgerInv == Init => LedgerInv
  BY DEF Init, LedgerInv, EndPending, FinishLogged, NotExecuted, Happened, EventsOf, EventsIn

LEMMA NextLedgerInv == IInv /\ LedgerInv /\ [Next]_loopVars => LedgerInv'
<1> SUFFICES ASSUME IInv, LedgerInv, [Next]_loopVars PROVE LedgerInv'
  OBVIOUS
<1>1. CASE LoopStep
  BY <1>1, EndStep, NotExecutedStep DEF LedgerInv
<1>2. CASE UNCHANGED loopVars
  BY <1>2 DEF loopVars, LedgerInv, EndPending, FinishLogged, Finishing, NotExecuted, Happened,
     EventsOf
<1> QED
  BY <1>1, <1>2 DEF Next, Terminated

-----------------------------------------------------------------------------
(* Each step of the loop in the ledger *)

\* What the ledger's sets hold of the turn being taken, by where the loop is.
LEMMA Standing ==
  ASSUME IInv, LedgerInv
  PROVE  /\ pc \in BeforeTurn \cup AfterTurn => step \notin StepsWith(FeedbackTypes)
         /\ pc \in BeforeTurn => step \notin StepsWith({"model_turn"})
         /\ pc \in AfterTurn => step \in StepsWith({"model_turn"})
         /\ pc \in BeforeTurn \cup (AfterTurn \ {"observe"}) =>
              step \notin StepsWith({"command_executed"})
         /\ pc = "record" /\ ~Finishing => step \in StepsWith(FeedbackTypes)
<1>1. CurrentTurn /\ NotExecuted
  BY DEF IInv, LedgerInv
<1>2. pc \in AfterTurn => EventsOf({"model_turn"}, step) # {}
  BY <1>1 DEF CurrentTurn, Waiting
<1>3. pc = "record" /\ ~Finishing => EventsOf(FeedbackTypes, step) # {}
  BY <1>1 DEF CurrentTurn, AnsweredIn, EventsOf
<1> QED
  BY <1>1, <1>2, <1>3, StepsWithEvents DEF CurrentTurn, Silent, Waiting, NotExecuted

\* The ledger is open until the loop ends or has finished the task.
LEMMA StillOpen ==
  ASSUME LedgerInv, pc \notin Final, ~(pc = "record" /\ Finishing)
  PROVE  Ended = "no"
  BY DEF LedgerInv, EndPending, Ended, Final

\* Handing a record over closes the current turn.
LEMMA HandOverCloses ==
  ASSUME TypeOK, HandOver
  PROVE  Closed' = Closed \cup {step}
<1> DEFINE Records == [step : Nat, command : Commands \cup {NoCommand}, done : BOOLEAN,
                       parseFailed : BOOLEAN, tokens : Nat]
           new == [step |-> step, command |-> reply.command, done |-> reply.done,
                   parseFailed |-> ~reply.parsed, tokens |-> reply.tokens]
<1>1. turns \in Seq(Records) /\ turns' = Append(turns, new) /\ new.step = step
  BY DEF TypeOK, HandOver
<1> HIDE DEF Records, new
<1>2. /\ DOMAIN turns' = DOMAIN turns \cup {Len(turns) + 1}
      /\ \A i \in DOMAIN turns : turns'[i] = turns[i]
      /\ turns'[Len(turns) + 1] = new
  BY <1>1
<1> QED
  BY <1>1, <1>2 DEF Closed

\* The steps the ledger does not see.
LEMMA HiddenStep ==
  ASSUME LedgerInv, Quiet, ~FatalErrorObject, ~RecordRaises, ~StoreFails, ~Cancel
  PROVE  UNCHANGED Ledger!ledgerVars
<1>1. UNCHANGED <<log, step, turns>> /\ pc \notin Final /\ pc' \notin Final
  BY BranchType DEF Quiet, AddTask, Backoff, CallRejected, CallAnswered, AddStep,
     ParseErrorObject, AddCommand, AddFile, StartCommand, CommandEnds, AddObservation,
     CommandErrorObject, Goto, Final
<1>2. UNCHANGED <<Ended, Closed>>
  BY <1>1, QuietLedger DEF Ended, Closed, Final
<1> QED
  BY <1>1, <1>2, QuietLedger DEF Ledger!ledgerVars

\* The loop fails in the middle of a turn.
LEMMA FailureStep ==
  ASSUME IInv, LedgerInv, FatalErrorObject \/ StoreFails \/ Cancel
  PROVE  Ledger!Fail
<1>1. /\ UNCHANGED <<log, step, turns>> /\ pc' \in {"raised", "cancelled"}
      /\ pc \notin Final \cup {"record"}
  BY DEF FatalErrorObject, StoreFails, Cancel, Goto, Writing, Awaiting, Final
<1>2. ~Happened("task_finished") /\ ~Happened("budget_exhausted") /\ Ended = "no"
  BY <1>1, StillOpen DEF LedgerInv, EndPending, Final
<1>3. Ended' = "failed"
  BY <1>1, <1>2, QuietLedger DEF Ended
<1> QED
  BY <1>1, <1>2, <1>3, QuietLedger DEF Ledger!Fail, Closed

\* The turn is handed over: the next one begins, or the ledger is complete, or
\* the callback raised.
LEMMA HandedStep ==
  ASSUME IInv, LedgerInv, RecordTurn \/ RecordRaises
  PROVE  Ledger!Close \/ Ledger!CloseLast \/ Ledger!Fail
<1>1. UNCHANGED log /\ pc = "record" /\ Closed' = Closed \cup {step}
  BY HandOverCloses DEF IInv, RecordTurn, RecordRaises
<1>2. /\ \A T : StepsWith(T)' = StepsWith(T)
      /\ \A t : Happened(t)' <=> Happened(t)
  BY <1>1, QuietLedger
<1>3. CASE Finishing
  <2>1. Happened("task_finished") /\ UNCHANGED step
    BY <1>1, <1>3 DEF LedgerInv, FinishLogged, RecordTurn, RecordRaises
  <2>2. Ended = "finished" /\ Ended' = "finished"
    BY <1>2, <2>1 DEF Ended
  <2> QED
    BY <1>1, <1>2, <2>1, <2>2 DEF Ledger!CloseLast
<1>4. CASE ~Finishing
  <2>1. Ended = "no" /\ ~Happened("task_finished") /\ ~Happened("budget_exhausted")
    BY <1>1, <1>4, StillOpen DEF LedgerInv, EndPending, Final
  <2>2. step \in StepsWith(FeedbackTypes)
    BY <1>1, <1>4, Standing
  <2>3. CASE RecordTurn
    <3>1. step' = step + 1 /\ pc' = "top"
      BY <1>4, <2>3 DEF RecordTurn, Goto
    <3>2. Ended' = "no"
      BY <1>2, <2>1, <3>1 DEF Ended
    <3> QED
      BY <1>1, <1>2, <2>1, <2>2, <3>1, <3>2 DEF Ledger!Close
  <2>4. CASE RecordRaises
    <3>1. UNCHANGED step /\ pc' = "raised"
      BY <2>4 DEF RecordRaises, Goto
    <3>2. Ended' = "failed"
      BY <1>2, <2>1, <3>1 DEF Ended
    <3> QED
      BY <1>1, <1>2, <2>1, <2>2, <3>1, <3>2 DEF Ledger!Fail
  <2> QED
    BY <2>3, <2>4
<1> QED
  BY <1>3, <1>4

\* A step that logs an event of no interest to the ledger.
LEMMA SilentEventStep ==
  ASSUME IInv, LedgerInv, BuildContext \/ CallFails \/ FatalError \/ CommandFailed
  PROVE  UNCHANGED Ledger!ledgerVars
<1>1. \E type \in EventTypes, note \in Notes :
        /\ Emit(type, note)
        /\ type \in {"context_built", "llm_retry", "error_raised"}
  BY DEF BuildContext, CallFails, FatalError, CommandFailed, EventTypes, Notes
<1>2. PICK type \in EventTypes, note \in Notes :
        /\ Emit(type, note)
        /\ type \in {"context_built", "llm_retry", "error_raised"}
  BY <1>1
<1>3. /\ \A T : type \notin T => StepsWith(T)' = StepsWith(T)
      /\ \A t : Happened(t)' <=> (Happened(t) \/ t = type)
  BY <1>2, EmitLedger DEF IInv
<1>4. UNCHANGED <<step, turns>> /\ pc \notin Final /\ pc' \notin Final
  BY DEF BuildContext, CallFails, FatalError, CommandFailed, Goto, Final
<1>5. Ended' = Ended /\ Closed' = Closed
  BY <1>2, <1>3, <1>4 DEF Ended, Closed, Final
<1> QED
  BY <1>2, <1>3, <1>4, <1>5 DEF Ledger!ledgerVars, FeedbackTypes

\* A step that logs one of the ledger's events and leaves it open.
LEMMA OpenEventStep ==
  ASSUME IInv, LedgerInv, NEW type \in EventTypes \ TerminalTypes, NEW note \in Notes,
         Emit(type, note), UNCHANGED <<step, turns>>,
         pc \notin Final \cup {"record"}, pc' \notin Final
  PROVE  /\ Ended = "no" /\ UNCHANGED <<Ended, Closed>>
         /\ \A T : type \in T => StepsWith(T)' = StepsWith(T) \cup {step}
         /\ \A T : type \notin T => StepsWith(T)' = StepsWith(T)
<1>1. /\ \A T : type \in T => StepsWith(T)' = StepsWith(T) \cup {step}
      /\ \A T : type \notin T => StepsWith(T)' = StepsWith(T)
      /\ \A t : Happened(t)' <=> (Happened(t) \/ t = type)
  BY EmitLedger DEF IInv
<1>2. Ended = "no"
  BY StillOpen
<1>3. Ended' = Ended /\ Closed' = Closed
  BY <1>1 DEF Ended, Closed, Final, TerminalTypes
<1> QED
  BY <1>1, <1>2, <1>3

\* The answer of the model opens the turn.
LEMMA AnswerStep == ASSUME IInv, LedgerInv, ModelTurn PROVE Ledger!Answer
<1>1. /\ pc = "turn" /\ pc' = "step" /\ UNCHANGED <<step, turns>>
      /\ \E note \in Notes : Emit("model_turn", note)
  BY DEF ModelTurn, Goto, Notes
<1>2. step < MaxSteps /\ step \notin StepsWith({"model_turn"})
  BY <1>1, Standing DEF IInv, CountersBounded, Final, BeforeTurn
<1>3. "model_turn" \in EventTypes \ TerminalTypes /\ "model_turn" \notin FeedbackTypes
  BY DEF EventTypes, TerminalTypes, FeedbackTypes
<1>4. /\ Ended = "no" /\ UNCHANGED <<Ended, Closed>>
      /\ \A T : "model_turn" \in T => StepsWith(T)' = StepsWith(T) \cup {step}
      /\ \A T : "model_turn" \notin T => StepsWith(T)' = StepsWith(T)
  BY <1>1, <1>3, OpenEventStep DEF Final
<1> QED
  BY <1>1, <1>2, <1>3, <1>4 DEF Ledger!Answer

\* The command of the turn is logged once.
LEMMA ExecuteStep == ASSUME IInv, LedgerInv, CommandExecuted PROVE Ledger!Execute
<1>1. /\ pc = "executed" /\ pc' = "observe" /\ UNCHANGED <<step, turns>>
      /\ Emit("command_executed", outcome) /\ outcome \in Notes
  BY DEF CommandExecuted, Goto, Notes, IInv, TypeOK
<1>2. /\ step \in StepsWith({"model_turn"})
      /\ step \notin StepsWith(FeedbackTypes)
      /\ step \notin StepsWith({"command_executed"})
  BY <1>1, Standing DEF AfterTurn
<1>3. /\ "command_executed" \in EventTypes \ TerminalTypes
      /\ "command_executed" \notin FeedbackTypes
  BY DEF EventTypes, TerminalTypes, FeedbackTypes
<1>4. /\ Ended = "no" /\ UNCHANGED <<Ended, Closed>>
      /\ \A T : "command_executed" \in T => StepsWith(T)' = StepsWith(T) \cup {step}
      /\ \A T : "command_executed" \notin T => StepsWith(T)' = StepsWith(T)
  BY <1>1, <1>3, OpenEventStep DEF Final
<1> QED
  BY <1>1, <1>2, <1>3, <1>4 DEF Ledger!Execute

\* The feedback event tells the model what came of the turn.
LEMMA TellStep ==
  ASSUME IInv, LedgerInv, ParseFailed \/ IdleTurn \/ OutputObserved
  PROVE  Ledger!Tell
<1>1. /\ pc \in AfterTurn /\ pc' \in {"rejectobj", "record", "observation"}
      /\ UNCHANGED <<step, turns>>
      /\ \E type \in FeedbackTypes, note \in Notes : Emit(type, note)
  BY DEF ParseFailed, IdleTurn, OutputObserved, Goto, Notes, FeedbackTypes, AfterTurn, IInv,
     TypeOK
<1>2. PICK type \in FeedbackTypes, note \in Notes : Emit(type, note)
  BY <1>1
<1>3. /\ step \in StepsWith({"model_turn"})
      /\ step \notin StepsWith(FeedbackTypes)
  BY <1>1, Standing
<1>4. /\ type \in EventTypes \ TerminalTypes
      /\ type \notin {"model_turn"} /\ type \notin {"command_executed"}
  BY DEF EventTypes, TerminalTypes, FeedbackTypes
<1>5. /\ Ended = "no" /\ UNCHANGED <<Ended, Closed>>
      /\ \A T : type \in T => StepsWith(T)' = StepsWith(T) \cup {step}
      /\ \A T : type \notin T => StepsWith(T)' = StepsWith(T)
  BY <1>1, <1>2, <1>4, OpenEventStep DEF Final, AfterTurn
<1> QED
  BY <1>1, <1>3, <1>4, <1>5 DEF Ledger!Tell

\* The events that end the ledger.
LEMMA EndEventStep ==
  ASSUME IInv, LedgerInv, TaskFinished \/ BudgetExhausted
  PROVE  Ledger!Finish \/ Ledger!Exhaust
<1> DEFINE type == IF TaskFinished THEN "task_finished" ELSE "budget_exhausted"
<1>1. /\ pc \notin Final \cup {"record"} /\ UNCHANGED <<step, turns>>
      /\ pc = IF TaskFinished THEN "finish" ELSE "top"
      /\ type \in EventTypes /\ "none" \in Notes /\ Emit(type, "none")
  BY DEF TaskFinished, BudgetExhausted, Final, EventTypes, Notes
<1>2. ~Happened("task_finished") /\ ~Happened("budget_exhausted") /\ Ended = "no"
  BY <1>1, StillOpen DEF LedgerInv, EndPending, Final
<1>3. /\ \A T : type \notin T => StepsWith(T)' = StepsWith(T)
      /\ \A t : Happened(t)' <=> (Happened(t) \/ t = type)
  BY <1>1, EmitLedger DEF IInv
<1>4. /\ StepsWith({"model_turn"})' = StepsWith({"model_turn"})
      /\ StepsWith({"command_executed"})' = StepsWith({"command_executed"})
      /\ StepsWith(FeedbackTypes)' = StepsWith(FeedbackTypes)
  BY <1>3 DEF FeedbackTypes
<1>5. CASE TaskFinished
  <2>1. Ended' = "finished"
    BY <1>3, <1>5 DEF Ended
  <2>2. step \in StepsWith({"model_turn"}) \ (StepsWith(FeedbackTypes)
                                              \cup StepsWith({"command_executed"}))
    BY <1>1, <1>5, Standing DEF AfterTurn
  <2> QED
    BY <1>1, <1>2, <1>4, <2>1, <2>2 DEF Ledger!Finish, Closed
<1>6. CASE ~TaskFinished
  <2>1. Ended' = "exhausted"
    BY <1>2, <1>3, <1>6 DEF Ended
  <2>2. step \notin StepsWith({"model_turn"})
    BY <1>1, <1>6, Standing DEF BeforeTurn
  <2> QED
    BY <1>1, <1>2, <1>4, <2>1, <2>2 DEF Ledger!Exhaust, Closed
<1> QED
  BY <1>5, <1>6

-----------------------------------------------------------------------------
(* The ledger is consistent *)

\* The turns up to the current one are those before it, and it.
LEMMA UpTo == ASSUME NEW n \in Nat PROVE 0..n = 0..(n - 1) \cup {n}
  OBVIOUS

\* An empty ledger is consistent.
LEMMA InitConsistent == Ledger!LedgerInit => TurnsConsistent
  BY BudgetsAssumption DEF Ledger!LedgerInit, TurnsConsistent, Ledger!LedgerConsistent

\* Every step of the ledger keeps it consistent.
LEMMA NextConsistent ==
  TurnsConsistent /\ [Ledger!LedgerNext]_(Ledger!ledgerVars) => TurnsConsistent'
<1> SUFFICES ASSUME TurnsConsistent, Ledger!LedgerNext \/ UNCHANGED Ledger!ledgerVars
             PROVE  TurnsConsistent'
  OBVIOUS
<1> DEFINE answered == StepsWith({"model_turn"})
           executed == StepsWith({"command_executed"})
           told     == StepsWith(FeedbackTypes)
<1>1. /\ step \in 0..MaxSteps
      /\ answered \in {0..(step - 1), 0..step} /\ (step \in answered => step < MaxSteps)
      /\ executed \subseteq answered
      /\ told \in {0..(step - 1), 0..step} /\ told \subseteq answered
      /\ Closed \in {0..(step - 1), 0..step}
      /\ Closed \subseteq told \cup (IF Ended = "finished" THEN answered ELSE {})
      /\ Ended = "finished" => step \in answered
      /\ Ended = "exhausted" => Closed = answered
  BY DEF TurnsConsistent, Ledger!LedgerConsistent
<1>2. SUFFICES
        /\ step' \in 0..MaxSteps
        /\ answered' \in {0..(step' - 1), 0..step'} /\ (step' \in answered' => step' < MaxSteps)
        /\ executed' \subseteq answered'
        /\ told' \in {0..(step' - 1), 0..step'} /\ told' \subseteq answered'
        /\ Closed' \in {0..(step' - 1), 0..step'}
        /\ Closed' \subseteq told' \cup (IF Ended' = "finished" THEN answered' ELSE {})
        /\ Ended' = "finished" => step' \in answered'
        /\ Ended' = "exhausted" => Closed' = answered'
  BY DEF TurnsConsistent, Ledger!LedgerConsistent
<1>3. step \in Nat /\ 0..step = 0..(step - 1) \cup {step} /\ step \notin 0..(step - 1)
  BY <1>1, UpTo, BudgetsAssumption
<1>4. CASE Ledger!Answer
  BY <1>1, <1>3, <1>4 DEF Ledger!Answer
<1>5. CASE Ledger!Execute \/ Ledger!Finish
  BY <1>1, <1>3, <1>5 DEF Ledger!Execute, Ledger!Finish
<1>6. CASE Ledger!Tell
  BY <1>1, <1>3, <1>6 DEF Ledger!Tell
<1>7. CASE Ledger!Close
  <2>1. step' = step + 1 /\ step' - 1 = step /\ step < MaxSteps
    BY <1>1, <1>3, <1>7 DEF Ledger!Close
  <2>2. answered = 0..step /\ told = 0..step /\ Closed' = 0..step
    BY <1>1, <1>3, <1>7 DEF Ledger!Close
  <2> QED
    BY <1>1, <1>3, <1>7, <2>1, <2>2, BudgetsAssumption DEF Ledger!Close
<1>8. CASE Ledger!CloseLast \/ Ledger!Exhaust \/ Ledger!Fail
  BY <1>1, <1>3, <1>8 DEF Ledger!CloseLast, Ledger!Exhaust, Ledger!Fail
<1>9. CASE UNCHANGED Ledger!ledgerVars
  BY <1>1, <1>9 DEF Ledger!ledgerVars
<1> QED
  BY <1>4, <1>5, <1>6, <1>7, <1>8, <1>9 DEF Ledger!LedgerNext

-----------------------------------------------------------------------------
(* The theorems *)

\* The loop starts as an empty ledger.
LEMMA InitLedger == Init => Ledger!LedgerInit
  BY DEF Init, Ledger!LedgerInit, StepsWith, Closed, Ended, Happened

\* Every step of the loop is a step of the ledger, or hidden from it.
LEMMA NextLedger ==
  IInv /\ LedgerInv /\ [Next]_loopVars => [Ledger!LedgerNext]_(Ledger!ledgerVars)
<1> SUFFICES ASSUME IInv, LedgerInv, [Next]_loopVars
             PROVE  Ledger!LedgerNext \/ UNCHANGED Ledger!ledgerVars
  OBVIOUS
<1>1. CASE LoopStep
  <2>1. \/ Quiet \/ RecordTurn
        \/ BuildContext \/ CallFails \/ FatalError \/ CommandFailed
        \/ ModelTurn \/ CommandExecuted \/ ParseFailed \/ IdleTurn \/ OutputObserved
        \/ TaskFinished \/ BudgetExhausted
    BY <1>1 DEF LoopStep, Proceed, Quiet
  <2> QED
    BY <2>1, HiddenStep, FailureStep, HandedStep, SilentEventStep, AnswerStep, ExecuteStep,
       TellStep, EndEventStep DEF Ledger!LedgerNext
<1>2. CASE UNCHANGED loopVars
  BY <1>2, QuietLedger DEF loopVars, Ledger!ledgerVars, Ended, Closed
<1> QED
  BY <1>1, <1>2 DEF Next, Terminated

\* The loop implements the ledger of turns: whatever the model, the store and
\* the callback do, its log and its records tell the same story, turn by turn.
THEOREM LoopImplementsLedger == Spec => ImplementsLedger
  BY InitIInv, NextIInv, InitLedgerInv, NextLedgerInv, InitLedger, NextLedger, PTL
     DEF Spec, ImplementsLedger, Ledger!LedgerSpec

\* No turn is handed over unanswered, none after the current one is in the log,
\* and an exhausted budget leaves every answered turn handed over.
THEOREM TurnsAgree == Spec => []TurnsConsistent
  BY LoopImplementsLedger, InitConsistent, NextConsistent, PTL
     DEF ImplementsLedger, Ledger!LedgerSpec
=============================================================================
