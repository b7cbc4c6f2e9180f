------------------------------ MODULE TrialProofs ------------------------------
(***************************************************************************)
(* TLAPS proofs about Trial: what a trial leaves behind agrees with its    *)
(* log, and its store is closed, however the loop, the exports or the      *)
(* process end.  The loop's own invariants (ReactLoopProofs to             *)
(* ReactLoopCounts) carry over, since the trial adds one event before the  *)
(* loop and otherwise lets it take its own steps.                          *)
(***************************************************************************)
EXTENDS ReactLoopCounts, TrialInv

\* What holds of the loop inside a trial, and of the trial around it.
LoopInv == IInv /\ LedgerInv /\ CountInv
FullInv == LoopInv /\ TrialInvariant

-----------------------------------------------------------------------------
(* The kinds of steps *)

\* The steps of run() that are not the loop's and leave the log alone.
Around ==
    \/ RefuseTrial \/ OpenLog \/ BuildClient \/ LoopEnds
    \/ ExportLog \/ ExportFails \/ WriteSummary \/ SummaryFails \/ CloseLog \/ Finish
    \/ Kill \/ TrialOver

\* They leave the loop alone too.
LEMMA AroundStep == Around => UNCHANGED loopVars
  BY DEF Around, RefuseTrial, OpenLog, BuildClient, LoopEnds, ExportLog, ExportFails,
     WriteSummary, SummaryFails, CloseLog, Finish, Kill, TrialOver, trialVars

\* The others are the loop's, or the first event.
LEMMA TrialStep ==
  TrialNext => \/ Around
               \/ TaskStarted
               \/ phase = "loop" /\ LoopStep /\ (InnerStep \/ TurnRecorded \/ TurnRecordFails)
  BY DEF TrialNext, RunStep, Around, InnerStep, TurnRecorded, TurnRecordFails, LoopStep,
     Proceed

\* The loop's variables, one by one.
LEMMA LoopFrozen ==
  UNCHANGED loopVars =>
    UNCHANGED <<log, commandObjs, errorObjs, pc, step, attempt, reply, nCommands, nErrors,
                tokens, result, turns, ran>>
  BY DEF loopVars, graphVars, counterVars

-----------------------------------------------------------------------------
(* The loop's invariants carry over *)

\* task_started is an event of no turn: it moves none of the sets and counts the
\* loop's invariants speak of.
LEMMA StartedKeeps ==
  ASSUME TypeOK, Emit("task_started", "none")
  PROVE  /\ \A T, s : "task_started" \notin T => EventsIn(log', T, s) = EventsIn(log, T, s)
         /\ \A T : "task_started" \notin T => Count(T)' = Count(T)
         /\ \A t : Happened(t)' <=> (Happened(t) \/ t = "task_started")
<1>1. "task_started" \in EventTypes /\ "none" \in Notes
  BY DEF EventTypes, Notes
<1> QED
  BY <1>1, EmitEvents, EmitCount, EmitLedger

\* The first event of the trial keeps the loop's inductive invariant.
LEMMA StartedIInv ==
  ASSUME IInv, LoopPlaced, phase = "start", Emit("task_started", "none"),
         UNCHANGED <<graphVars, pc, step, attempt, reply, outcome, paths, counterVars,
                     result, turns, ran, elapsed>>
  PROVE  IInv'
<1> USE DEF graphVars, counterVars
<1>1. TypeOK /\ log = <<>> /\ pc = "begin"
  BY DEF IInv, LoopPlaced, BeforeLoop
<1>2. "task_started" \in EventTypes /\ "none" \in Notes
  BY DEF EventTypes, Notes
<1>3. /\ log' \in Seq(Events) /\ DOMAIN log' = {1}
      /\ log'[1] = [type |-> "task_started", step |-> step, note |-> "none"]
  <2>1. /\ log' \in Seq(Events) /\ Len(log') = Len(log) + 1 /\ Len(log) = 0
        /\ log'[Len(log) + 1] = [type |-> "task_started", step |-> step, note |-> "none"]
    BY <1>1, <1>2, EmitEvents
  <2> QED
    BY <2>1
<1>4. /\ TypeOK'
      /\ BranchTaken' /\ CountersBounded'
  BY <1>1, <1>3 DEF IInv, TypeOK, BranchTaken, Finishing, CountersBounded
<1>5. StepsBounded' /\ FailuresAlternate' /\ TerminalPending' /\ TerminalIsLast'
  <2>1. step \in Nat
    BY <1>1, BudgetsAssumption DEF TypeOK
  <2> QED
    BY <1>1, <1>3, <2>1 DEF StepsBounded, FailuresAlternate, TerminalPending, TerminalAt,
       TerminalIsLast, TerminalTypes
<1>6. \A T, s : "task_started" \notin T => EventsIn(log', T, s) = EventsIn(log, T, s)
  BY <1>1, StartedKeeps
<1>7. /\ EventsOf({"model_turn"}, step)' = EventsOf({"model_turn"}, step)
      /\ EventsOf(FeedbackTypes, step)' = EventsOf(FeedbackTypes, step)
      /\ EventsOf({"parse_error"}, step - 1)' = EventsOf({"parse_error"}, step - 1)
  BY <1>6 DEF EventsOf, FeedbackTypes
<1>8. CurrentTurn' /\ FailuresTracked'
  <2>1. Silent'
    BY <1>1, <1>7 DEF IInv, CurrentTurn, Silent, BeforeTurn
  <2>2. failures \in 0..1 /\ (failures = 1 <=> ParseErrorAt(step - 1))
    BY <1>1 DEF IInv, FailuresTracked, BeforeTurn
  <2>3. ParseErrorAt(step - 1)' <=> ParseErrorAt(step - 1)
    BY <1>7 DEF ParseErrorAt
  <2> QED
    BY <1>1, <2>1, <2>2, <2>3
       DEF CurrentTurn, FailuresTracked, BeforeTurn, AfterTurn, AfterFeedback
<1>9. ExactlyOneFeedback'
  <2>1. \A s : ~AnsweredIn(log, s)
    BY <1>1 DEF AnsweredIn
  <2>2. 0..(step' - 1) = 0..(step - 1) /\ \A s \in 0..(step - 1) : FALSE
    BY <2>1 DEF IInv, ExactlyOneFeedback
  <2> QED
    BY <2>2 DEF ExactlyOneFeedback
<1> QED
  BY <1>4, <1>5, <1>8, <1>9 DEF IInv

\* And its other invariants.
LEMMA StartedCounts ==
  ASSUME LoopInv, LoopPlaced, phase = "start", Emit("task_started", "none"),
         UNCHANGED <<graphVars, pc, step, attempt, reply, outcome, paths, counterVars,
                     result, turns, ran, elapsed>>
  PROVE  LedgerInv' /\ CountInv'
<1> USE DEF graphVars, counterVars
<1>1. TypeOK /\ pc = "begin"
  BY DEF LoopInv, IInv, LoopPlaced, BeforeLoop
<1>2. /\ \A T, s : "task_started" \notin T => EventsIn(log', T, s) = EventsIn(log, T, s)
      /\ \A T : "task_started" \notin T => Count(T)' = Count(T)
      /\ \A t : Happened(t)' <=> (Happened(t) \/ t = "task_started")
  BY <1>1, StartedKeeps
<1>3. LedgerInv'
  <2>1. EventsOf({"command_executed"}, step)' = EventsOf({"command_executed"}, step)
    BY <1>2 DEF EventsOf
  <2> QED
    BY <1>1, <1>2, <2>1
       DEF LoopInv, LedgerInv, EndPending, FinishLogged, NotExecuted, Finishing
<1>4. /\ Count({"command_executed"})' = Count({"command_executed"})
      /\ Count({"model_turn"})' = Count({"model_turn"})
      /\ Count({"error_raised"})' = Count({"error_raised"})
  BY <1>2
<1>5. CommandsTracked' /\ RecordsTracked'
  BY <1>1, <1>4 DEF LoopInv, CountInv, CommandsTracked, CommandsWrittenAhead,
     RecordsTracked, RecorderLag, BeforeTurn, AfterTurn, AfterFeedback
<1>6. RetriesTracked'
  <2>1. /\ \A s : EventsOf({"llm_retry"}, s)' = EventsOf({"llm_retry"}, s)
        /\ \A s : EventsOf({"model_turn"}, s)' = EventsOf({"model_turn"}, s)
        /\ EventsOf({"llm_retry"}, step)' = EventsOf({"llm_retry"}, step)
    BY <1>2 DEF EventsOf
  <2> QED
    BY <1>1, <2>1 DEF LoopInv, CountInv, RetriesTracked, RetriesBounded
<1>7. TotalsTracked' /\ ResultMatchesLog'
  BY <1>1, <1>4 DEF LoopInv, CountInv, TotalsTracked, Complaining, Owed, Unparsed, Final,
     ResultMatchesLog
<1> QED
  BY <1>3, <1>5, <1>6, <1>7 DEF CountInv

\* Every step of the trial keeps the loop's invariants.
LEMMA LoopInvStep == FullInv /\ [TrialNext]_trialVars => LoopInv'
<1> SUFFICES ASSUME FullInv, [TrialNext]_trialVars PROVE LoopInv'
  OBVIOUS
<1>1. ASSUME [Next]_loopVars PROVE LoopInv'
  BY <1>1, NextIInv, NextLedgerInv, NextCounts DEF FullInv, LoopInv
<1>2. CASE Around \/ UNCHANGED trialVars
  BY <1>1, <1>2, AroundStep DEF trialVars
<1>3. CASE TaskStarted
  <2>1. UNCHANGED log => UNCHANGED loopVars
    BY <1>3 DEF TaskStarted, loopVars
  <2>2. CASE UNCHANGED log
    BY <1>1, <2>1, <2>2
  <2>3. CASE ~UNCHANGED log
    BY <1>3, <2>3, StartedIInv, StartedCounts DEF TaskStarted, FullInv, LoopInv,
       TrialInvariant
  <2> QED
    BY <2>2, <2>3
<1>4. CASE LoopStep
  BY <1>1, <1>4 DEF Next
<1> QED
  BY <1>2, <1>3, <1>4, TrialStep

-----------------------------------------------------------------------------
(* Where the loop stands *)

\* A loop that returns says how, and what it was billed.
LEMMA ReturnStep ==
  ASSUME LoopStep, pc' = "returned"
  PROVE  result'.reason \in TerminalTypes /\ result'.tokens = tokens'
<1>1. BudgetExhausted \/ RecordTurn
  BY BranchType DEF LoopStep, Proceed, AddTask, BuildContext, CallFails, Backoff,
     CallRejected, CallAnswered, FatalError, FatalErrorObject, ModelTurn, AddStep,
     ParseFailed, ParseErrorObject, TaskFinished, IdleTurn, AddCommand, AddFile,
     StartCommand, CommandEnds, CommandExecuted, OutputObserved, AddObservation,
     CommandFailed, CommandErrorObject, RecordRaises, StoreFails, Cancel, Goto, Writing,
     Awaiting
<1> QED
  BY <1>1 DEF BudgetExhausted, RecordTurn, Return, Goto, TerminalTypes, counterVars

\* Every step keeps the phases of run() and the places of the loop together.
LEMMA PlacedStep == FullInv /\ [TrialNext]_trialVars => LoopPlaced'
<1> SUFFICES ASSUME FullInv, [TrialNext]_trialVars PROVE LoopPlaced'
  OBVIOUS
<1>a. LoopPlaced
  BY DEF FullInv, TrialInvariant
<1> USE DEF LoopPlaced, BeforeLoop, Exporting
<1>1. CASE Around
  <2>1. UNCHANGED <<log, pc, result, tokens>>
    BY <1>1, AroundStep, LoopFrozen
  <2> QED
    BY <1>a, <1>1, <2>1 DEF Around, RefuseTrial, OpenLog, BuildClient, LoopEnds, ExportLog,
       ExportFails, WriteSummary, SummaryFails, CloseLog, Finish, Kill, TrialOver,
       trialVars, agentVars, Final
<1>2. CASE TaskStarted
  BY <1>a, <1>2 DEF TaskStarted, counterVars
<1>3. CASE phase = "loop" /\ LoopStep /\ (InnerStep \/ TurnRecorded \/ TurnRecordFails)
  <2>1. UNCHANGED <<phase, loopEnd>>
    BY <1>3 DEF InnerStep, TurnRecorded, TurnRecordFails, agentVars
  <2> QED
    BY <1>a, <1>3, <2>1, ReturnStep
<1>4. CASE UNCHANGED trialVars
  <2>1. UNCHANGED <<log, pc, result, tokens, phase, loopEnd>>
    BY <1>4, LoopFrozen DEF trialVars, agentVars
  <2> QED
    BY <1>a, <2>1
<1> QED
  BY <1>1, <1>2, <1>3, <1>4, TrialStep

\* A rejected answer has no command.
LEMMA RejectedReply ==
  ASSUME NEW r \in Replies \cup {NoReply}, ~r.parsed
  PROVE  r.command = NoCommand
<1>1. CASE r = NoReply
  BY <1>1 DEF NoReply
<1>2. CASE r \in [parsed : {TRUE}, command : Commands \cup {NoCommand},
                  done : BOOLEAN, tokens : Usage]
  BY <1>2
<1>3. CASE r \in [parsed : {FALSE}, command : {NoCommand}, done : {FALSE},
                  tokens : Usage]
  BY <1>3
<1> QED
  BY <1>1, <1>2, <1>3 DEF Replies

\* Every step keeps the command of the answer in hand with its branch.
LEMMA CommandStep == FullInv /\ [TrialNext]_trialVars => CommandInHand'
<1> SUFFICES ASSUME FullInv, [TrialNext]_trialVars PROVE CommandInHand'
  OBVIOUS
<1>a. CommandInHand /\ TypeOK /\ BranchTaken
  BY DEF FullInv, TrialInvariant, LoopInv, IInv
<1> USE DEF CommandInHand, Goto
<1>1. CASE UNCHANGED <<pc, reply>>
  BY <1>a, <1>1
<1>2. CASE AddStep
  <2>1. /\ reply.command \in Commands \cup {NoCommand}
        /\ ~reply.parsed => reply.command = NoCommand
    BY <1>a, ReplyType, RejectedReply DEF TypeOK
  <2>2. pc' = Branch /\ reply' = reply
    BY <1>2 DEF AddStep
  <2> QED
    BY <2>1, <2>2 DEF Branch, Finishing
<1>3. CASE LoopStep /\ ~AddStep
  BY <1>a, <1>3 DEF LoopStep, Proceed, AddTask, BudgetExhausted, BuildContext, CallFails,
     Backoff, CallRejected, CallAnswered, FatalError, FatalErrorObject, ModelTurn,
     ParseFailed, ParseErrorObject, TaskFinished, IdleTurn, AddCommand, AddFile,
     StartCommand, CommandEnds, CommandExecuted, OutputObserved, AddObservation,
     CommandFailed, CommandErrorObject, RecordTurn, RecordRaises, StoreFails, Cancel,
     BranchTaken
<1> QED
  BY <1>1, <1>2, <1>3, TrialStep, AroundStep, LoopFrozen DEF TaskStarted, trialVars

-----------------------------------------------------------------------------
(* The recorder *)

\* The statements of a turn whose command is logged and not yet recorded.
Logged == {"observe", "observation", "complain", "complainobj"}

\* A step of the loop that hands nothing over keeps the recorder as far behind
\* as the statement says.
LEMMA UnrecordedStep ==
  ASSUME FullInv, LoopStep, pc # "record", UNCHANGED recorder
  PROVE  /\ pc' \in Logged => Unrecorded' = 1
         /\ pc' = "record" => Unrecorded' = Count1(reply.command)'
         /\ pc' \in {"raised", "cancelled"} => Unrecorded' \in 0..1
         /\ pc' \notin Logged \cup {"record", "raised", "cancelled"} => Unrecorded' = 0
<1> DEFINE logged == Count({"command_executed"})
<1>a. /\ TypeOK /\ CommandInHand /\ logged \in Nat /\ recorder.commands \in Nat
  BY CountType DEF FullInv, LoopInv, TrialInvariant, TrialTypeOK, IInv
<1>b. /\ pc \in Logged => logged - recorder.commands = 1
      /\ pc \in {"raised", "cancelled"} => logged - recorder.commands \in 0..1
      /\ pc \notin Logged \cup {"raised", "cancelled"} => logged - recorder.commands = 0
  BY DEF FullInv, TrialInvariant, RecorderTracked, Unrecorded, Logged
<1>c. Unrecorded' = logged' - recorder.commands
  BY DEF Unrecorded
<1> USE DEF Logged
<1>1. CASE CommandExecuted
  <2>1. /\ pc = "executed" /\ pc' = "observe" /\ Emit("command_executed", outcome)
        /\ outcome \in Notes /\ "command_executed" \in EventTypes
    BY <1>1, <1>a DEF CommandExecuted, Goto, TypeOK, Notes, EventTypes
  <2>2. logged' = logged + 1
    BY <1>a, <2>1, EmitCount
  <2> HIDE DEF logged
  <2> QED
    BY <1>a, <1>b, <1>c, <2>1, <2>2
<1>2. CASE ~CommandExecuted
  <2>1. logged' = logged
    <3>1. CASE UNCHANGED log
      BY <3>1, QuietCount
    <3>2. CASE ~UNCHANGED log
      <4>1. \E type \in EventTypes \ {"command_executed"}, note \in Notes : Emit(type, note)
        BY <1>2, <1>a, <3>2, QuietStep DEF TypeOK, LoopStep, Proceed, Quiet,
           BudgetExhausted, BuildContext, CallFails, FatalError, ModelTurn, ParseFailed,
           TaskFinished, IdleTurn, OutputObserved, CommandFailed, RecordTurn, EventTypes,
           Notes, Outcomes
      <4> QED
        BY <1>a, <4>1, EmitCount
    <3> QED
      BY <3>1, <3>2
  <2>2. /\ \/ pc \in Logged /\ pc' \in Logged \cup {"record", "raised", "cancelled"}
           \/ pc \notin Logged /\ pc' \notin Logged
        /\ pc \notin {"raised", "cancelled"}
        /\ pc' = "record" => /\ UNCHANGED reply
                             /\ pc \in Logged => reply.command \in Commands
                             /\ pc \notin Logged => reply.command = NoCommand
    <3>1. CASE AddStep
      BY <3>1, BranchType DEF AddStep, Goto
    <3>2. CASE ~AddStep
      BY <1>2, <1>a, <3>2 DEF LoopStep, Proceed, AddTask, BudgetExhausted, BuildContext,
         CallFails, Backoff, CallRejected, CallAnswered, FatalError, FatalErrorObject,
         ModelTurn, ParseFailed, ParseErrorObject, TaskFinished, IdleTurn, AddCommand,
         AddFile, StartCommand, CommandEnds, OutputObserved, AddObservation, CommandFailed,
         CommandErrorObject, RecordTurn, RecordRaises, StoreFails, Cancel, Goto, Writing,
         Awaiting, CommandInHand
    <3> QED
      BY <3>1, <3>2
  <2>3. pc' = "record" => Count1(reply.command)' = IF pc \in Logged THEN 1 ELSE 0
    BY <2>2, CommandsAssumption DEF Count1
  <2> HIDE DEF logged
  <2> QED
    BY <1>a, <1>b, <1>c, <2>1, <2>2, <2>3
<1> QED
  BY <1>1, <1>2

\* A turn that is handed over is recorded.
LEMMA MirrorStep ==
  ASSUME FullInv, RecordTurn \/ RecordRaises, Mirror
  PROVE  RecorderTracked' /\ TokensLag'
<1> DEFINE logged == Count({"command_executed"})
           add    == Count1(reply.command)
<1>1. /\ TypeOK /\ pc = "record" /\ UNCHANGED <<log, reply, tokens>> /\ HandOver
      /\ pc' \in {"top", "returned", "raised"}
  BY DEF FullInv, LoopInv, IInv, RecordTurn, RecordRaises, Goto, counterVars
<1>2. /\ recorder.turns \in Nat /\ recorder.commands \in Nat /\ recorder.tokens \in Nat
      /\ logged \in Nat /\ add \in Nat /\ reply.tokens \in Nat /\ tokens \in Nat
  BY <1>1, CountType, ReplyType
     DEF FullInv, TrialInvariant, TrialTypeOK, TypeOK, Count1
<1>3. /\ recorder.turns = Len(turns) /\ harbor = recorder.tokens
      /\ logged - recorder.commands = add
      /\ tokens = harbor + reply.tokens
  BY <1>1 DEF FullInv, TrialInvariant, RecorderTracked, Unrecorded, TokensLag, InTurn
<1>4. Len(turns') = Len(turns) + 1
  BY <1>1 DEF TypeOK, HandOver
<1>5. /\ recorder'.turns = recorder.turns + 1
      /\ recorder'.commands = recorder.commands + add
      /\ recorder'.tokens = recorder.tokens + reply.tokens
      /\ harbor' = recorder.tokens + reply.tokens
  BY DEF Mirror
<1>6. logged' = logged
  BY <1>1, QuietCount
<1> HIDE DEF logged, add
<1>7. recorder'.turns = Len(turns') /\ harbor' = recorder'.tokens
  BY <1>2, <1>3, <1>4, <1>5
<1>8. Unrecorded' = 0
  <2>1. Unrecorded' = logged' - recorder'.commands
    BY DEF Unrecorded, logged
  <2> QED
    BY <1>2, <1>3, <1>5, <1>6, <2>1
<1>9. RecorderTracked'
  BY <1>1, <1>7, <1>8 DEF RecorderTracked
<1>10. TokensLag'
  <2>1. tokens' = harbor'
    BY <1>1, <1>2, <1>3, <1>5
  <2> QED
    BY <1>1, <2>1 DEF TokensLag, InTurn, Writing
<1> QED
  BY <1>9, <1>10

\* The tokens of a step of the loop that hands nothing over.
LEMMA TokensStep ==
  ASSUME FullInv, LoopStep, pc # "record", UNCHANGED harbor
  PROVE  TokensLag'
<1>a. TypeOK /\ TokensLag
  BY DEF FullInv, LoopInv, IInv, TrialInvariant
<1> USE DEF TokensLag, InTurn, Writing
<1>1. CASE CallAnswered
  BY <1>1, <1>a DEF CallAnswered, Goto
<1>2. CASE AddStep
  <2>1. pc = "step" /\ pc' \in {"reject", "finish", "idle", "issue"} /\ UNCHANGED <<reply, tokens>>
    BY <1>2, BranchType DEF AddStep, Goto, counterVars
  <2> QED
    BY <1>a, <2>1
<1>3. CASE ~CallAnswered /\ ~AddStep
  <2>1. /\ UNCHANGED <<reply, tokens>>
        /\ \/ pc \in InTurn /\ pc' \in InTurn \cup {"raised", "cancelled"}
           \/ pc \notin InTurn /\ pc' \notin InTurn
        /\ pc \notin Final
    BY <1>3 DEF LoopStep, Proceed, AddTask, BudgetExhausted, BuildContext, CallFails,
       Backoff, CallRejected, FatalError, FatalErrorObject, ModelTurn, ParseFailed,
       ParseErrorObject, TaskFinished, IdleTurn, AddCommand, AddFile, StartCommand,
       CommandEnds, CommandExecuted, OutputObserved, AddObservation, CommandFailed,
       CommandErrorObject, RecordTurn, RecordRaises, StoreFails, Cancel, Goto, Awaiting,
       Final, counterVars
  <2> QED
    BY <1>a, <2>1 DEF Final
<1> QED
  BY <1>1, <1>2, <1>3

\* Every step keeps the recorder and Harbor's context in step with the loop.
LEMMA RecorderStep == FullInv /\ [TrialNext]_trialVars => RecorderTracked' /\ TokensLag'
<1> SUFFICES ASSUME FullInv, [TrialNext]_trialVars PROVE RecorderTracked' /\ TokensLag'
  OBVIOUS
<1>a. /\ TypeOK /\ RecorderTracked /\ TokensLag /\ LoopPlaced
  BY DEF FullInv, LoopInv, IInv, TrialInvariant
<1>1. CASE TurnRecorded \/ TurnRecordFails
  BY <1>1, MirrorStep DEF TurnRecorded, TurnRecordFails
<1>2. CASE InnerStep
  <2>1. LoopStep /\ pc # "record" /\ UNCHANGED <<recorder, harbor>>
    BY <1>2 DEF InnerStep, agentVars
  <2>2. UNCHANGED turns
    BY <2>1, BranchType DEF LoopStep, Proceed, AddTask, BudgetExhausted, BuildContext,
       CallFails, Backoff, CallRejected, CallAnswered, FatalError, FatalErrorObject,
       ModelTurn, AddStep, ParseFailed, ParseErrorObject, TaskFinished, IdleTurn,
       AddCommand, AddFile, StartCommand, CommandEnds, CommandExecuted, OutputObserved,
       AddObservation, CommandFailed, CommandErrorObject, RecordTurn, RecordRaises,
       StoreFails, Cancel
  <2>3. TokensLag'
    BY <2>1, TokensStep
  <2>4. RecorderTracked'
    BY <1>a, <2>1, <2>2, UnrecordedStep DEF RecorderTracked, Logged
  <2> QED
    BY <2>3, <2>4
<1>3. CASE TaskStarted
  <2>1. /\ UNCHANGED <<pc, reply, tokens, turns, recorder, harbor>>
        /\ Emit("task_started", "none") \/ UNCHANGED log
    BY <1>3 DEF TaskStarted, counterVars
  <2>2. Count({"command_executed"})' = Count({"command_executed"})
    BY <1>a, <2>1, StartedKeeps, QuietCount
  <2>3. Unrecorded' = Unrecorded
    BY <2>1, <2>2 DEF Unrecorded
  <2> QED
    BY <1>a, <2>1, <2>3 DEF RecorderTracked, TokensLag
<1>4. CASE Around \/ UNCHANGED trialVars
  <2>1. UNCHANGED loopVars /\ UNCHANGED <<recorder, harbor>>
    BY <1>4, AroundStep DEF Around, RefuseTrial, OpenLog, BuildClient, LoopEnds, ExportLog,
       ExportFails, WriteSummary, SummaryFails, CloseLog, Finish, Kill, TrialOver,
       trialVars, agentVars
  <2>2. UNCHANGED <<log, pc, reply, tokens, turns>>
    BY <2>1, LoopFrozen
  <2>3. Unrecorded' = Unrecorded
    BY <2>1, <2>2 DEF Unrecorded, Count
  <2> QED
    BY <1>a, <2>1, <2>2, <2>3 DEF RecorderTracked, TokensLag
<1> QED
  BY <1>1, <1>2, <1>3, <1>4, TrialStep

-----------------------------------------------------------------------------
(* The store and the artifacts *)

\* Every step keeps the store open exactly where run() has still to close it.
LEMMA StoreStep == FullInv /\ [TrialNext]_trialVars => StoreTracked'
<1> SUFFICES ASSUME FullInv, [TrialNext]_trialVars PROVE StoreTracked'
  OBVIOUS
<1>a. StoreTracked /\ LoopPlaced
  BY DEF FullInv, TrialInvariant
<1> USE DEF StoreTracked
<1>1. CASE Around
  <2>1. UNCHANGED log
    BY <1>1, AroundStep, LoopFrozen
  <2> QED
    BY <1>a, <1>1, <2>1 DEF LoopPlaced, Around, RefuseTrial, OpenLog, BuildClient, LoopEnds,
       ExportLog, ExportFails, WriteSummary, SummaryFails, CloseLog, Finish, Kill,
       TrialOver, trialVars, agentVars
<1>2. CASE TaskStarted
  BY <1>a, <1>2 DEF TaskStarted, LoopPlaced
<1>3. CASE InnerStep \/ TurnRecorded \/ TurnRecordFails
  BY <1>a, <1>3 DEF InnerStep, TurnRecorded, TurnRecordFails, agentVars
<1>4. CASE UNCHANGED trialVars
  <2>1. UNCHANGED <<log, phase, storeOpen>>
    BY <1>4, LoopFrozen DEF trialVars, agentVars
  <2> QED
    BY <1>a, <2>1
<1> QED
  BY <1>1, <1>2, <1>3, <1>4, TrialStep

\* A trial that ended has a reason to write down.
LEMMA ReasonType ==
  ASSUME LoopPlaced, loopEnd \in {"result", "exception", "cancelled"}
  PROVE  FinishReason \in TerminalTypes \cup {"fatal_error"} /\ FinishReason # "none"
  BY DEF LoopPlaced, FinishReason, TerminalTypes

\* Every step keeps what the artifacts say: nothing they were made from moves
\* once they are written.
LEMMA ArtifactsStep ==
  FullInv /\ [TrialNext]_trialVars => ArtifactsTracked' /\ ArtifactsComplete'
<1> SUFFICES ASSUME FullInv, [TrialNext]_trialVars
             PROVE  ArtifactsTracked' /\ ArtifactsComplete'
  OBVIOUS
<1>a. /\ ArtifactsTracked /\ ArtifactsComplete /\ LoopPlaced /\ StoreTracked
      /\ RecorderTracked
      /\ loopEnd \in {"none", "result", "exception", "cancelled"}
      /\ broken \subseteq Artifacts
  BY DEF FullInv, TrialInvariant, TrialTypeOK
<1>b. phase \notin {"over"} => metadata = NoMetadata
  BY <1>a DEF ArtifactsTracked
<1>c. phase \notin {"close", "finish", "over", "killed"} => summary = NoSummary
  BY <1>a DEF ArtifactsTracked
<1>d. SUFFICES
        /\ summary' # NoSummary =>
             /\ phase' \in {"close", "finish", "over", "killed"} /\ loopEnd' # "none"
             /\ summary' = TheSummary'
        /\ phase' \in {"close", "finish"} => summary' # NoSummary
        /\ phase' \in {"summary", "close", "finish"} => exported' = Len(log')
        /\ phase' = "abandon" => broken' # {}
        /\ metadata' # NoMetadata =>
             /\ phase' = "over"
             /\ metadata'.finish = summary'.finish /\ metadata'.fatal = summary'.fatal
        /\ phase' = "over" /\ log' # <<>> /\ broken' = {} =>
             /\ exported' = Len(log')
             /\ summary'.finish # "none"
             /\ trajectory' = 1 + Len(turns')
  BY DEF ArtifactsTracked, ArtifactsComplete, Started
<1>1. CASE InnerStep \/ TurnRecorded \/ TurnRecordFails
  <2>1. phase = "loop" /\ UNCHANGED <<phase, summary, metadata>>
    BY <1>1 DEF InnerStep, TurnRecorded, TurnRecordFails, agentVars
  <2> QED
    BY <1>b, <1>c, <2>1
<1>2. CASE TaskStarted
  <2>1. /\ phase = "start" /\ UNCHANGED <<summary, metadata>> /\ phase' \in {"client", "over"}
        /\ phase' = "over" => log' = <<>>
    BY <1>a, <1>2 DEF TaskStarted, LoopPlaced
  <2> QED
    BY <1>b, <1>c, <2>1
<1>3. CASE Around \/ UNCHANGED trialVars
  <2>1. UNCHANGED loopVars /\ UNCHANGED <<log, result, turns>>
    BY <1>3, AroundStep, LoopFrozen DEF trialVars
  <2>2. UNCHANGED <<loopEnd, recorder>> => TheSummary' = TheSummary
    BY <2>1 DEF TheSummary, FinishReason, HasFatal, Count
  <2>3. CASE RefuseTrial \/ OpenLog \/ BuildClient \/ LoopEnds
    <3>1. /\ phase \in {"open", "client", "loop"} /\ UNCHANGED <<summary, metadata>>
          /\ phase' \in {"over", "start", "loop", "export"}
          /\ phase' = "over" => phase = "open"
      BY <2>3 DEF RefuseTrial, OpenLog, BuildClient, LoopEnds
    <3> QED
      BY <1>a, <1>b, <1>c, <2>1, <3>1 DEF LoopPlaced
  <2>4. CASE ExportLog \/ ExportFails \/ SummaryFails
    <3>1. /\ phase \in {"export", "summary"} /\ UNCHANGED <<summary, metadata>>
          /\ \/ phase' = "summary" /\ exported' = Len(log)
             \/ phase' = "abandon" /\ broken' # {}
      BY <2>4 DEF ExportLog, ExportFails, SummaryFails
    <3> QED
      BY <1>b, <1>c, <2>1, <3>1
  <2>5. CASE WriteSummary
    <3>1. /\ phase = "summary" /\ phase' = "close" /\ summary' = TheSummary
          /\ UNCHANGED <<loopEnd, recorder, exported, metadata>>
      BY <2>5 DEF WriteSummary, TheSummary
    <3>2. loopEnd # "none"
      BY <1>a, <3>1 DEF LoopPlaced, Exporting
    <3>3. summary'.finish # "none"
      <4>1. summary'.finish = FinishReason
        BY <3>1 DEF TheSummary
      <4> QED
        BY <1>a, <3>2, <4>1, ReasonType
    <3>4. summary' # NoSummary
      BY <3>3 DEF NoSummary
    <3>5. exported = Len(log)
      BY <1>a, <3>1 DEF ArtifactsTracked
    <3> QED
      BY <1>b, <2>1, <2>2, <3>1, <3>2, <3>4, <3>5
  <2>6. CASE CloseLog
    <3>1. /\ \/ phase = "close" /\ phase' = "finish"
             \/ phase = "abandon" /\ phase' = "over"
          /\ UNCHANGED <<loopEnd, recorder, exported, summary, metadata, broken>>
      BY <2>6 DEF CloseLog
    <3>2. /\ summary # NoSummary => loopEnd # "none" /\ summary = TheSummary
          /\ phase = "close" => summary # NoSummary /\ exported = Len(log)
          /\ phase = "abandon" => broken # {}
      BY <1>a DEF ArtifactsTracked
    <3> QED
      BY <1>b, <2>1, <2>2, <3>1, <3>2
  <2>7. CASE Finish
    <3>1. /\ phase = "finish" /\ phase' = "over"
          /\ UNCHANGED <<loopEnd, recorder, exported, summary>>
          /\ metadata'.finish = FinishReason /\ metadata'.fatal = HasFatal
          /\ broken' = {} => trajectory' = 1 + recorder.turns
      BY <2>7 DEF Finish
    <3>2. summary = TheSummary /\ loopEnd # "none" /\ exported = Len(log)
      BY <1>a, <3>1 DEF ArtifactsTracked
    <3>3. summary.finish = FinishReason /\ summary.fatal = HasFatal
      BY <3>2 DEF TheSummary
    <3>4. summary.finish # "none"
      BY <1>a, <3>2, <3>3, ReasonType
    <3>5. recorder.turns = Len(turns)
      BY <1>a DEF RecorderTracked
    <3> QED
      BY <2>1, <2>2, <3>1, <3>2, <3>3, <3>4, <3>5
  <2>8. CASE Kill
    <3>1. /\ phase \notin {"over", "killed"} /\ phase' = "killed"
          /\ UNCHANGED <<loopEnd, recorder, summary, metadata>>
      BY <2>8 DEF Kill
    <3>2. summary # NoSummary => loopEnd # "none" /\ summary = TheSummary
      BY <1>a DEF ArtifactsTracked
    <3> QED
      BY <1>b, <2>2, <3>1, <3>2
  <2>9. CASE UNCHANGED trialVars
    <3>1. UNCHANGED <<phase, loopEnd, recorder, exported, trajectory, summary, metadata,
                      broken>>
      BY <2>9 DEF trialVars, agentVars
    <3> QED
      BY <1>a, <2>1, <2>2, <3>1 DEF ArtifactsTracked, ArtifactsComplete, Started
  <2> QED
    BY <1>3, <2>3, <2>4, <2>5, <2>6, <2>7, <2>8, <2>9 DEF Around, TrialOver
<1> QED
  BY <1>1, <1>2, <1>3, TrialStep

-----------------------------------------------------------------------------
(* Types *)

\* Every step keeps the types of the trial's own variables.
LEMMA TrialTypeStep == FullInv /\ [TrialNext]_trialVars => TrialTypeOK'
<1> SUFFICES ASSUME FullInv, [TrialNext]_trialVars PROVE TrialTypeOK'
  OBVIOUS
<1>a. TypeOK' /\ TypeOK /\ TrialTypeOK /\ LoopPlaced /\ ArtifactsTracked'
  BY LoopInvStep, ArtifactsStep DEF FullInv, LoopInv, IInv, TrialInvariant
<1>b. log \in Seq(Events) /\ Len(log) \in Nat
  BY <1>a DEF TypeOK
<1>c. /\ recorder \in [turns : Nat, commands : Nat, tokens : Nat]
      /\ reply.tokens \in Nat /\ Count1(reply.command) \in Nat
  BY <1>a, ReplyType DEF TrialTypeOK, TypeOK, Count1
<1>1. CASE InnerStep \/ TaskStarted \/ UNCHANGED trialVars
  BY <1>a, <1>1 DEF InnerStep, TaskStarted, trialVars, agentVars, TrialTypeOK
<1>2. CASE TurnRecorded \/ TurnRecordFails
  <2>1. /\ UNCHANGED <<phase, loopEnd, exported, summary, metadata, storeOpen, broken>>
        /\ trajectory' \in {trajectory, Torn, 1 + recorder.turns + 1} /\ Mirror
    BY <1>2 DEF TurnRecorded, TurnRecordFails
  <2>2. recorder' \in [turns : Nat, commands : Nat, tokens : Nat] /\ harbor' \in Nat
    BY <1>c, <2>1 DEF Mirror
  <2>3. trajectory' \in Nat \cup {Absent, Torn}
    BY <1>a, <1>c, <2>1 DEF TrialTypeOK
  <2> QED
    BY <1>a, <2>1, <2>2, <2>3 DEF TrialTypeOK
<1>3. CASE Around
  <2>1. FinishReason \in Reasons
    BY <1>a DEF FinishReason, TypeOK, Reasons
  <2>2. CASE RefuseTrial \/ OpenLog \/ BuildClient \/ LoopEnds \/ CloseLog
    BY <1>a, <2>2 DEF TrialTypeOK, RefuseTrial, OpenLog, BuildClient, LoopEnds, CloseLog
  <2>3. CASE ExportLog \/ ExportFails \/ SummaryFails
    BY <1>a, <1>b, <2>3 DEF TrialTypeOK, ExportLog, ExportFails, SummaryFails, Artifacts
  <2>4. CASE WriteSummary
    <3>1. summary'.finish = FinishReason
      BY <2>4 DEF WriteSummary
    <3> QED
      BY <1>a, <2>1, <2>4, <3>1 DEF TrialTypeOK, WriteSummary
  <2>5. CASE Finish
    <3>1. /\ metadata'.finish = FinishReason /\ phase' = "over"
          /\ UNCHANGED <<loopEnd, recorder, harbor, exported, summary, storeOpen>>
          /\ trajectory' \in {trajectory, Torn, 1 + recorder.turns}
          /\ broken' \subseteq broken \cup {"trajectory"}
      BY <2>5 DEF Finish
    <3>2. trajectory' \in Nat \cup {Absent, Torn}
      BY <1>a, <1>c, <3>1 DEF TrialTypeOK
    <3> QED
      BY <1>a, <2>1, <3>1, <3>2 DEF TrialTypeOK, Artifacts
  <2>6. CASE Kill
    BY <1>a, <2>6 DEF TrialTypeOK, Kill
  <2>7. CASE TrialOver
    BY <1>a, <2>7 DEF TrialTypeOK, TrialOver, trialVars, agentVars
  <2> QED
    BY <1>3, <2>2, <2>3, <2>4, <2>5, <2>6, <2>7 DEF Around
<1> QED
  BY <1>1, <1>2, <1>3, TrialStep

-----------------------------------------------------------------------------
(* The theorems *)

\* A trial starts with nothing done and nothing written.
LEMMA InitTrial == TrialInit => FullInv
<1> SUFFICES ASSUME TrialInit PROVE FullInv
  OBVIOUS
<1>1. Init
  BY DEF TrialInit
<1>2. LoopInv
  BY <1>1, InitIInv, InitLedgerInv, InitCounts DEF LoopInv
<1>3. TypeOK
  BY <1>2 DEF LoopInv, IInv
<1>4. TrialTypeOK
  BY <1>3 DEF TrialInit, TrialTypeOK, NoSummary, NoMetadata, Reasons
<1>5. log = <<>> /\ pc = "begin" /\ tokens = 0 /\ turns = <<>>
  BY <1>1 DEF Init
<1>6. LoopPlaced /\ StoreTracked /\ CommandInHand /\ ArtifactsTracked /\ ArtifactsComplete
  BY <1>5 DEF TrialInit, LoopPlaced, BeforeLoop, Exporting, StoreTracked, CommandInHand,
     ArtifactsTracked, ArtifactsComplete
<1>7. RecorderTracked /\ TokensLag
  <2>1. {i \in DOMAIN log : log[i].type \in {"command_executed"}} = {}
    BY <1>5
  <2>2. Count({"command_executed"}) = 0
    BY <2>1, FS_EmptySet DEF Count
  <2> QED
    BY <1>5, <2>2 DEF TrialInit, RecorderTracked, Unrecorded, TokensLag, InTurn, Writing
<1> QED
  BY <1>2, <1>4, <1>6, <1>7 DEF FullInv, TrialInvariant

\* Every step of the trial preserves its invariant.
LEMMA NextTrial == FullInv /\ [TrialNext]_trialVars => FullInv'
  BY LoopInvStep, TrialTypeStep, PlacedStep, StoreStep, CommandStep, RecorderStep,
     ArtifactsStep DEF FullInv, TrialInvariant

\* No step of the trial but the loop's own takes time of its turns.
LEMMA TrialTime == FullInv /\ TimeTracked /\ [TrialNext]_trialVars => TimeTracked'
<1> SUFFICES ASSUME FullInv, TimeTracked, [TrialNext]_trialVars PROVE TimeTracked'
  OBVIOUS
<1>1. ASSUME [Next]_loopVars PROVE TimeTracked'
  BY <1>1, NextTime DEF FullInv, LoopInv
<1>2. CASE Around \/ UNCHANGED trialVars
  BY <1>1, <1>2, AroundStep DEF trialVars
<1>3. CASE TaskStarted
  BY <1>3 DEF TaskStarted, TimeTracked, RequestTime, OverrunBounded
<1>4. CASE LoopStep
  BY <1>1, <1>4 DEF Next
<1> QED
  BY <1>2, <1>3, <1>4, TrialStep

\* The invariant holds in every trial: whatever fails, is cancelled or killed.
THEOREM TrialInvariantHolds == TrialSpec => []FullInv
  BY InitTrial, NextTrial, PTL DEF TrialSpec

\* Every variable of a trial keeps its type.
THEOREM TrialTypeCorrect == TrialSpec => []TrialTypeOK
  BY TrialInvariantHolds, PTL DEF FullInv, TrialInvariant

\* A trial that started and is over has closed its store.
THEOREM StoreCorrect == TrialSpec => []StoreClosed
<1>1. FullInv => StoreClosed
  BY DEF FullInv, TrialInvariant, StoreTracked, StoreClosed, Started
<1> QED
  BY <1>1, TrialInvariantHolds, PTL

\* The tokens Harbor is shown are those billed, but for one answer at most.
THEOREM TokensCorrect == TrialSpec => []TokensLag
  BY TrialInvariantHolds, PTL DEF FullInv, TrialInvariant

\* Unless a write of an artifact raised, a trial that is over left all three of
\* them, and whole.
THEOREM ArtifactsCorrect == TrialSpec => []ArtifactsComplete
  BY TrialInvariantHolds, PTL DEF FullInv, TrialInvariant

\* The finish reason on disk is the end of the log, and the metadata repeats it.
THEOREM FinishReasonCorrect == TrialSpec => []FinishReasonHonest
<1>1. FullInv => FinishReasonHonest
  <2> SUFFICES ASSUME FullInv PROVE FinishReasonHonest
    OBVIOUS
  <2>a. /\ LoopPlaced /\ ArtifactsTracked /\ ResultMatchesLog
        /\ loopEnd \in {"none", "result", "exception", "cancelled"}
        /\ metadata # NoMetadata => metadata.finish = summary.finish
                                      /\ metadata.fatal = summary.fatal
    BY DEF FullInv, LoopInv, CountInv, TrialInvariant, TrialTypeOK, ArtifactsTracked
  <2>1. CASE summary = NoSummary
    <3>1. summary.finish = "none"
      BY <2>1 DEF NoSummary
    <3>2. CASE metadata = NoMetadata
      BY <3>1, <3>2 DEF FinishReasonHonest, TerminalTypes, NoMetadata
    <3>3. CASE metadata # NoMetadata
      BY <2>a, <3>1, <3>3 DEF FinishReasonHonest, TerminalTypes
    <3> QED
      BY <3>2, <3>3
  <2>2. CASE summary # NoSummary
    <3>1. summary.finish = FinishReason /\ summary.fatal = HasFatal /\ loopEnd # "none"
      BY <2>a, <2>2 DEF ArtifactsTracked, TheSummary
    <3>2. summary.finish \in TerminalTypes => log[Len(log)].type = summary.finish
      <4>1. summary.finish \in TerminalTypes => loopEnd = "result"
        BY <3>1 DEF FinishReason, TerminalTypes
      <4> QED
        BY <2>a, <3>1, <4>1 DEF LoopPlaced, ResultMatchesLog, FinishReason
    <3>3. summary.finish = "fatal_error" /\ ~summary.fatal => pc = "cancelled"
      BY <2>a, <3>1 DEF LoopPlaced, FinishReason, HasFatal, TerminalTypes
    <3>4. metadata.finish # "none" => metadata # NoMetadata
      BY DEF NoMetadata
    <3> QED
      BY <2>a, <3>2, <3>3, <3>4 DEF FinishReasonHonest
  <2> QED
    BY <2>1, <2>2
<1> QED
  BY <1>1, TrialInvariantHolds, PTL

\* The summary agrees with the log it lies next to.
THEOREM SummaryCorrect == TrialSpec => []SummaryAgrees
<1>1. FullInv => SummaryAgrees
  <2> SUFFICES ASSUME FullInv PROVE SummaryAgrees
    OBVIOUS
  <2>1. CASE summary = NoSummary
    BY <2>1 DEF SummaryAgrees, NoSummary
  <2>2. CASE summary # NoSummary
    <3>1. /\ summary = TheSummary /\ loopEnd # "none" /\ LoopPlaced /\ RecorderTracked
          /\ TokensLag /\ RecordsTracked
      BY <2>2 DEF FullInv, LoopInv, CountInv, TrialInvariant, ArtifactsTracked
    <3>2. /\ summary.modelTurns = Count({"model_turn"})
          /\ summary.executed = Count({"command_executed"})
          /\ summary.steps = Len(turns) /\ summary.commands = recorder.commands
          /\ summary.tokens = harbor /\ summary.finish = FinishReason
          /\ summary.errors = IF loopEnd = "result" THEN result.nErrors ELSE Absent
      BY <3>1 DEF TheSummary, RecorderTracked
    <3>3. /\ Count({"model_turn"}) \in Nat /\ Count({"command_executed"}) \in Nat
          /\ Len(turns) \in Nat /\ recorder.commands \in Nat
      BY CountType
         DEF FullInv, LoopInv, IInv, TypeOK, TrialInvariant, TrialTypeOK
    <3>4. Count({"model_turn"}) - Len(turns) \in 0..1
      BY <3>1 DEF RecordsTracked, RecorderLag
    <3>5. pc \in {"begin", "raised", "cancelled", "returned"}
      BY <3>1 DEF LoopPlaced, FullInv, TrialInvariant, TrialTypeOK
    <3>6. Unrecorded \in 0..1 /\ (pc = "returned" => Unrecorded = 0)
      BY <3>1, <3>5 DEF RecorderTracked
    <3>7. ASSUME summary.finish # "fatal_error"
          PROVE  /\ Count({"model_turn"}) = Len(turns)
                 /\ recorder.commands = Count({"command_executed"})
                 /\ harbor = result.tokens /\ loopEnd = "result"
      <4>1. loopEnd = "result" /\ pc = "returned"
        BY <3>1, <3>2, <3>7 DEF FinishReason, LoopPlaced
      <4>2. Count({"model_turn"}) = Len(turns)
        BY <3>1, <4>1 DEF RecordsTracked
      <4>3. recorder.commands = Count({"command_executed"})
        BY <3>3, <3>6, <4>1 DEF Unrecorded
      <4>4. harbor = result.tokens
        BY <3>1, <4>1 DEF TokensLag, LoopPlaced, InTurn, Writing
      <4> QED
        BY <4>1, <4>2, <4>3, <4>4
    <3> QED
      BY <3>2, <3>4, <3>6, <3>7 DEF SummaryAgrees, Unrecorded
  <2> QED
    BY <2>1, <2>2
<1> QED
  BY <1>1, TrialInvariantHolds, PTL

\* The soft budget is overrun by one whole turn at most, in every trial.
THEOREM OverrunCorrect == TrialSpec => []OverrunBounded
<1>1. FullInv /\ TimeTracked => OverrunBounded
  BY TimeBounded DEF FullInv, LoopInv, IInv
<1>2. TrialInit => TimeTracked
  BY InitTime DEF TrialInit
<1> QED
  BY <1>1, <1>2, InitTrial, NextTrial, TrialTime, PTL DEF TrialSpec
================================================================================
