---------------------------- MODULE ReactLoopGraph ----------------------------
(***************************************************************************)
(* TLAPS proofs that the typed graph tells the same as the log, for any    *)
(* budget, retry limit, command set and timing: the chain of steps, the    *)
(* command of a step, the observation of a command and the error of an     *)
(* observation, which the v2 prompt follows edge by edge.                  *)
(***************************************************************************)
EXTENDS ReactLoopCounts

-----------------------------------------------------------------------------
(* Steps and commands *)

\* The steps that add no step object and leave the turn number alone.
LEMMA StepObjsKept ==
  ASSUME LoopStep, ~AddStep, ~RecordTurn
  PROVE  /\ UNCHANGED <<stepObjs, previousStep, step>>
         /\ \/ pc \in BeforeTurn /\ pc' \in BeforeTurn \cup Final
            \/ pc = "turn" /\ pc' = "step"
            \/ /\ pc \in (AfterTurn \ {"step"}) \cup AfterFeedback \cup {"record"}
               /\ pc' \in (AfterTurn \ {"step"}) \cup AfterFeedback \cup {"record"} \cup Final
            \/ pc' \in Final
  BY DEF LoopStep, Proceed, AddTask, BudgetExhausted, BuildContext, CallFails, Backoff,
     CallRejected, CallAnswered, FatalError, FatalErrorObject, ModelTurn, ParseFailed,
     ParseErrorObject, TaskFinished, IdleTurn, AddCommand, AddFile, StartCommand,
     CommandEnds, CommandExecuted, OutputObserved, AddObservation, CommandFailed,
     CommandErrorObject, RecordRaises, StoreFails, Cancel, Goto, Final, Writing,
     BeforeTurn, AfterTurn, AfterFeedback, graphVars, counterVars

\* Every step keeps the step objects one chain.
LEMMA ChainStep == IInv /\ StepsChained /\ LoopStep => StepsChained'
<1> SUFFICES ASSUME IInv, StepsChained, LoopStep PROVE StepsChained'
  OBVIOUS
<1> DEFINE Rest == (AfterTurn \ {"step"}) \cup AfterFeedback \cup {"record"}
<1>a. /\ stepObjs \in Seq([index : Nat, follows : Nat]) /\ step \in Nat
  BY BudgetsAssumption DEF IInv, TypeOK
<1>b. /\ \A k \in DOMAIN stepObjs : stepObjs[k] = [index |-> k - 1, follows |-> k - 1]
      /\ previousStep = Len(stepObjs)
      /\ pc \in BeforeTurn \cup {"step"} => Len(stepObjs) = step
      /\ pc \in Rest => Len(stepObjs) = step + 1
  BY DEF StepsChained
<1>1. CASE AddStep
  <2>1. /\ pc = "step" /\ pc' \in {"reject", "finish", "idle", "issue"} /\ step' = step
        /\ stepObjs' = Append(stepObjs, [index |-> step, follows |-> previousStep])
        /\ previousStep' = Len(stepObjs) + 1
    BY <1>1, BranchType DEF AddStep, Goto
  <2>2. /\ DOMAIN stepObjs' = DOMAIN stepObjs \cup {Len(stepObjs) + 1}
        /\ \A k \in DOMAIN stepObjs : stepObjs'[k] = stepObjs[k]
        /\ stepObjs'[Len(stepObjs) + 1] = [index |-> step, follows |-> previousStep]
        /\ Len(stepObjs') = Len(stepObjs) + 1
    BY <1>a, <2>1
  <2>3. Len(stepObjs) = step /\ previousStep = step /\ step = (step + 1) - 1
    BY <1>a, <1>b, <2>1
  <2>4. \A k \in DOMAIN stepObjs' : stepObjs'[k] = [index |-> k - 1, follows |-> k - 1]
    BY <1>b, <2>2, <2>3
  <2> QED
    BY <2>1, <2>2, <2>3, <2>4 DEF StepsChained, BeforeTurn, AfterTurn, AfterFeedback
<1>2. CASE RecordTurn
  <2>1. /\ pc = "record" /\ UNCHANGED <<stepObjs, previousStep>>
        /\ \/ pc' = "returned"
           \/ pc' = "top" /\ step' = step + 1
    BY <1>2 DEF RecordTurn, Goto, graphVars, counterVars
  <2> QED
    BY <1>b, <2>1 DEF StepsChained, BeforeTurn, AfterTurn, AfterFeedback
<1>3. CASE ~AddStep /\ ~RecordTurn
  <2>1. /\ UNCHANGED <<stepObjs, previousStep, step>>
        /\ \/ pc \in BeforeTurn /\ pc' \in BeforeTurn \cup Final
           \/ pc = "turn" /\ pc' = "step"
           \/ pc \in Rest /\ pc' \in Rest \cup Final
           \/ pc' \in Final
    BY <1>3, StepObjsKept
  <2> QED
    BY <1>b, <2>1 DEF StepsChained, BeforeTurn, AfterTurn, AfterFeedback, Final
<1> QED
  BY <1>1, <1>2, <1>3

\* Every step keeps the commands with the steps that issued them.
LEMMA IssueStep ==
  IInv /\ StepsChained /\ CommandsIssued /\ LoopStep => CommandsIssued'
<1> SUFFICES ASSUME IInv, StepsChained, CommandsIssued, LoopStep PROVE CommandsIssued'
  OBVIOUS
<1> DEFINE Issued == {"files", "exec", "executed", "observe", "observation"}
<1>a. /\ stepObjs \in Seq([index : Nat, follows : Nat]) /\ step \in Nat
      /\ commandObjs \in Seq([step : Nat, text : Commands])
  BY BudgetsAssumption DEF IInv, TypeOK
<1>b. /\ \A k \in DOMAIN commandObjs : commandObjs[k].step \in DOMAIN stepObjs
      /\ \A k, l \in DOMAIN commandObjs : commandObjs[k].step = commandObjs[l].step => k = l
      /\ pc = "issue" => \A k \in DOMAIN commandObjs : commandObjs[k].step # Len(stepObjs)
      /\ pc \in Issued => /\ commandObjs # <<>>
                          /\ commandObjs[Len(commandObjs)].step = Len(stepObjs)
  BY DEF CommandsIssued
<1>1. CASE AddStep
  <2>1. /\ pc' \notin Issued /\ UNCHANGED commandObjs
        /\ stepObjs' = Append(stepObjs, [index |-> step, follows |-> previousStep])
    BY <1>1, BranchType DEF AddStep, Goto
  <2>2. /\ DOMAIN stepObjs' = DOMAIN stepObjs \cup {Len(stepObjs) + 1}
        /\ Len(stepObjs') = Len(stepObjs) + 1 /\ Len(stepObjs) + 1 \notin DOMAIN stepObjs
    BY <1>a, <2>1
  <2> QED
    BY <1>b, <2>1, <2>2 DEF CommandsIssued
<1>2. CASE AddCommand
  <2>1. /\ pc = "issue" /\ pc' = "files" /\ UNCHANGED stepObjs
        /\ commandObjs' = Append(commandObjs, [step |-> previousStep, text |-> reply.command])
    BY <1>2 DEF AddCommand, Goto
  <2>2. /\ DOMAIN commandObjs' = DOMAIN commandObjs \cup {Len(commandObjs) + 1}
        /\ Len(commandObjs') = Len(commandObjs) + 1 /\ commandObjs' # <<>>
        /\ \A k \in DOMAIN commandObjs : commandObjs'[k] = commandObjs[k]
        /\ commandObjs'[Len(commandObjs) + 1].step = previousStep
    BY <1>a, <2>1
  <2>3. previousStep = Len(stepObjs) /\ Len(stepObjs) \in DOMAIN stepObjs
    <3>1. previousStep = Len(stepObjs) /\ Len(stepObjs) = step + 1
      BY <2>1 DEF StepsChained, AfterTurn
    <3> QED
      BY <1>a, <3>1
  <2> QED
    BY <1>b, <2>1, <2>2, <2>3 DEF CommandsIssued
<1>3. CASE ~AddStep /\ ~AddCommand
  <2>1. /\ UNCHANGED <<stepObjs, commandObjs>> /\ pc' # "issue"
        /\ pc' \in Issued => pc \in Issued
    BY <1>3 DEF LoopStep, Proceed, AddTask, BudgetExhausted, BuildContext, CallFails,
       Backoff, CallRejected, CallAnswered, FatalError, FatalErrorObject, ModelTurn,
       ParseFailed, ParseErrorObject, TaskFinished, IdleTurn, AddFile, StartCommand,
       CommandEnds, CommandExecuted, OutputObserved, AddObservation, CommandFailed,
       CommandErrorObject, RecordTurn, RecordRaises, StoreFails, Cancel, Goto, graphVars
  <2> QED
    BY <1>b, <2>1 DEF CommandsIssued
<1> QED
  BY <1>1, <1>2, <1>3

-----------------------------------------------------------------------------
(* Observations *)

\* The log, the steps and the commands only grow.
LEMMA GraphGrows ==
  ASSUME TypeOK, LoopStep
  PROVE  /\ DOMAIN log \subseteq DOMAIN log'
         /\ \A i \in DOMAIN log : log'[i] = log[i]
         /\ DOMAIN commandObjs \subseteq DOMAIN commandObjs'
         /\ \A k \in DOMAIN commandObjs : commandObjs'[k] = commandObjs[k]
         /\ \A k \in DOMAIN stepObjs : stepObjs'[k] = stepObjs[k]
<1>1. DOMAIN log \subseteq DOMAIN log' /\ \A i \in DOMAIN log : log'[i] = log[i]
  <2>1. CASE UNCHANGED log
    BY <2>1
  <2>2. CASE ~UNCHANGED log
    <3>1. PICK type \in EventTypes, note \in Notes : Emit(type, note)
      BY <2>2, LogStep, QuietStep DEF RecordTurn
    <3>2. /\ log \in Seq(Events) /\ log' \in Seq(Events) /\ Len(log') = Len(log) + 1
          /\ \A i \in 1..Len(log) : log'[i] = log[i]
      BY <3>1, EmitEvents
    <3> QED
      BY <3>2
  <2> QED
    BY <2>1, <2>2
<1>2. /\ stepObjs \in Seq([index : Nat, follows : Nat])
      /\ commandObjs \in Seq([step : Nat, text : Commands])
  BY DEF TypeOK
<1>3. CASE AddStep
  BY <1>1, <1>2, <1>3 DEF AddStep
<1>4. CASE AddCommand
  BY <1>1, <1>2, <1>4 DEF AddCommand
<1>5. CASE ~AddStep /\ ~AddCommand
  <2>1. UNCHANGED <<stepObjs, commandObjs>>
    BY <1>5 DEF LoopStep, Proceed, AddTask, BudgetExhausted, BuildContext, CallFails,
       Backoff, CallRejected, CallAnswered, FatalError, FatalErrorObject, ModelTurn,
       ParseFailed, ParseErrorObject, TaskFinished, IdleTurn, AddFile, StartCommand,
       CommandEnds, CommandExecuted, OutputObserved, AddObservation, CommandFailed,
       CommandErrorObject, RecordTurn, RecordRaises, StoreFails, Cancel, graphVars
  <2> QED
    BY <1>1, <2>1
<1> QED
  BY <1>3, <1>4, <1>5

\* An observation stays told while the log and the graph grow.
LEMMA ToldKept ==
  ASSUME TypeOK, CommandsIssued, LoopStep,
         NEW o, o.command \in DOMAIN commandObjs, ToldOf(o)
  PROVE  o.command \in DOMAIN commandObjs'
         /\ \E i \in EventsIn(log', {"output_observed"},
                              stepObjs'[commandObjs'[o.command].step].index) :
              log'[i].note = o.outcome
<1> DEFINE s == stepObjs[commandObjs[o.command].step].index
<1>1. /\ commandObjs'[o.command] = commandObjs[o.command]
      /\ o.command \in DOMAIN commandObjs'
      /\ commandObjs[o.command].step \in DOMAIN stepObjs
  BY GraphGrows DEF CommandsIssued
<1>2. stepObjs'[commandObjs'[o.command].step].index = s
  BY <1>1, GraphGrows
<1>3. PICK i \in EventsIn(log, {"output_observed"}, s) : log[i].note = o.outcome
  BY DEF ToldOf, EventsOf
<1> HIDE DEF s
<1>4. i \in EventsIn(log', {"output_observed"}, s) /\ log'[i].note = o.outcome
  BY <1>3, GraphGrows DEF EventsIn
<1> QED
  BY <1>1, <1>2, <1>4

\* Every step keeps what the observations say.
LEMMA ObservationStep ==
  IInv /\ StepsChained /\ CommandsIssued /\ ObservationsTold /\ LoopStep
    => ObservationsTold'
<1> SUFFICES ASSUME IInv, StepsChained, CommandsIssued, ObservationsTold, LoopStep
             PROVE  ObservationsTold'
  OBVIOUS
<1> DEFINE Told(o) == /\ o.command \in DOMAIN commandObjs'
                      /\ \E i \in EventsIn(log', {"output_observed"},
                                   stepObjs'[commandObjs'[o.command].step].index) :
                           log'[i].note = o.outcome
<1>a. /\ TypeOK /\ step \in Nat
      /\ observationObjs \in Seq([command : Nat, outcome : Outcomes])
      /\ commandObjs \in Seq([step : Nat, text : Commands])
      /\ stepObjs \in Seq([index : Nat, follows : Nat])
  BY BudgetsAssumption DEF IInv, TypeOK
<1>b. \A k \in DOMAIN observationObjs : Told(observationObjs[k])
  BY <1>a, ToldKept DEF ObservationsTold
<1>c. SUFFICES
        /\ \A k \in DOMAIN observationObjs' : Told(observationObjs'[k])
        /\ pc' = "observation" =>
             \E i \in EventsIn(log', {"output_observed"}, step') : log'[i].note = outcome'
  BY DEF ObservationsTold, ToldOf, EventsOf
<1> HIDE DEF Told
<1>1. CASE AddObservation
  <2>1. /\ pc = "observation" /\ pc' # "observation"
        /\ UNCHANGED <<log, stepObjs, commandObjs>>
        /\ observationObjs' =
             Append(observationObjs, [command |-> Len(commandObjs), outcome |-> outcome])
    BY <1>1 DEF AddObservation, Goto
  <2>2. /\ Len(commandObjs) \in DOMAIN commandObjs
        /\ commandObjs[Len(commandObjs)].step = Len(stepObjs)
    BY <1>a, <2>1 DEF CommandsIssued
  <2>3. Len(stepObjs) = step + 1 /\ stepObjs[step + 1].index = step
    <3>1. /\ Len(stepObjs) = step + 1
          /\ \A k \in DOMAIN stepObjs : stepObjs[k] = [index |-> k - 1, follows |-> k - 1]
      BY <2>1 DEF StepsChained, AfterFeedback
    <3>2. step + 1 \in DOMAIN stepObjs /\ (step + 1) - 1 = step
      BY <1>a, <3>1
    <3> QED
      BY <3>1, <3>2
  <2>4. \E i \in EventsIn(log, {"output_observed"}, step) : log[i].note = outcome
    BY <2>1 DEF ObservationsTold, EventsOf
  <2>5. Told([command |-> Len(commandObjs), outcome |-> outcome])
    BY <2>1, <2>2, <2>3, <2>4 DEF Told
  <2>6. /\ DOMAIN observationObjs' = DOMAIN observationObjs \cup {Len(observationObjs) + 1}
        /\ \A k \in DOMAIN observationObjs : observationObjs'[k] = observationObjs[k]
        /\ observationObjs'[Len(observationObjs) + 1] =
             [command |-> Len(commandObjs), outcome |-> outcome]
    <3>1. outcome \in Outcomes /\ Len(commandObjs) \in Nat
      BY <1>a DEF TypeOK
    <3> QED
      BY <1>a, <2>1, <3>1
  <2> QED
    BY <1>b, <2>1, <2>5, <2>6
<1>2. CASE OutputObserved
  <2>1. /\ UNCHANGED <<step, outcome, observationObjs>> /\ Emit("output_observed", outcome)
        /\ "output_observed" \in EventTypes /\ outcome \in Notes
    BY <1>2, <1>a DEF OutputObserved, graphVars, EventTypes, TypeOK, Notes
  <2>2. /\ EventsIn(log', {"output_observed"}, step) =
             EventsIn(log, {"output_observed"}, step) \cup {Len(log) + 1}
        /\ log'[Len(log) + 1] = [type |-> "output_observed", step |-> step, note |-> outcome]
    BY <1>a, <2>1, EmitEvents
  <2> QED
    BY <1>b, <2>1, <2>2
<1>3. CASE ~AddObservation /\ ~OutputObserved
  <2>1. UNCHANGED observationObjs /\ pc' # "observation"
    BY <1>3, BranchType DEF LoopStep, Proceed, AddTask, BudgetExhausted, BuildContext,
       CallFails, Backoff, CallRejected, CallAnswered, FatalError, FatalErrorObject,
       ModelTurn, AddStep, ParseFailed, ParseErrorObject, TaskFinished, IdleTurn,
       AddCommand, AddFile, StartCommand, CommandEnds, CommandExecuted, CommandFailed,
       CommandErrorObject, RecordTurn, RecordRaises, StoreFails, Cancel, Goto, graphVars
  <2> QED
    BY <1>b, <2>1
<1> QED
  BY <1>1, <1>2, <1>3

-----------------------------------------------------------------------------
(* Errors *)

\* ErrorsBlamed, in the words of ReactLoopInv.
BlameTold ==
    /\ Blamed \subseteq FailedObservations
    /\ Cardinality(Blamed) = Cardinality(CommandErrors)
    /\ FailedObservations \ Blamed \subseteq {Len(observationObjs)}
    /\ \A e \in CommandErrors :
         errorObjs[e].kind = "ExecError"
           <=> observationObjs[errorObjs[e].observation].outcome = "exec_error"
BlameDue ==
    /\ pc \notin {"complain", "complainobj", "raised", "cancelled"} =>
         FailedObservations = Blamed
    /\ pc \in {"complain", "complainobj"} =>
         /\ observationObjs # <<>> /\ outcome # "zero"
         /\ observationObjs[Len(observationObjs)].outcome = outcome
         /\ Len(observationObjs) \notin Blamed

LEMMA BlameStated == ErrorsBlamed <=> BlameTold /\ BlameDue
<1>1. ErrorChains <=> /\ BlameTold
                      /\ pc \in {"record", "top", "returned"} => FailedObservations = Blamed
  BY DEF ErrorChains, BlameTold, Blamed, CommandErrors, FailedObservations
<1> HIDE DEF BlameTold
<1> QED
  BY <1>1 DEF ErrorsBlamed, BlameDue

LEMMA BlameStatedNext == ErrorsBlamed' <=> BlameTold' /\ BlameDue'
  BY BlameStated, PTL

\* The linked errors and the observations they are linked to are finitely many.
LEMMA BlameFinite ==
  ASSUME TypeOK, BlameTold
  PROVE  /\ IsFiniteSet(CommandErrors) /\ IsFiniteSet(Blamed)
         /\ FailedObservations \subseteq 1..Len(observationObjs)
         /\ CommandErrors \subseteq 1..Len(errorObjs)
<1>1. /\ CommandErrors \subseteq 1..Len(errorObjs)
      /\ FailedObservations \subseteq 1..Len(observationObjs)
      /\ Len(errorObjs) \in Nat /\ Len(observationObjs) \in Nat
  <2>1. /\ observationObjs \in Seq([command : Nat, outcome : Outcomes])
        /\ errorObjs \in Seq([kind : {"LLMError", "ParseError", "ExecError", "NonZeroExit"},
                              observation : Nat])
    BY DEF TypeOK
  <2> QED
    BY <2>1 DEF CommandErrors, FailedObservations
<1>2. IsFiniteSet(1..Len(errorObjs)) /\ IsFiniteSet(1..Len(observationObjs))
  BY <1>1, FS_Interval
<1>3. Blamed \subseteq 1..Len(observationObjs)
  BY <1>1 DEF BlameTold
<1> QED
  BY <1>1, <1>2, <1>3, FS_Subset

\* What a further error object does to the linked ones.
LEMMA ErrorAppended ==
  ASSUME TypeOK,
         NEW kind \in {"LLMError", "ParseError", "ExecError", "NonZeroExit"}, NEW o \in Nat,
         errorObjs' = Append(errorObjs, [kind |-> kind, observation |-> o])
  PROVE  /\ \A e \in 1..Len(errorObjs) : errorObjs'[e] = errorObjs[e]
         /\ errorObjs'[Len(errorObjs) + 1] = [kind |-> kind, observation |-> o]
         /\ o = 0 => CommandErrors' = CommandErrors /\ Blamed' = Blamed
         /\ o # 0 => /\ CommandErrors' = CommandErrors \cup {Len(errorObjs) + 1}
                     /\ Blamed' = Blamed \cup {o}
<1>1. errorObjs \in Seq([kind : {"LLMError", "ParseError", "ExecError", "NonZeroExit"},
                         observation : Nat])
  BY DEF TypeOK
<1>2. /\ \A e \in 1..Len(errorObjs) : errorObjs'[e] = errorObjs[e]
      /\ errorObjs'[Len(errorObjs) + 1] = [kind |-> kind, observation |-> o]
      /\ DOMAIN errorObjs = 1..Len(errorObjs)
      /\ DOMAIN errorObjs' = 1..Len(errorObjs) \cup {Len(errorObjs) + 1}
  BY <1>1
<1>3. o = 0 => CommandErrors' = CommandErrors
  BY <1>2 DEF CommandErrors
<1>4. o # 0 => CommandErrors' = CommandErrors \cup {Len(errorObjs) + 1}
  BY <1>2 DEF CommandErrors
<1>5. \A e \in CommandErrors : errorObjs'[e] = errorObjs[e]
  BY <1>2 DEF CommandErrors
<1>6. o = 0 => Blamed' = Blamed
  BY <1>3, <1>5 DEF Blamed
<1>7. ASSUME o # 0 PROVE Blamed' = Blamed \cup {o}
  <2> DEFINE last == Len(errorObjs) + 1
  <2>1. errorObjs'[last].observation = o
    BY <1>2
  <2>2. CommandErrors' = CommandErrors \cup {last}
    BY <1>4, <1>7
  <2> HIDE DEF last
  <2>3. {errorObjs'[e].observation : e \in CommandErrors \cup {last}} =
          {errorObjs'[e].observation : e \in CommandErrors} \cup {o}
    BY <2>1
  <2>4. {errorObjs'[e].observation : e \in CommandErrors} = Blamed
    BY <1>5 DEF Blamed
  <2> QED
    BY <2>2, <2>3, <2>4 DEF Blamed
<1> QED
  BY <1>2, <1>3, <1>4, <1>6, <1>7

\* The steps that add no error and no observation hand the duty to blame on.
LEMMA NothingBlamed ==
  ASSUME LoopStep, ~AddObservation, ~CommandErrorObject
  PROVE  /\ UNCHANGED observationObjs
         /\ \/ UNCHANGED errorObjs
            \/ \E kind \in {"LLMError", "ParseError"} :
                 errorObjs' = Append(errorObjs, [kind |-> kind, observation |-> 0])
         /\ pc \in {"complain", "complainobj", "raised", "cancelled"} =>
              pc' \in {"complain", "complainobj", "raised", "cancelled"}
         /\ pc' \in {"complain", "complainobj"} =>
              pc \in {"complain", "complainobj"} /\ UNCHANGED outcome
  BY BranchType DEF LoopStep, Proceed, AddTask, BudgetExhausted, BuildContext, CallFails,
     Backoff, CallRejected, CallAnswered, FatalError, FatalErrorObject, ModelTurn, AddStep,
     ParseFailed, ParseErrorObject, TaskFinished, IdleTurn, AddCommand, AddFile,
     StartCommand, CommandEnds, CommandExecuted, OutputObserved, CommandFailed, RecordTurn,
     RecordRaises, StoreFails, Cancel, Goto, graphVars, Awaiting, Writing

\* Every step keeps the errors linked to the commands that failed.
LEMMA ErrorsStep == IInv /\ ErrorsBlamed /\ LoopStep => ErrorsBlamed'
<1> SUFFICES ASSUME IInv, BlameTold, BlameDue, LoopStep PROVE BlameTold' /\ BlameDue'
  BY BlameStated, BlameStatedNext
<1> DEFINE m == Len(observationObjs)
<1>a. /\ TypeOK /\ outcome \in Outcomes
      /\ observationObjs \in Seq([command : Nat, outcome : Outcomes])
      /\ m \in Nat /\ FailedObservations \subseteq 1..m
      /\ IsFiniteSet(CommandErrors) /\ IsFiniteSet(Blamed)
      /\ CommandErrors \subseteq 1..Len(errorObjs) /\ Len(errorObjs) \in Nat
  <2>1. TypeOK
    BY DEF IInv
  <2>2. /\ outcome \in Outcomes /\ Len(errorObjs) \in Nat
        /\ observationObjs \in Seq([command : Nat, outcome : Outcomes])
    BY <2>1 DEF TypeOK
  <2> QED
    BY <2>1, <2>2, BlameFinite
<1>b. /\ Blamed \subseteq FailedObservations
      /\ \A e \in CommandErrors : errorObjs[e].observation \in Blamed
  BY DEF BlameTold, Blamed
<1>1. CASE AddObservation
  <2>1. /\ pc = "observation" /\ UNCHANGED <<errorObjs, outcome>>
        /\ pc' = IF outcome = "zero" THEN "record" ELSE "complain"
        /\ observationObjs' =
             Append(observationObjs, [command |-> Len(commandObjs), outcome |-> outcome])
    BY <1>1 DEF AddObservation, Goto
  <2>2. /\ DOMAIN observationObjs' = 1..m \cup {m + 1} /\ DOMAIN observationObjs = 1..m
        /\ Len(observationObjs') = m + 1 /\ observationObjs' # <<>>
        /\ \A k \in 1..m : observationObjs'[k] = observationObjs[k]
        /\ observationObjs'[m + 1].outcome = outcome
    <3>1. Len(commandObjs) \in Nat
      BY <1>a DEF TypeOK
    <3> QED
      BY <1>a, <2>1, <3>1
  <2>3. CommandErrors' = CommandErrors /\ Blamed' = Blamed
    BY <2>1 DEF CommandErrors, Blamed
  <2>4. FailedObservations = Blamed
    BY <2>1 DEF BlameDue
  <2>5. /\ outcome = "zero" => FailedObservations' = FailedObservations
        /\ outcome # "zero" => FailedObservations' = FailedObservations \cup {m + 1}
    BY <2>2 DEF FailedObservations
  <2>6. m + 1 \notin Blamed
    BY <1>a, <1>b
  <2>7. \A e \in CommandErrors : /\ errorObjs'[e] = errorObjs[e]
                                 /\ observationObjs'[errorObjs[e].observation] =
                                      observationObjs[errorObjs[e].observation]
    BY <1>a, <1>b, <2>1, <2>2
  <2>8. BlameTold'
    BY <2>2, <2>3, <2>4, <2>5, <2>7 DEF BlameTold
  <2>9. BlameDue'
    BY <2>1, <2>2, <2>3, <2>4, <2>5, <2>6 DEF BlameDue
  <2> QED
    BY <2>8, <2>9
<1>2. CASE CommandErrorObject
  <2> DEFINE kind == IF outcome = "exec_error" THEN "ExecError" ELSE "NonZeroExit"
             last == Len(errorObjs) + 1
  <2>1. /\ pc = "complainobj" /\ pc' = "record" /\ UNCHANGED observationObjs
        /\ errorObjs' = Append(errorObjs, [kind |-> kind, observation |-> m])
        /\ kind \in {"LLMError", "ParseError", "ExecError", "NonZeroExit"}
    BY <1>2 DEF CommandErrorObject, Goto
  <2>2. /\ observationObjs # <<>> /\ outcome # "zero" /\ observationObjs[m].outcome = outcome
        /\ m \notin Blamed
    BY <2>1 DEF BlameDue
  <2>3. m \in 1..m /\ m # 0
    BY <1>a, <2>2
  <2>4. kind = "ExecError" <=> observationObjs[m].outcome = "exec_error"
    BY <2>2
  <2> HIDE DEF kind
  <2>5. /\ \A e \in 1..Len(errorObjs) : errorObjs'[e] = errorObjs[e]
        /\ errorObjs'[last] = [kind |-> kind, observation |-> m]
        /\ CommandErrors' = CommandErrors \cup {last}
        /\ Blamed' = Blamed \cup {m}
    BY <1>a, <2>1, <2>3, ErrorAppended
  <2>6. last \notin CommandErrors
    BY <1>a
  <2>7. Cardinality(Blamed') = Cardinality(CommandErrors')
    <3>1. /\ Cardinality(Blamed \cup {m}) = Cardinality(Blamed) + 1
          /\ Cardinality(CommandErrors \cup {last}) = Cardinality(CommandErrors) + 1
      BY <1>a, <2>2, <2>6, FS_AddElement
    <3> QED
      BY <2>5, <3>1 DEF BlameTold
  <2>8. FailedObservations' = FailedObservations /\ m \in FailedObservations
    <3>1. DOMAIN observationObjs = 1..m
      BY <1>a
    <3> QED
      BY <2>1, <2>2, <2>3, <3>1 DEF FailedObservations
  <2>9. FailedObservations' = Blamed'
    BY <1>b, <2>5, <2>8 DEF BlameTold
  <2>10. \A e \in CommandErrors' :
           errorObjs'[e].kind = "ExecError"
             <=> observationObjs'[errorObjs'[e].observation].outcome = "exec_error"
    <3>1. \A e \in CommandErrors : errorObjs'[e] = errorObjs[e]
      BY <1>a, <2>5
    <3>2. \A e \in CommandErrors :
            errorObjs'[e].kind = "ExecError"
              <=> observationObjs'[errorObjs'[e].observation].outcome = "exec_error"
      BY <2>1, <3>1 DEF BlameTold
    <3>3. errorObjs'[last].kind = "ExecError"
            <=> observationObjs'[errorObjs'[last].observation].outcome = "exec_error"
      BY <2>1, <2>4, <2>5
    <3> QED
      BY <2>5, <3>2, <3>3
  <2>11. BlameTold'
    BY <2>7, <2>9, <2>10 DEF BlameTold
  <2> QED
    BY <2>1, <2>9, <2>11 DEF BlameDue
<1>3. CASE ~AddObservation /\ ~CommandErrorObject
  <2>1. /\ UNCHANGED observationObjs
        /\ \/ UNCHANGED errorObjs
           \/ \E kind \in {"LLMError", "ParseError"} :
                errorObjs' = Append(errorObjs, [kind |-> kind, observation |-> 0])
        /\ pc \in {"complain", "complainobj", "raised", "cancelled"} =>
             pc' \in {"complain", "complainobj", "raised", "cancelled"}
        /\ pc' \in {"complain", "complainobj"} =>
             pc \in {"complain", "complainobj"} /\ UNCHANGED outcome
    BY <1>3, NothingBlamed
  <2>2. /\ CommandErrors' = CommandErrors /\ Blamed' = Blamed
        /\ \A e \in CommandErrors : errorObjs'[e] = errorObjs[e]
    <3>1. CASE UNCHANGED errorObjs
      BY <3>1 DEF CommandErrors, Blamed
    <3>2. CASE \E kind \in {"LLMError", "ParseError"} :
                 errorObjs' = Append(errorObjs, [kind |-> kind, observation |-> 0])
      <4>1. PICK kind \in {"LLMError", "ParseError", "ExecError", "NonZeroExit"} :
                   errorObjs' = Append(errorObjs, [kind |-> kind, observation |-> 0])
        BY <3>2
      <4> QED
        BY <1>a, <4>1, ErrorAppended
    <3> QED
      BY <2>1, <3>1, <3>2
  <2>3. FailedObservations' = FailedObservations
    BY <2>1 DEF FailedObservations
  <2>4. BlameTold'
    BY <2>1, <2>2, <2>3 DEF BlameTold
  <2> QED
    BY <2>1, <2>2, <2>3, <2>4 DEF BlameDue
<1> QED
  BY <1>1, <1>2, <1>3

-----------------------------------------------------------------------------
(* The theorems *)

LEMMA InitGraph == Init => GraphInv
<1> SUFFICES ASSUME Init PROVE GraphInv
  OBVIOUS
<1>1. /\ stepObjs = <<>> /\ commandObjs = <<>> /\ observationObjs = <<>> /\ errorObjs = <<>>
      /\ pc = "begin" /\ step = 0 /\ previousStep = 0
  BY DEF Init
<1>2. CommandErrors = {} /\ Blamed = {} /\ FailedObservations = {}
  BY <1>1 DEF CommandErrors, Blamed, FailedObservations
<1>3. BlameTold /\ BlameDue
  BY <1>1, <1>2 DEF BlameTold, BlameDue
<1>4. StepsChained
  BY <1>1 DEF StepsChained, AfterTurn, AfterFeedback
<1>5. CommandsIssued /\ ObservationsTold
  BY <1>1 DEF CommandsIssued, ObservationsTold
<1> QED
  BY <1>3, <1>4, <1>5, BlameStated DEF GraphInv

\* Every step keeps the graph.
LEMMA NextGraph == IInv /\ GraphInv /\ [Next]_loopVars => GraphInv'
<1> SUFFICES ASSUME IInv, GraphInv, [Next]_loopVars PROVE GraphInv'
  OBVIOUS
<1>1. CASE LoopStep
  BY <1>1, ChainStep, IssueStep, ObservationStep, ErrorsStep DEF GraphInv
<1>2. CASE UNCHANGED loopVars
  <2>1. UNCHANGED <<log, stepObjs, commandObjs, observationObjs, errorObjs, pc, step,
                    outcome, previousStep>>
    BY <1>2 DEF loopVars, graphVars, counterVars
  <2>2. StepsChained' /\ CommandsIssued'
    BY <2>1 DEF GraphInv, StepsChained, CommandsIssued
  <2>3. ObservationsTold'
    BY <2>1 DEF GraphInv, ObservationsTold, ToldOf, EventsOf
  <2>4. CommandErrors' = CommandErrors /\ Blamed' = Blamed
        /\ FailedObservations' = FailedObservations
    BY <2>1 DEF CommandErrors, Blamed, FailedObservations
  <2>5. BlameTold /\ BlameDue
    BY BlameStated DEF GraphInv
  <2>6. BlameTold' /\ BlameDue'
    BY <2>1, <2>4, <2>5 DEF BlameTold, BlameDue
  <2> QED
    BY <2>2, <2>3, <2>6, BlameStatedNext DEF GraphInv
<1> QED
  BY <1>1, <1>2 DEF Next, Terminated

\* The graph is linked up in every behaviour of the loop.
THEOREM GraphHolds == Spec => []GraphInv
  BY InitIInv, NextIInv, InitGraph, NextGraph, PTL DEF Spec

\* The typed graph says the same as the log: one chain of steps, one command per
\* step, and observations that some output_observed event of their turn tells.
THEOREM GraphCorrect == Spec => []GraphProjectsLog
<1>1. GraphInv => GraphProjectsLog
  BY DEF GraphInv, StepsChained, CommandsIssued, ObservationsTold, ToldOf,
     GraphProjectsLog
<1> QED
  BY <1>1, GraphHolds, PTL

\* The chain from an error to its step is whole: a failed command has one error,
\* that error is linked to its observation, and no other observation has one.
THEOREM ErrorsCorrect == Spec => []ErrorChains
  BY GraphHolds, PTL DEF GraphInv, ErrorsBlamed
=============================================================================
