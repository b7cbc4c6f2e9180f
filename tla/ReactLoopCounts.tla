---------------------------- MODULE ReactLoopCounts ----------------------------
(***************************************************************************)
(* TLAPS proofs of what ReactLoop counts: the commands run against those   *)
(* written and logged, the records handed over, the retries of a turn, and *)
(* the totals of the LoopResult, for any budget, retry limit, command set  *)
(* and timing.  Each is a cardinality, so the proofs rest on what one      *)
(* appended event does to the number of events of a type.                  *)
(***************************************************************************)
EXTENDS ReactLoopProofs, DataLemmas

-----------------------------------------------------------------------------
(* Counting events *)

\* The positions of a sequence are finitely many.
LEMMA PositionsFinite ==
  ASSUME NEW S, NEW s \in Seq(S), NEW P \in SUBSET DOMAIN s
  PROVE  IsFiniteSet(P) /\ Cardinality(P) \in Nat /\ Len(s) + 1 \notin P
<1>1. IsFiniteSet(DOMAIN s)
  <2>1. DOMAIN s = 1..Len(s) /\ Len(s) \in Nat
    OBVIOUS
  <2> QED
    BY <2>1, FS_Interval
<1>2. IsFiniteSet(P)
  BY <1>1, FS_Subset
<1> QED
  BY <1>2, FS_CardinalityType

\* Counts are natural numbers.
LEMMA CountType == ASSUME TypeOK, NEW T PROVE Count(T) \in Nat
<1>1. {i \in DOMAIN log : log[i].type \in T} \in SUBSET DOMAIN log /\ log \in Seq(Events)
  BY DEF TypeOK
<1> QED
  BY <1>1, PositionsFinite DEF Count

\* One more event adds one to the counts of its type, and to no other.
LEMMA EmitCount ==
  ASSUME TypeOK, NEW type \in EventTypes, NEW note \in Notes, Emit(type, note)
  PROVE  /\ \A T : type \in T => Count(T)' = Count(T) + 1
         /\ \A T : type \notin T => Count(T)' = Count(T)
<1>1. /\ log \in Seq(Events) /\ log' \in Seq(Events) /\ Len(log') = Len(log) + 1
      /\ \A i \in 1..Len(log) : log'[i] = log[i]
      /\ log'[Len(log) + 1] = [type |-> type, step |-> step, note |-> note]
  BY EmitEvents
<1>2. /\ DOMAIN log' = DOMAIN log \cup {Len(log) + 1}
      /\ \A i \in DOMAIN log : log'[i] = log[i]
      /\ log'[Len(log) + 1].type = type
  BY <1>1
<1> SUFFICES ASSUME NEW T
             PROVE  /\ type \in T => Count(T)' = Count(T) + 1
                    /\ type \notin T => Count(T)' = Count(T)
  OBVIOUS
<1> DEFINE old == {i \in DOMAIN log : log[i].type \in T}
           new == {i \in DOMAIN log' : log'[i].type \in T}
<1>3. /\ type \in T => new = old \cup {Len(log) + 1}
      /\ type \notin T => new = old
  BY <1>2
<1>4. Count(T) = Cardinality(old) /\ Count(T)' = Cardinality(new)
  BY DEF Count
<1>5. IsFiniteSet(old) /\ Len(log) + 1 \notin old
  BY <1>1, PositionsFinite
<1> HIDE DEF old, new
<1> QED
  BY <1>3, <1>4, <1>5, FS_AddElement

\* Without a new event no count moves.
LEMMA QuietCount == ASSUME UNCHANGED log PROVE \A T : Count(T)' = Count(T)
  BY DEF Count

-----------------------------------------------------------------------------
(* The commands: written, run, logged *)

\* What a step does with the commands if it neither writes, runs nor logs one.
LEMMA OtherCommands ==
  ASSUME IInv, LoopStep, ~AddCommand, ~StartCommand, ~CommandExecuted
  PROVE  /\ UNCHANGED <<commandObjs, ran, Count({"command_executed"})>>
         /\ pc' = "files" => pc = "files" /\ UNCHANGED reply
         /\ pc = "files" => pc' \in {"files", "raised"}
         /\ pc \in {"raised", "cancelled"} => FALSE
         /\ pc \in {"exec", "executed"} => pc' \in {"exec", "executed", "raised", "cancelled"}
         /\ pc' \in {"exec", "executed"} => pc \in {"exec", "executed"}
<1>1. UNCHANGED Count({"command_executed"})
  <2>1. CASE UNCHANGED log
    BY <2>1, QuietCount
  <2>2. CASE ~UNCHANGED log
    <3>1. \E type \in EventTypes \ {"command_executed"}, note \in Notes : Emit(type, note)
      BY <2>2, QuietStep DEF IInv, TypeOK, LoopStep, Proceed, Quiet, BudgetExhausted,
         BuildContext, CallFails, FatalError, ModelTurn, ParseFailed, TaskFinished,
         IdleTurn, OutputObserved, CommandFailed, RecordTurn, EventTypes, Notes, Outcomes
    <3> QED
      BY <3>1, EmitCount DEF IInv
  <2> QED
    BY <2>1, <2>2
<1>2. CASE AddStep
  BY <1>1, <1>2, BranchType DEF AddStep, Goto
<1>3. CASE ~AddStep
  BY <1>1, <1>3 DEF LoopStep, Proceed, AddTask, BudgetExhausted, BuildContext, CallFails,
     Backoff, CallRejected, CallAnswered, FatalError, FatalErrorObject, ModelTurn,
     ParseFailed, ParseErrorObject, TaskFinished, IdleTurn, AddFile, CommandEnds,
     OutputObserved, AddObservation, CommandFailed, CommandErrorObject, RecordTurn,
     RecordRaises, StoreFails, Cancel, Goto, Writing, Awaiting, graphVars, counterVars
<1> QED
  BY <1>2, <1>3

\* Every step keeps the commands run, written and logged in order.
LEMMA CommandsStep == IInv /\ CommandsTracked /\ LoopStep => CommandsTracked'
<1> SUFFICES ASSUME IInv, CommandsTracked, LoopStep PROVE CommandsTracked'
  OBVIOUS
<1> DEFINE CommandSeq == Seq([step : Nat, text : Commands])
<1> DEFINE logged == Count({"command_executed"})
<1>a. /\ commandObjs \in CommandSeq /\ ran \in Seq(Commands)
      /\ logged \in Nat
      /\ previousStep \in Nat
  BY CountType DEF IInv, TypeOK
<1> HIDE DEF logged
<1>b. /\ Len(ran) <= Len(commandObjs) /\ Len(commandObjs) <= Len(ran) + 1
      /\ \A i \in DOMAIN ran : ran[i] = commandObjs[i].text
      /\ Len(ran) - logged \in 0..1
      /\ pc \notin {"files", "raised"} => Len(commandObjs) = Len(ran)
      /\ pc = "files" => /\ Len(commandObjs) = Len(ran) + 1
                         /\ commandObjs[Len(commandObjs)].text = reply.command
      /\ pc \notin {"exec", "executed", "raised", "cancelled"} => Len(ran) = logged
      /\ pc \in {"exec", "executed"} => Len(ran) = logged + 1
  BY DEF CommandsTracked, CommandsWrittenAhead, logged
<1>c. SUFFICES
        /\ Len(ran') <= Len(commandObjs') /\ Len(commandObjs') <= Len(ran') + 1
        /\ \A i \in DOMAIN ran' : ran'[i] = commandObjs'[i].text
        /\ Len(ran') - logged' \in 0..1
        /\ pc' \notin {"files", "raised"} => Len(commandObjs') = Len(ran')
        /\ pc' = "files" => /\ Len(commandObjs') = Len(ran') + 1
                            /\ commandObjs'[Len(commandObjs')].text = reply'.command
        /\ pc' \notin {"exec", "executed", "raised", "cancelled"} => Len(ran') = logged'
        /\ pc' \in {"exec", "executed"} => Len(ran') = logged' + 1
  BY DEF CommandsTracked, CommandsWrittenAhead, logged
<1>1. CASE AddCommand
  <2>1. reply.command \in Commands
    BY <1>1 DEF AddCommand, IInv, BranchTaken
  <2>2. /\ pc = "issue" /\ pc' = "files" /\ UNCHANGED <<log, ran, reply>>
        /\ commandObjs' = Append(commandObjs, [step |-> previousStep, text |-> reply.command])
    BY <1>1 DEF AddCommand, Goto
  <2>3. logged' = logged
    BY <2>2, QuietCount DEF logged
  <2>4. /\ Len(commandObjs') = Len(commandObjs) + 1
        /\ commandObjs'[Len(commandObjs')].text = reply.command
        /\ \A i \in 1..Len(commandObjs) : commandObjs'[i] = commandObjs[i]
    BY <1>a, <2>1, <2>2
  <2> QED
    BY <1>a, <1>b, <2>2, <2>3, <2>4
<1>2. CASE StartCommand
  <2>1. reply.command \in Commands
    BY <1>2 DEF StartCommand, IInv, BranchTaken
  <2>2. /\ pc = "files" /\ pc' = "exec" /\ UNCHANGED <<log, commandObjs>>
        /\ ran' = Append(ran, reply.command)
    BY <1>2 DEF StartCommand, Goto, graphVars
  <2>3. logged' = logged
    BY <2>2, QuietCount DEF logged
  <2>4. /\ Len(ran') = Len(ran) + 1 /\ DOMAIN ran' = 1..(Len(ran) + 1)
        /\ ran'[Len(ran) + 1] = reply.command
        /\ \A i \in 1..Len(ran) : ran'[i] = ran[i]
    BY <1>a, <2>1, <2>2
  <2>5. Len(ran) \in Nat /\ Len(commandObjs) \in Nat /\ DOMAIN ran = 1..Len(ran)
    BY <1>a
  <2>6. ASSUME NEW i \in DOMAIN ran' PROVE ran'[i] = commandObjs'[i].text
    BY <1>b, <2>2, <2>4, <2>5
  <2> QED
    BY <1>a, <1>b, <2>2, <2>3, <2>4, <2>5, <2>6
<1>3. CASE CommandExecuted
  <2>1. /\ pc = "executed" /\ pc' = "observe" /\ UNCHANGED <<commandObjs, ran, reply>>
        /\ Emit("command_executed", outcome) /\ outcome \in Notes
        /\ "command_executed" \in EventTypes
    BY <1>3 DEF CommandExecuted, Goto, graphVars, IInv, TypeOK, Notes, EventTypes
  <2>2. logged' = logged + 1
    BY <2>1, EmitCount DEF logged, IInv
  <2> QED
    BY <1>a, <1>b, <2>1, <2>2
<1>4. CASE ~AddCommand /\ ~StartCommand /\ ~CommandExecuted
  <2>1. /\ UNCHANGED <<commandObjs, ran, logged>>
        /\ pc' = "files" => pc = "files" /\ UNCHANGED reply
        /\ pc = "files" => pc' \in {"files", "raised"}
        /\ pc \in {"raised", "cancelled"} => FALSE
        /\ pc \in {"exec", "executed"} =>
             pc' \in {"exec", "executed", "raised", "cancelled"}
        /\ pc' \in {"exec", "executed"} => pc \in {"exec", "executed"}
    BY <1>4, OtherCommands DEF logged
  <2> QED
    BY <1>b, <2>1
<1> QED
  BY <1>1, <1>2, <1>3, <1>4

-----------------------------------------------------------------------------
(* The records handed over *)

\* Every step hands over the turn that was answered, once.
LEMMA RecordsStep == IInv /\ RecordsTracked /\ LoopStep => RecordsTracked'
<1> SUFFICES ASSUME IInv, RecordsTracked, LoopStep PROVE RecordsTracked'
  OBVIOUS
<1> DEFINE asked  == Count({"model_turn"})
           handed == Len(turns)
           Open   == AfterTurn \cup AfterFeedback \cup {"record"}
           Shut   == BeforeTurn \cup {"returned"}
<1>a. asked \in Nat /\ handed \in Nat /\ step \in Nat
  BY CountType, BudgetsAssumption DEF IInv, TypeOK
<1> HIDE DEF asked, handed
<1>b. /\ asked - handed \in 0..1
      /\ pc \in Shut => asked = handed
      /\ pc \in Open => asked = handed + 1
      /\ pc \notin Final => step = handed
  BY DEF RecordsTracked, RecorderLag, asked, handed
<1>c. SUFFICES
        /\ asked' - handed' \in 0..1
        /\ pc' \in Shut => asked' = handed'
        /\ pc' \in Open => asked' = handed' + 1
        /\ pc' \notin Final => step' = handed'
  BY DEF RecordsTracked, RecorderLag, asked, handed, BeforeTurn
<1>1. CASE ModelTurn
  <2>1. /\ pc = "turn" /\ pc' = "step" /\ UNCHANGED <<step, turns>>
        /\ \E note \in Notes : Emit("model_turn", note)
    BY <1>1 DEF ModelTurn, Goto, Notes
  <2>2. asked' = asked + 1 /\ handed' = handed
    BY <2>1, EmitCount DEF asked, handed, EventTypes, IInv
  <2> QED
    BY <1>a, <1>b, <2>1, <2>2 DEF Final, BeforeTurn, AfterTurn, AfterFeedback
<1>2. CASE RecordTurn \/ RecordRaises
  <2>1. /\ pc = "record" /\ UNCHANGED log /\ HandOver
        /\ \/ pc' = "top" /\ step' = step + 1
           \/ pc' \in {"returned", "raised"}
    BY <1>2 DEF RecordTurn, RecordRaises, Goto
  <2>2. asked' = asked /\ handed' = handed + 1
    BY <2>1, QuietCount DEF asked, handed, IInv, TypeOK, HandOver
  <2> QED
    BY <1>a, <1>b, <2>1, <2>2 DEF Final, BeforeTurn, AfterTurn, AfterFeedback
<1>3. CASE ~ModelTurn /\ ~RecordTurn /\ ~RecordRaises
  <2>1. asked' = asked
    <3>1. CASE UNCHANGED log
      BY <3>1, QuietCount DEF asked
    <3>2. CASE ~UNCHANGED log
      <4>1. \E type \in EventTypes \ {"model_turn"}, note \in Notes : Emit(type, note)
        BY <1>3, <3>2, QuietStep DEF IInv, TypeOK, LoopStep, Proceed, Quiet,
           BudgetExhausted, BuildContext, CallFails, FatalError, ParseFailed, TaskFinished,
           IdleTurn, CommandExecuted, OutputObserved, CommandFailed, EventTypes, Notes,
           Outcomes
      <4> QED
        BY <4>1, EmitCount DEF asked, IInv
    <3> QED
      BY <3>1, <3>2
  <2>2. /\ UNCHANGED <<step, turns>> /\ pc \notin Final
        /\ \/ pc \in BeforeTurn /\ pc' \in BeforeTurn
           \/ pc = "top" /\ pc' = "returned"
           \/ pc \in Open /\ pc' \in Open
           \/ pc' \in {"raised", "cancelled"}
    <3>1. CASE AddStep
      BY <3>1, BranchType DEF AddStep, Goto, Final, AfterTurn
    <3>2. CASE ~AddStep
      BY <1>3, <3>2 DEF LoopStep, Proceed, AddTask, BudgetExhausted, BuildContext,
         CallFails, Backoff, CallRejected, CallAnswered, FatalError, FatalErrorObject,
         ParseFailed, ParseErrorObject, TaskFinished, IdleTurn, AddCommand, AddFile,
         StartCommand, CommandEnds, CommandExecuted, OutputObserved, AddObservation,
         CommandFailed, CommandErrorObject, StoreFails, Cancel, Goto, Writing, Awaiting,
         Final, BeforeTurn, AfterTurn, AfterFeedback
    <3> QED
      BY <3>1, <3>2
  <2>3. handed' = handed
    BY <2>2 DEF handed
  <2> QED
    BY <1>a, <1>b, <2>1, <2>2, <2>3 DEF Final, BeforeTurn, AfterTurn, AfterFeedback
<1> QED
  BY <1>1, <1>2, <1>3

-----------------------------------------------------------------------------
(* The retries of a turn *)

\* The number of retries of a turn after one more event.
LEMMA EmitRetries ==
  ASSUME TypeOK, NEW type \in EventTypes, NEW note \in Notes, Emit(type, note)
  PROVE  /\ \A s : Retries(s) \in Nat
         /\ \A s : Retries(s)' = IF type = "llm_retry" /\ s = step
                                 THEN Retries(s) + 1 ELSE Retries(s)
<1> SUFFICES ASSUME NEW s
             PROVE  /\ Retries(s) \in Nat
                    /\ Retries(s)' = IF type = "llm_retry" /\ s = step
                                     THEN Retries(s) + 1 ELSE Retries(s)
  OBVIOUS
<1> DEFINE old == EventsIn(log, {"llm_retry"}, s)
           new == EventsIn(log', {"llm_retry"}, s)
<1>1. old \in SUBSET DOMAIN log /\ log \in Seq(Events)
  BY DEF EventsIn, TypeOK
<1>2. IsFiniteSet(old) /\ Cardinality(old) \in Nat /\ Len(log) + 1 \notin old
  BY <1>1, PositionsFinite
<1>3. /\ type = "llm_retry" /\ s = step => new = old \cup {Len(log) + 1}
      /\ ~(type = "llm_retry" /\ s = step) => new = old
  BY EmitEvents
<1>4. Retries(s) = Cardinality(old) /\ Retries(s)' = Cardinality(new)
  BY DEF Retries, EventsOf
<1> HIDE DEF old, new
<1> QED
  BY <1>2, <1>3, <1>4, FS_AddElement

\* A turn that is yet to come has no events.
LEMMA FutureSilent ==
  ASSUME TypeOK, StepsBounded, NEW T, NEW s \in Nat, s > step
  PROVE  EventsOf(T, s) = {}
<1>1. \A i \in DOMAIN log : log[i].step <= step /\ step \in Nat
  BY BudgetsAssumption DEF StepsBounded, TypeOK
<1> QED
  BY <1>1 DEF EventsOf, EventsIn

\* Every step keeps the retries of every turn within their bound.
LEMMA RetriesStep == IInv /\ RetriesTracked /\ LoopStep => RetriesTracked'
<1> SUFFICES ASSUME IInv, RetriesTracked, LoopStep PROVE RetriesTracked'
  OBVIOUS
<1> DEFINE Asked(s) == EventsOf({"model_turn"}, s) # {}
<1>a. /\ TypeOK /\ StepsBounded /\ step \in Nat /\ MaxRetries \in Nat
      /\ attempt \in 0..MaxRetries
      /\ pc \in {"call", "backoff", "turn"} => ~Asked(step)
      /\ pc = "backoff" => attempt < MaxRetries
  BY BudgetsAssumption, RetriesAssumption
     DEF IInv, TypeOK, CurrentTurn, Silent, BeforeTurn, CountersBounded
<1>b. /\ \A s \in 0..step : /\ Retries(s) \in Nat
                            /\ Retries(s) <= MaxRetries + 1
                            /\ Asked(s) => Retries(s) <= MaxRetries
      /\ pc \in {"begin", "top"} => Retries(step) = 0
      /\ pc = "call" => Retries(step) = attempt
      /\ pc = "backoff" => Retries(step) = attempt + 1
      /\ pc = "turn" => Retries(step) <= MaxRetries
  <2>1. \A s : Retries(s) \in Nat
    <3> SUFFICES ASSUME NEW s PROVE Retries(s) \in Nat
      OBVIOUS
    <3>1. EventsOf({"llm_retry"}, s) \in SUBSET DOMAIN log /\ log \in Seq(Events)
      BY <1>a DEF EventsOf, EventsIn, TypeOK
    <3> QED
      BY <3>1, PositionsFinite DEF Retries
  <2> QED
    BY <2>1, FS_EmptySet DEF RetriesTracked, RetriesBounded, Retries
<1>c. SUFFICES
        /\ \A s \in 0..step' : /\ Retries(s)' <= MaxRetries + 1
                               /\ Asked(s)' => Retries(s)' <= MaxRetries
        /\ pc' \in {"begin", "top"} => EventsOf({"llm_retry"}, step)' = {}
        /\ pc' = "call" => Retries(step)' = attempt'
        /\ pc' = "backoff" => Retries(step)' = attempt' + 1
        /\ pc' = "turn" => Retries(step)' <= MaxRetries
  BY DEF RetriesTracked, RetriesBounded, Retries
<1>1. CASE CallFails
  <2>1. /\ pc = "call" /\ UNCHANGED <<step, attempt>>
        /\ pc' = IF attempt < MaxRetries THEN "backoff" ELSE "fatal"
        /\ Emit("llm_retry", "none")
        /\ "llm_retry" \in EventTypes /\ "none" \in Notes
    BY <1>1 DEF CallFails, Goto, EventTypes, Notes
  <2>2. \A s : Retries(s)' = IF s = step THEN Retries(s) + 1 ELSE Retries(s)
    BY <1>a, <2>1, EmitRetries
  <2>3. \A s : Asked(s)' <=> Asked(s)
    BY <1>a, <2>1, EmitEvents DEF EventsOf
  <2> QED
    BY <1>a, <1>b, <2>1, <2>2, <2>3
<1>2. CASE ModelTurn
  <2>1. /\ pc = "turn" /\ pc' = "step" /\ UNCHANGED <<step, attempt>>
        /\ \E note \in Notes : Emit("model_turn", note)
        /\ "model_turn" \in EventTypes
    BY <1>2 DEF ModelTurn, Goto, EventTypes, Notes
  <2>2. \A s : Retries(s)' = Retries(s)
    BY <1>a, <2>1, EmitRetries
  <2>3. \A s : s # step => (Asked(s)' <=> Asked(s))
    BY <1>a, <2>1, EmitEvents DEF EventsOf
  <2> QED
    BY <1>a, <1>b, <2>1, <2>2, <2>3
<1>3. CASE RecordTurn
  <2>1. /\ UNCHANGED log
        /\ \/ pc' = "returned" /\ step' = step
           \/ pc' = "top" /\ step' = step + 1
    BY <1>3 DEF RecordTurn, Goto
  <2>2. \A s : /\ EventsOf({"llm_retry"}, s)' = EventsOf({"llm_retry"}, s)
               /\ Retries(s)' = Cardinality(EventsOf({"llm_retry"}, s))
               /\ Retries(s) = Cardinality(EventsOf({"llm_retry"}, s))
               /\ Asked(s)' <=> Asked(s)
    BY <2>1 DEF Retries, EventsOf
  <2>3. CASE step' = step
    BY <1>a, <1>b, <2>1, <2>2, <2>3
  <2>4. CASE pc' = "top" /\ step' = step + 1
    <3>1. EventsOf({"llm_retry"}, step + 1) = {} /\ ~Asked(step + 1)
      BY <1>a, FutureSilent
    <3>2. EventsOf({"llm_retry"}, step)' = {}
      BY <2>1, <2>4, <3>1 DEF EventsOf
    <3>3. \A s \in 0..(step + 1) : s \in 0..step \/ s = step + 1
      BY <1>a
    <3>4. ASSUME NEW s \in 0..step'
          PROVE  /\ Retries(s)' <= MaxRetries + 1
                 /\ Asked(s)' => Retries(s)' <= MaxRetries
      <4>1. CASE s \in 0..step
        BY <1>b, <2>2, <4>1
      <4>2. CASE s = step + 1
        <5>1. Retries(s)' = 0 /\ ~Asked(s)'
          BY <2>2, <3>1, <4>2, FS_EmptySet
        <5> QED
          BY <1>a, <5>1
      <4> QED
        BY <2>4, <3>3, <4>1, <4>2
    <3> QED
      BY <2>4, <3>2, <3>4
  <2> QED
    BY <2>1, <2>3, <2>4
<1>4. CASE ~CallFails /\ ~ModelTurn /\ ~RecordTurn
  <2>1. /\ \A s : EventsOf({"llm_retry"}, s)' = EventsOf({"llm_retry"}, s)
        /\ \A s : Asked(s)' <=> Asked(s)
    <3>1. CASE UNCHANGED log
      BY <3>1 DEF EventsOf
    <3>2. CASE ~UNCHANGED log
      <4>1. \E type \in EventTypes \ {"model_turn", "llm_retry"}, note \in Notes :
               Emit(type, note)
        BY <1>4, <3>2, <1>a, QuietStep DEF TypeOK, LoopStep, Proceed, Quiet,
           BudgetExhausted, BuildContext, FatalError, ParseFailed, TaskFinished,
           IdleTurn, CommandExecuted, OutputObserved, CommandFailed, EventTypes, Notes,
           Outcomes
      <4> QED
        <5>1. PICK type \in EventTypes \ {"model_turn", "llm_retry"}, note \in Notes :
                Emit(type, note)
          BY <4>1
        <5>2. ASSUME NEW s
              PROVE  /\ EventsIn(log', {"llm_retry"}, s) = EventsIn(log, {"llm_retry"}, s)
                     /\ EventsIn(log', {"model_turn"}, s) = EventsIn(log, {"model_turn"}, s)
          BY <1>a, <5>1, EmitKeeps
        <5> QED
          BY <5>2 DEF EventsOf
    <3> QED
      BY <3>1, <3>2
  <2>2. \A s : Retries(s)' = Retries(s)
    BY <2>1 DEF Retries
  <2>3. /\ UNCHANGED step
        /\ pc' \in {"begin", "top"} => pc = "begin"
        /\ pc' = "call" => \/ pc = "top" /\ attempt' = 0
                           \/ pc = "backoff" /\ attempt' = attempt + 1
        /\ pc' = "backoff" => FALSE
        /\ pc' = "turn" => pc = "call"
    <3>1. CASE AddStep
      BY <3>1, BranchType DEF AddStep, Goto
    <3>2. CASE ~AddStep
      BY <1>4, <3>2 DEF LoopStep, Proceed, AddTask, BudgetExhausted, BuildContext,
         Backoff, CallRejected, CallAnswered, FatalError, FatalErrorObject,
         ParseFailed, ParseErrorObject, TaskFinished, IdleTurn, AddCommand, AddFile,
         StartCommand, CommandEnds, CommandExecuted, OutputObserved, AddObservation,
         CommandFailed, CommandErrorObject, RecordRaises, StoreFails, Cancel, Goto
    <3> QED
      BY <3>1, <3>2
  <2>4. pc = "begin" => EventsOf({"llm_retry"}, step) = {}
    BY DEF RetriesTracked
  <2>5. EventsOf({"llm_retry"}, step)' = EventsOf({"llm_retry"}, step)
    BY <2>1, <2>3 DEF EventsOf
  <2>6. Retries(step)' = Retries(step)
    BY <2>5 DEF Retries
  <2>7. step \in 0..step
    BY <1>a
  <2> QED
    BY <1>a, <1>b, <2>1, <2>2, <2>3, <2>4, <2>5, <2>6, <2>7
<1> QED
  BY <1>1, <1>2, <1>3, <1>4

-----------------------------------------------------------------------------
(* The totals of the LoopResult *)

\* A record that is handed over counts as unparsed if its answer was rejected.
LEMMA HandOverCount ==
  ASSUME TypeOK, HandOver
  PROVE  /\ Cardinality(Unparsed) \in Nat
         /\ Cardinality(Unparsed)' = Cardinality(Unparsed) + (IF reply.parsed THEN 0 ELSE 1)
<1> DEFINE Records == [step : Nat, command : Commands \cup {NoCommand}, done : BOOLEAN,
                       parseFailed : BOOLEAN, tokens : Nat]
           new == [step |-> step, command |-> reply.command, done |-> reply.done,
                   parseFailed |-> ~reply.parsed, tokens |-> reply.tokens]
           was == {i \in DOMAIN turns : turns[i].parseFailed}
           is  == {i \in DOMAIN turns' : turns'[i].parseFailed}
<1>1. turns \in Seq(Records) /\ turns' = Append(turns, new)
  BY DEF TypeOK, HandOver
<1>2. new.parseFailed = ~reply.parsed
  OBVIOUS
<1>3. IsFiniteSet(was) /\ Cardinality(was) \in Nat /\ Len(turns) + 1 \notin was
  BY <1>1, PositionsFinite
<1> HIDE DEF Records, new
<1>4. /\ DOMAIN turns' = DOMAIN turns \cup {Len(turns) + 1}
      /\ \A i \in DOMAIN turns : turns'[i] = turns[i]
      /\ turns'[Len(turns) + 1] = new
  BY <1>1
<1>5. /\ ~reply.parsed => is = was \cup {Len(turns) + 1}
      /\ reply.parsed => is = was
  BY <1>2, <1>4
<1>6. Cardinality(Unparsed) = Cardinality(was) /\ Cardinality(Unparsed)' = Cardinality(is)
  BY DEF Unparsed
<1> HIDE DEF was, is
<1> QED
  BY <1>3, <1>5, <1>6, FS_AddElement

\* The statements at which a count is ahead of what it counts.
Ahead == {"executed", "fatalobj", "rejectobj", "complainobj", "record"}

\* The steps that move a count, or go where one is ahead.
Counting ==
    \/ CommandEnds \/ CommandExecuted \/ FatalError \/ ParseFailed \/ ParseErrorObject
    \/ TaskFinished \/ IdleTurn \/ AddObservation \/ CommandFailed \/ CommandErrorObject
    \/ RecordTurn

\* No other step moves a count, unless the loop ends with it.
LEMMA OtherTotals ==
  ASSUME IInv, LoopStep, ~Counting, pc' \notin Final
  PROVE  /\ UNCHANGED <<nCommands, nErrors, errorObjs, turns>>
         /\ UNCHANGED <<Count({"command_executed"}), Count({"error_raised"})>>
         /\ pc \notin Ahead \cup Final /\ pc' \notin Ahead
<1>1. UNCHANGED <<Count({"command_executed"}), Count({"error_raised"})>>
  <2>1. CASE UNCHANGED log
    BY <2>1, QuietCount
  <2>2. CASE ~UNCHANGED log
    <3>1. \E type \in EventTypes \ {"command_executed", "error_raised"}, note \in Notes :
             Emit(type, note)
      BY <2>2, QuietStep DEF IInv, TypeOK, LoopStep, Proceed, Quiet, Counting,
         BudgetExhausted, BuildContext, CallFails, ModelTurn, OutputObserved, EventTypes,
         Notes, Outcomes
    <3> QED
      BY <3>1, EmitCount DEF IInv
  <2> QED
    BY <2>1, <2>2
<1>2. CASE AddStep
  BY <1>1, <1>2, BranchType DEF AddStep, Goto, Ahead, Final
<1>3. CASE ~AddStep
  BY <1>1, <1>3 DEF LoopStep, Proceed, Counting, AddTask, BudgetExhausted, BuildContext,
     CallFails, Backoff, CallRejected, CallAnswered, FatalErrorObject, ModelTurn,
     AddCommand, AddFile, StartCommand, OutputObserved, RecordRaises, StoreFails, Cancel,
     Goto, Ahead, Final, Writing, Awaiting, graphVars, counterVars
<1> QED
  BY <1>2, <1>3

\* Every step keeps n_commands and n_errors those of the log, graph and records.
LEMMA TotalsStep == IInv /\ TotalsTracked /\ LoopStep => TotalsTracked'
<1> SUFFICES ASSUME IInv, TotalsTracked, LoopStep, pc' \notin Final PROVE TotalsTracked'
  BY DEF TotalsTracked
<1> DEFINE commands == Count({"command_executed"})
           faults   == Count({"error_raised"})
           unparsed == Cardinality(Unparsed)
           errors   == Len(errorObjs)
<1>a. /\ TypeOK /\ BranchTaken
      /\ commands \in Nat /\ faults \in Nat /\ unparsed \in Nat /\ errors \in Nat
      /\ nCommands \in Nat /\ nErrors \in Nat
  <2>1. TypeOK /\ BranchTaken /\ Unparsed \in SUBSET DOMAIN turns
    BY DEF IInv, Unparsed
  <2>2. unparsed \in Nat
    BY <2>1, PositionsFinite DEF TypeOK
  <2> QED
    BY <2>1, <2>2, CountType DEF TypeOK
<1>b. pc \notin Final =>
        /\ pc # "executed" => nCommands = commands
        /\ pc = "executed" => nCommands = commands + 1
        /\ ~Complaining => nErrors = errors
        /\ Complaining  => nErrors = errors + 1
        /\ ~Owed => nErrors = faults + unparsed
        /\ Owed  => nErrors = faults + unparsed + 1
  BY DEF TotalsTracked
<1>c. SUFFICES
        /\ pc' # "executed" => nCommands' = commands'
        /\ pc' = "executed" => nCommands' = commands' + 1
        /\ ~Complaining' => nErrors' = errors'
        /\ Complaining'  => nErrors' = errors' + 1
        /\ ~Owed' => nErrors' = faults' + unparsed'
        /\ Owed'  => nErrors' = faults' + unparsed' + 1
  BY DEF TotalsTracked
<1>d. UNCHANGED turns => unparsed' = unparsed
  BY DEF Unparsed
<1>e. UNCHANGED log => commands' = commands /\ faults' = faults
  BY QuietCount
<1>f. UNCHANGED errorObjs => errors' = errors
  OBVIOUS
<1>g. \A type \in EventTypes, note \in Notes : Emit(type, note) =>
        /\ commands' = IF type = "command_executed" THEN commands + 1 ELSE commands
        /\ faults' = IF type = "error_raised" THEN faults + 1 ELSE faults
  BY <1>a, EmitCount
<1>h. \A e : errorObjs' = Append(errorObjs, e) => errors' = errors + 1
  BY <1>a DEF TypeOK
<1> USE DEF Complaining, Owed
<1> HIDE DEF commands, faults, unparsed, errors
<1>1. CASE CommandEnds
  <2>1. /\ pc = "exec" /\ pc' = "executed" /\ nCommands' = nCommands + 1
        /\ UNCHANGED <<nErrors, log, errorObjs, turns, reply>>
    BY <1>1 DEF CommandEnds, Goto, graphVars
  <2>2. nCommands = commands /\ nErrors = errors /\ nErrors = faults + unparsed
    BY <1>a, <1>b, <2>1 DEF Final
  <2>3. commands' = commands /\ faults' = faults /\ unparsed' = unparsed /\ errors' = errors
    BY <1>d, <1>e, <1>f, <2>1
  <2> QED
    BY <1>a, <2>1, <2>2, <2>3
<1>2. CASE CommandExecuted
  <2>1. outcome \in Notes /\ "command_executed" \in EventTypes
    BY <1>a DEF TypeOK, Notes, EventTypes
  <2>2. /\ pc = "executed" /\ pc' = "observe" /\ Emit("command_executed", outcome)
        /\ UNCHANGED <<nCommands, nErrors, errorObjs, turns>>
    BY <1>2 DEF CommandExecuted, Goto, graphVars, counterVars
  <2>3. commands' = commands + 1 /\ faults' = faults
    BY <1>g, <2>1, <2>2
  <2>4. nCommands = commands + 1 /\ nErrors = errors /\ nErrors = faults + unparsed
    BY <1>b, <2>2 DEF Final
  <2>5. unparsed' = unparsed /\ errors' = errors
    BY <1>d, <1>f, <2>2
  <2> QED
    BY <1>a, <2>2, <2>3, <2>4, <2>5
<1>3. CASE FatalError \/ CommandFailed
  <2>1. "fatal" \in Notes /\ "nonfatal" \in Notes /\ "error_raised" \in EventTypes
    BY DEF Notes, EventTypes
  <2> QED
    BY <1>3, <1>a, <1>b, <1>d, <1>f, <1>g, <2>1
       DEF FatalError, CommandFailed, Goto, Final, graphVars
<1>4. CASE ParseFailed
  <2>1. \E type \in {"noop_turn", "parse_error"} : Emit(type, "parse_failed")
    BY <1>4 DEF ParseFailed
  <2>2. "parse_failed" \in Notes /\ {"noop_turn", "parse_error"} \subseteq EventTypes
    BY DEF Notes, EventTypes
  <2> QED
    BY <1>4, <1>a, <1>b, <1>d, <1>f, <1>g, <2>1, <2>2
       DEF ParseFailed, Goto, Final, graphVars
<1>5. CASE ParseErrorObject
  BY <1>5, <1>a, <1>b, <1>d, <1>e, <1>h
     DEF ParseErrorObject, Goto, Final, counterVars, BranchTaken
<1>6. CASE TaskFinished \/ IdleTurn
  <2>1. "none" \in Notes /\ {"task_finished", "noop_turn"} \subseteq EventTypes
    BY DEF Notes, EventTypes
  <2>2. reply.parsed
    BY <1>6, <1>a DEF TaskFinished, IdleTurn, BranchTaken, Finishing
  <2> QED
    BY <1>6, <1>a, <1>b, <1>d, <1>f, <1>g, <2>1, <2>2
       DEF TaskFinished, IdleTurn, Goto, Final, graphVars, counterVars
<1>7. CASE AddObservation
  BY <1>7, <1>a, <1>b, <1>d, <1>e, <1>f
     DEF AddObservation, Goto, Final, counterVars, BranchTaken
<1>8. CASE CommandErrorObject
  BY <1>8, <1>a, <1>b, <1>d, <1>e, <1>h
     DEF CommandErrorObject, Goto, Final, counterVars, BranchTaken
<1>9. CASE RecordTurn
  <2>1. unparsed' = unparsed + (IF reply.parsed THEN 0 ELSE 1)
    BY <1>9, <1>a, HandOverCount DEF RecordTurn, unparsed
  <2> QED
    BY <1>9, <1>a, <1>b, <1>e, <1>f, <2>1 DEF RecordTurn, Goto, Final, graphVars, counterVars
<1>10. CASE ~Counting
  <2>1. /\ UNCHANGED <<nCommands, nErrors, errorObjs, turns, commands, faults>>
        /\ pc \notin Ahead \cup Final /\ pc' \notin Ahead
    BY <1>10, OtherTotals DEF commands, faults
  <2> QED
    BY <1>a, <1>b, <1>d, <1>f, <2>1 DEF Ahead
<1> QED
  BY <1>1, <1>2, <1>3, <1>4, <1>5, <1>6, <1>7, <1>8, <1>9, <1>10 DEF Counting

\* The loop returns what the log, the graph and the records say.
LEMMA ResultStep ==
  IInv /\ LedgerInv /\ CountInv /\ LoopStep => ResultMatchesLog'
<1> SUFFICES ASSUME IInv, LedgerInv, CountInv, LoopStep, pc' = "returned"
             PROVE  ResultMatchesLog'
  BY DEF ResultMatchesLog
<1> DEFINE asked    == Count({"model_turn"})
           commands == Count({"command_executed"})
           faults   == Count({"error_raised"})
           unparsed == Cardinality(Unparsed)
           errors   == Len(errorObjs)
           Latest     == log[Len(log)].type
<1>a. /\ TypeOK /\ step \in Nat /\ MaxSteps \in Nat /\ step <= MaxSteps
      /\ asked \in Nat /\ commands \in Nat /\ faults \in Nat
  BY CountType, BudgetsAssumption DEF IInv, TypeOK
<1>b. faults = Cardinality({i \in DOMAIN log : log[i].type = "error_raised"})
  <2>1. {i \in DOMAIN log : log[i].type = "error_raised"} =
          {i \in DOMAIN log : log[i].type \in {"error_raised"}}
    OBVIOUS
  <2> QED
    BY <2>1 DEF Count
<1>c. faults' = Cardinality({i \in DOMAIN log' : log'[i].type = "error_raised"})
  <2>1. {i \in DOMAIN log' : log'[i].type = "error_raised"} =
          {i \in DOMAIN log' : log'[i].type \in {"error_raised"}}
    OBVIOUS
  <2> QED
    BY <2>1 DEF Count
<1>d. unparsed' = Cardinality({i \in DOMAIN turns' : turns'[i].parseFailed})
  BY DEF Unparsed
<1>e. SUFFICES
        /\ Latest' = result'.reason
        /\ result'.nSteps = asked' /\ result'.nCommands = commands'
        /\ result'.nErrors = errors' /\ result'.nErrors = faults' + unparsed'
        /\ result'.nSteps <= MaxSteps
  BY <1>c, <1>d DEF ResultMatchesLog
<1>1. CASE BudgetExhausted
  <2>1. /\ pc = "top" /\ UNCHANGED <<turns, errorObjs>>
        /\ Emit("budget_exhausted", "none")
        /\ "budget_exhausted" \in EventTypes /\ "none" \in Notes
        /\ result' = [reason |-> "budget_exhausted", nSteps |-> step,
                      nCommands |-> nCommands, nErrors |-> nErrors, tokens |-> tokens]
    BY <1>1 DEF BudgetExhausted, Return, EventTypes, Notes, graphVars
  <2>2. asked = step /\ nCommands = commands /\ nErrors = errors /\ nErrors = faults + unparsed
    BY <1>a, <2>1 DEF CountInv, RecordsTracked, TotalsTracked, Complaining, Owed,
       BeforeTurn, Final
  <2>3. asked' = asked /\ commands' = commands /\ faults' = faults
    BY <1>a, <2>1, EmitCount
  <2>4. unparsed' = unparsed /\ errors' = errors
    BY <2>1 DEF Unparsed
  <2>5. Latest' = "budget_exhausted"
    <3>1. /\ Len(log') = Len(log) + 1
          /\ log'[Len(log) + 1] = [type |-> "budget_exhausted", step |-> step, note |-> "none"]
      BY <1>a, <2>1, EmitEvents
    <3> QED
      BY <3>1
  <2> QED
    BY <1>a, <2>1, <2>2, <2>3, <2>4, <2>5
<1>2. CASE RecordTurn
  <2>1. /\ pc = "record" /\ Finishing /\ HandOver /\ UNCHANGED <<log, errorObjs>>
        /\ result' = [reason |-> "task_finished", nSteps |-> step + 1,
                      nCommands |-> nCommands, nErrors |-> nErrors, tokens |-> tokens]
    BY <1>2 DEF RecordTurn, Return, Goto, graphVars
  <2>2. reply.parsed /\ step < MaxSteps
    BY <2>1 DEF Finishing, IInv, CountersBounded, Final
  <2>3. asked = step + 1
    BY <1>a, <2>1 DEF CountInv, RecordsTracked, Final
  <2>4. nCommands = commands /\ nErrors = errors /\ nErrors = faults + unparsed
    BY <1>a, <2>1, <2>2 DEF CountInv, TotalsTracked, Complaining, Owed, Final
  <2>5. asked' = asked /\ commands' = commands /\ faults' = faults
    BY <2>1, QuietCount
  <2>6. unparsed' = unparsed /\ errors' = errors
    BY <1>a, <2>1, <2>2, HandOverCount
  <2>7. Latest' = "task_finished"
    <3>1. PICK i \in DOMAIN log : log[i].type = "task_finished"
      BY <2>1 DEF LedgerInv, FinishLogged, Happened
    <3>2. i = Len(log)
      BY <3>1 DEF IInv, TerminalIsLast, TerminalTypes
    <3> QED
      BY <2>1, <3>1, <3>2
  <2> QED
    BY <1>a, <2>1, <2>2, <2>3, <2>4, <2>5, <2>6, <2>7
<1>3. CASE ~BudgetExhausted /\ ~RecordTurn
  BY <1>3, BranchType DEF LoopStep, Proceed, AddTask, BuildContext, CallFails, Backoff,
     CallRejected, CallAnswered, FatalError, FatalErrorObject, ModelTurn, AddStep,
     ParseFailed, ParseErrorObject, TaskFinished, IdleTurn, AddCommand, AddFile,
     StartCommand, CommandEnds, CommandExecuted, OutputObserved, AddObservation,
     CommandFailed, CommandErrorObject, RecordRaises, StoreFails, Cancel, Goto, Writing,
     Awaiting
<1> QED
  BY <1>1, <1>2, <1>3

-----------------------------------------------------------------------------
(* The time                                                                  *)

\* The longest request and the longest command.
LEMMA LongestTimes ==
  /\ LongestOf(CallTimes) \in Nat /\ \A d \in CallTimes : d \in Nat /\ d <= LongestOf(CallTimes)
  /\ LongestOf(CommandTimes) \in Nat
  /\ \A d \in CommandTimes : d \in Nat /\ d <= LongestOf(CommandTimes)
<1> SUFFICES ASSUME NEW times \in {CallTimes, CommandTimes}
             PROVE  LongestOf(times) \in Nat /\ \A d \in times : d \in Nat /\ d <= LongestOf(times)
  OBVIOUS
<1>1. times \subseteq Nat /\ \E t \in times : \A u \in times : u <= t
  BY TimesAssumption
<1>2. LongestOf(times) \in times /\ \A u \in times : u <= LongestOf(times)
  BY <1>1 DEF LongestOf
<1> QED
  BY <1>1, <1>2

\* The backoffs before an attempt, one by one, and that they add up.
LEMMA Backoffs ==
  /\ BackoffsBefore \in [0..MaxRetries -> Nat] /\ BackoffsBefore[0] = 0
  /\ \A a \in 1..MaxRetries : BackoffsBefore[a] = BackoffsBefore[a - 1] + RetryDelay[a - 1]
  /\ \A a \in 0..MaxRetries : BackoffsBefore[a] <= BackoffsBefore[MaxRetries]
<1> DEFINE Sums(f) == [a \in 0..MaxRetries |-> IF a = 0 THEN 0 ELSE f[a - 1] + RetryDelay[a - 1]]
           zero == 0
           next == [a \in 1..MaxRetries |-> [x \in Nat |-> x + RetryDelay[a - 1]]]
<1>1. MaxRetries \in Nat /\ \A a \in 1..MaxRetries : RetryDelay[a - 1] \in Nat
  <2>1. \A a \in 1..MaxRetries : a - 1 \in 0..MaxRetries
    BY RetriesAssumption
  <2> QED
    BY <2>1, RetriesAssumption
<1>2. StaysIn(Nat, next, MaxRetries)
  BY <1>1 DEF StaysIn
<1>3. \A a \in 1..MaxRetries, x \in Nat : next[a][x] = x + RetryDelay[a - 1]
  OBVIOUS
<1> HIDE DEF next
<1>4. PICK f : RunIn(Nat, f, zero, next, MaxRetries)
  <2>1. zero \in Nat
    OBVIOUS
  <2> HIDE DEF zero
  <2> QED
    BY <1>1, <1>2, <2>1, RecursionExists
<1>5. /\ f \in [0..MaxRetries -> Nat] /\ f[0] = 0
      /\ \A a \in 1..MaxRetries : f[a] = f[a - 1] + RetryDelay[a - 1]
  <2>1. f \in [0..MaxRetries -> Nat] /\ f[0] = 0
    BY <1>4 DEF RunIn, Run
  <2>2. ASSUME NEW a \in 1..MaxRetries PROVE f[a] = f[a - 1] + RetryDelay[a - 1]
    <3>1. f[a] = next[a][f[a - 1]]
      BY <1>4 DEF RunIn, Run
    <3>2. f[a - 1] \in Nat
      BY <1>1, <2>1
    <3> QED
      BY <1>3, <3>1, <3>2
  <2> QED
    BY <2>1, <2>2
<1>6. f = Sums(f)
  <2>1. ASSUME NEW a \in 0..MaxRetries
        PROVE  f[a] = IF a = 0 THEN 0 ELSE f[a - 1] + RetryDelay[a - 1]
    BY <1>1, <1>5
  <2> QED
    BY <1>5, <2>1
<1>7. BackoffsBefore = CHOOSE g : g = Sums(g)
  BY DEF BackoffsBefore
<1>8. BackoffsBefore = Sums(BackoffsBefore)
  <2> HIDE DEF Sums
  <2> QED
    BY <1>6, <1>7
<1>9. \A a \in 0..MaxRetries :
        BackoffsBefore[a] = IF a = 0 THEN 0 ELSE BackoffsBefore[a - 1] + RetryDelay[a - 1]
  BY <1>8
<1>10. BackoffsBefore[0] = 0
  BY <1>1, <1>9
<1>11. ASSUME NEW a \in 1..MaxRetries
       PROVE  BackoffsBefore[a] = BackoffsBefore[a - 1] + RetryDelay[a - 1]
  BY <1>1, <1>9
<1>12. \A a \in 0..MaxRetries : BackoffsBefore[a] \in Nat
  <2> DEFINE T == {a \in 0..MaxRetries : BackoffsBefore[a] \in Nat}
  <2>1. 0 \in T
    BY <1>1, <1>10
  <2>2. ASSUME NEW a \in 0..(MaxRetries - 1), a \in T PROVE a + 1 \in T
    <3>1. a + 1 \in 1..MaxRetries /\ a + 1 \in 0..MaxRetries /\ (a + 1) - 1 = a
      BY <1>1
    <3>2. BackoffsBefore[a + 1] = BackoffsBefore[a] + RetryDelay[a]
      BY <1>11, <3>1
    <3>3. BackoffsBefore[a] \in Nat /\ RetryDelay[a] \in Nat
      BY <1>1, <2>2, <3>1
    <3> QED
      BY <3>1, <3>2, <3>3
  <2>3. 0..MaxRetries \subseteq T
    <3> HIDE DEF T
    <3> QED
      BY <1>1, <2>1, <2>2, Induction
  <2> QED
    BY <2>3
<1>13. BackoffsBefore \in [0..MaxRetries -> Nat]
  BY <1>8, <1>12
<1>14. \A a \in 1..MaxRetries : BackoffsBefore[a - 1] <= BackoffsBefore[a]
  <2>1. ASSUME NEW a \in 1..MaxRetries PROVE BackoffsBefore[a - 1] <= BackoffsBefore[a]
    <3>1. a - 1 \in 0..MaxRetries
      BY <1>1
    <3> QED
      BY <1>1, <1>11, <1>12, <3>1
  <2> QED
    BY <2>1
<1>15. \A a, b \in 0..MaxRetries : a <= b => BackoffsBefore[a] <= BackoffsBefore[b]
  BY <1>1, <1>13, <1>14, SumsGrow
<1> QED
  BY <1>1, <1>10, <1>11, <1>13, <1>15

\* One request more, and the bound of all of them.
LEMMA Requests ==
  ASSUME NEW n \in Nat, NEW m \in Nat, n <= m, NEW c \in Nat
  PROVE  n * c \in Nat /\ (n + 1) * c = n * c + c /\ n * c <= m * c
<1>1. PICK k \in Nat : m = n + k
  <2>1. m - n \in Nat /\ m = n + (m - n)
    OBVIOUS
  <2> QED
    BY <2>1
<1>2. m * c = n * c + k * c
  BY <1>1
<1>3. n * c \in Nat /\ k * c \in Nat
  OBVIOUS
<1>4. (n + 1) * c = n * c + c
  OBVIOUS
<1> QED
  BY <1>2, <1>3, <1>4

\* What a turn can have used so far is within what a whole turn can take.
LEMMA TurnTime ==
  ASSUME TypeOK
  PROVE  /\ RequestTime(attempt) \in Nat
         /\ RequestTime(attempt + 1) = RequestTime(attempt) + LongestOf(CallTimes)
         /\ RequestTime(attempt + 1) + LongestOf(CommandTimes) <= TurnBound
<1> DEFINE c == LongestOf(CallTimes)
           used == BackoffsBefore[attempt]
           most == BackoffsBefore[MaxRetries]
<1>1. attempt \in Nat /\ MaxRetries \in Nat /\ attempt <= MaxRetries /\ attempt \in 0..MaxRetries
  BY RetriesAssumption DEF TypeOK
<1>2. c \in Nat /\ LongestOf(CommandTimes) \in Nat
  BY LongestTimes
<1>3. used \in Nat /\ most \in Nat /\ used <= most
  <2>1. MaxRetries \in 0..MaxRetries
    BY <1>1
  <2> QED
    BY <1>1, <2>1, Backoffs
<1>4. /\ RequestTime(attempt) = attempt * c + used
      /\ RequestTime(attempt + 1) = (attempt + 1) * c + used
      /\ TurnBound = (MaxRetries + 1) * c + most + LongestOf(CommandTimes)
  BY DEF RequestTime, TurnBound
<1> HIDE DEF c, used, most
<1>5. /\ attempt * c \in Nat /\ (attempt + 1) * c = attempt * c + c
      /\ (attempt + 1) * c <= (MaxRetries + 1) * c /\ (MaxRetries + 1) * c \in Nat
  <2>1. attempt * c \in Nat /\ (attempt + 1) * c = attempt * c + c
    BY <1>1, <1>2, Requests
  <2>2. attempt + 1 \in Nat /\ MaxRetries + 1 \in Nat /\ attempt + 1 <= MaxRetries + 1
    BY <1>1
  <2>3. (attempt + 1) * c <= (MaxRetries + 1) * c
    BY <1>2, <2>2, Requests
  <2>4. (MaxRetries + 1) * c \in Nat
    BY <1>2, <2>2, Requests
  <2> QED
    BY <2>1, <2>3, <2>4
<1>6. (attempt + 1) * c + used \in Nat /\ attempt * c + used \in Nat
  BY <1>2, <1>3, <1>5
<1> QED
  BY <1>2, <1>3, <1>4, <1>5, <1>6 DEF c

\* At every statement the overrun is within its bound.
LEMMA TimeBounded == ASSUME TypeOK, TimeTracked PROVE OverrunBounded
<1>1. elapsed \in Nat /\ WallClock \in Nat
  BY BudgetsAssumption DEF TypeOK
<1>2. CASE pc = "begin"
  BY <1>1, <1>2 DEF TimeTracked, OverrunBounded
<1>3. CASE pc \in {"top"} \cup Final
  BY <1>3 DEF TimeTracked
<1>4. CASE pc \notin {"begin", "top"} \cup Final
  <2> DEFINE used == RequestTime(attempt)
             more == RequestTime(attempt + 1)
  <2>1. /\ used \in Nat /\ more = used + LongestOf(CallTimes)
        /\ more + LongestOf(CommandTimes) <= TurnBound
    BY TurnTime
  <2>2. LongestOf(CallTimes) \in Nat /\ LongestOf(CommandTimes) \in Nat
    BY LongestTimes
  <2>3. TurnBound \in Int
    <3>1. /\ BackoffsBefore[MaxRetries] \in Nat /\ MaxRetries \in Nat
          /\ MaxRetries \in 0..MaxRetries
      BY Backoffs, RetriesAssumption
    <3> QED
      BY <2>2, <3>1 DEF TurnBound
  <2>4. elapsed < WallClock + used \/ elapsed < WallClock + more + LongestOf(CommandTimes)
    BY <1>4 DEF TimeTracked
  <2> HIDE DEF used, more
  <2> QED
    BY <1>1, <2>1, <2>2, <2>3, <2>4 DEF OverrunBounded
<1> QED
  BY <1>2, <1>3, <1>4

\* Every step keeps to what the turn can have used.
LEMMA TimeStep == IInv /\ TimeTracked /\ LoopStep => TimeTracked'
<1> SUFFICES ASSUME IInv, TimeTracked, LoopStep PROVE TimeTracked'
  OBVIOUS
<1> DEFINE call == LongestOf(CallTimes)
           command == LongestOf(CommandTimes)
           used == RequestTime(attempt)
<1>a. /\ TypeOK /\ TypeOK' /\ elapsed \in Nat /\ WallClock \in Nat
      /\ call \in Nat /\ command \in Nat /\ used \in Nat
      /\ RequestTime(attempt + 1) = used + call
  BY BudgetsAssumption, LongestTimes, TurnTime, TypeStep DEF IInv, TypeOK
<1>b. /\ pc = "begin" => elapsed = 0
      /\ pc = "call" => elapsed < WallClock + used
      /\ pc \notin {"begin", "top", "call"} \cup Final =>
           elapsed < WallClock + used + call + command
      /\ pc \notin {"begin", "top", "call", "record"} \cup Final \cup Ran =>
           elapsed < WallClock + used + call
  BY <1>a DEF TimeTracked
<1>c. /\ used' = attempt' * call + BackoffsBefore[attempt'] /\ used' \in Nat
      /\ RequestTime(attempt + 1)' = used' + call
  <2>1. /\ used' = attempt' * call + BackoffsBefore[attempt']
        /\ RequestTime(attempt + 1)' = (attempt' + 1) * call + BackoffsBefore[attempt']
    BY DEF RequestTime
  <2>2. attempt' \in Nat /\ attempt' \in 0..MaxRetries
    BY <1>a, RetriesAssumption DEF TypeOK
  <2>3. attempt' * call \in Nat /\ (attempt' + 1) * call = attempt' * call + call
    BY <1>a, <2>2, Requests
  <2>4. BackoffsBefore[attempt'] \in Nat
    BY <2>2, Backoffs
  <2> HIDE DEF used, call
  <2> QED
    BY <1>a, <2>1, <2>3, <2>4
<1>d. UNCHANGED attempt => used' = used
  BY DEF RequestTime
<1>e. UNCHANGED elapsed => OverrunBounded'
  BY <1>a, TimeBounded DEF OverrunBounded
<1>f. SUFFICES
        /\ pc' = "begin" => elapsed' = 0
        /\ pc' \in {"top"} \cup Final => OverrunBounded'
        /\ pc' = "call" => elapsed' < WallClock + used'
        /\ pc' \notin {"begin", "top", "call"} \cup Final =>
             elapsed' < WallClock + used' + call + command
        /\ pc' \notin {"begin", "top", "call", "record"} \cup Final \cup Ran =>
             elapsed' < WallClock + used' + call
  BY <1>a, <1>c DEF TimeTracked
<1> HIDE DEF call, command, used
<1>1. CASE CallFails \/ CallRejected \/ CallAnswered
  <2>1. /\ pc = "call" /\ pc' \in {"backoff", "fatal", "turn"} /\ UNCHANGED attempt
        /\ \E d \in CallTimes : elapsed' = elapsed + d
    BY <1>1 DEF CallFails, CallRejected, CallAnswered, Goto
  <2>2. PICK d \in CallTimes : elapsed' = elapsed + d
    BY <2>1
  <2>3. d \in Nat /\ d <= call
    BY LongestTimes DEF call
  <2>4. elapsed' < WallClock + used + call
    BY <1>a, <1>b, <2>1, <2>2, <2>3
  <2> QED
    BY <1>a, <1>d, <2>1, <2>4 DEF Final
<1>2. CASE Backoff
  <2>1. /\ pc = "backoff" /\ pc' = "call" /\ attempt' = attempt + 1
        /\ elapsed' = elapsed + RetryDelay[attempt]
    BY <1>2 DEF Backoff, Goto
  <2>2. attempt \in Nat /\ attempt < MaxRetries /\ MaxRetries \in Nat
    BY <2>1, RetriesAssumption DEF IInv, TypeOK, CountersBounded
  <2>3. /\ attempt + 1 \in 1..MaxRetries /\ (attempt + 1) - 1 = attempt
        /\ attempt \in 0..MaxRetries
    BY <2>2
  <2>4. /\ BackoffsBefore[attempt + 1] = BackoffsBefore[attempt] + RetryDelay[attempt]
        /\ BackoffsBefore[attempt] \in Nat /\ RetryDelay[attempt] \in Nat
    BY <2>3, Backoffs, RetriesAssumption
  <2>5. used = attempt * call + BackoffsBefore[attempt]
    BY DEF used, call, RequestTime
  <2>6. attempt * call \in Nat /\ (attempt + 1) * call = attempt * call + call
    BY <1>a, <2>2, Requests
  <2>7. used' = used + call + RetryDelay[attempt]
    BY <1>a, <1>c, <2>1, <2>4, <2>5, <2>6
  <2>8. elapsed < WallClock + used + call
    BY <1>b, <2>1 DEF Final, Ran
  <2> QED
    BY <1>a, <2>1, <2>4, <2>7, <2>8 DEF Final
<1>3. CASE CommandEnds
  <2>1. /\ pc = "exec" /\ pc' = "executed" /\ UNCHANGED attempt
        /\ \E d \in CommandTimes : elapsed' = elapsed + d
    BY <1>3 DEF CommandEnds, Goto
  <2>2. PICK d \in CommandTimes : elapsed' = elapsed + d
    BY <2>1
  <2>3. d \in Nat /\ d <= command
    BY LongestTimes DEF command
  <2>4. elapsed < WallClock + used + call
    BY <1>b, <2>1 DEF Final, Ran
  <2>5. elapsed' < WallClock + used + call + command
    BY <1>a, <2>2, <2>3, <2>4
  <2> QED
    BY <1>d, <2>1, <2>5 DEF Final, Ran
<1>4. CASE BuildContext
  <2>1. /\ pc' = "call" /\ attempt' = 0 /\ UNCHANGED elapsed /\ elapsed < WallClock
    BY <1>4, <1>a, BudgetsAssumption DEF BuildContext, Goto, Exhausted
  <2>2. used' = 0
    BY <1>a, <1>c, <2>1, Backoffs
  <2> QED
    BY <1>a, <2>1, <2>2 DEF Final
<1>5. CASE AddTask \/ BudgetExhausted
  <2>1. pc' \in {"top", "returned"} /\ UNCHANGED elapsed
    BY <1>5 DEF AddTask, BudgetExhausted, Goto
  <2> QED
    BY <1>e, <2>1 DEF Final
<1>6. CASE AddStep
  <2>1. /\ pc = "step" /\ pc' \in {"reject", "finish", "idle", "issue"}
        /\ UNCHANGED <<elapsed, attempt>>
    BY <1>6, BranchType DEF AddStep, Goto
  <2> QED
    BY <1>b, <1>d, <2>1 DEF Final, Ran
<1>7. CASE RecordTurn \/ RecordRaises \/ StoreFails \/ Cancel
  <2>1. pc' \in {"top"} \cup Final /\ UNCHANGED elapsed
    BY <1>7 DEF RecordTurn, RecordRaises, StoreFails, Cancel, Goto, Final
  <2> QED
    BY <1>e, <2>1 DEF Final
<1>8. CASE FatalErrorObject
  <2>1. pc' \in Final /\ UNCHANGED elapsed
    BY <1>8 DEF FatalErrorObject, Goto, Final
  <2> QED
    BY <1>e, <2>1 DEF Final
<1>9. CASE \/ FatalError \/ ModelTurn \/ ParseFailed \/ ParseErrorObject \/ TaskFinished
           \/ IdleTurn \/ AddCommand \/ AddFile \/ StartCommand
  <2>1. /\ pc \in {"fatal", "turn", "reject", "rejectobj", "finish", "idle", "issue", "files"}
        /\ pc' \in {"fatalobj", "step", "rejectobj", "record", "files", "exec"}
        /\ UNCHANGED <<elapsed, attempt>>
    BY <1>9 DEF FatalError, ModelTurn, ParseFailed, ParseErrorObject, TaskFinished,
       IdleTurn, AddCommand, AddFile, StartCommand, Goto
  <2> QED
    BY <1>b, <1>d, <2>1 DEF Final, Ran
<1>10. CASE CommandExecuted \/ OutputObserved \/ AddObservation \/ CommandFailed \/ CommandErrorObject
  <2>1. /\ pc \in Ran /\ pc' \in Ran \cup {"record"}
        /\ UNCHANGED <<elapsed, attempt>>
    BY <1>10 DEF CommandExecuted, OutputObserved, AddObservation, CommandFailed,
       CommandErrorObject, Goto, Ran
  <2> QED
    BY <1>b, <1>d, <2>1 DEF Final, Ran
<1> QED
  BY <1>1, <1>2, <1>3, <1>4, <1>5, <1>6, <1>7, <1>8, <1>9, <1>10 DEF LoopStep, Proceed

-----------------------------------------------------------------------------
(* The theorems *)

\* Nothing is counted at the start.
LEMMA InitCounts == Init => CountInv
<1> SUFFICES ASSUME Init PROVE CountInv
  OBVIOUS
<1> USE DEF Init
<1>1. /\ \A T : {i \in DOMAIN log : log[i].type \in T} = {}
      /\ \A T, s : EventsOf(T, s) = {}
      /\ Unparsed = {}
  BY DEF EventsOf, EventsIn, Unparsed
<1>2. /\ \A T : Count(T) = 0
      /\ \A s : Retries(s) = 0
      /\ Cardinality(Unparsed) = 0
      /\ Len(log) = 0 /\ Len(ran) = 0 /\ Len(commandObjs) = 0 /\ Len(turns) = 0
      /\ Len(errorObjs) = 0
  BY <1>1, FS_EmptySet DEF Count, Retries
<1>3. CommandsTracked
  BY <1>2 DEF CommandsTracked, CommandsWrittenAhead
<1>4. RecordsTracked
  BY <1>2 DEF RecordsTracked, RecorderLag, BeforeTurn, AfterTurn, AfterFeedback, Final
<1>5. RetriesTracked
  BY <1>1, <1>2, RetriesAssumption DEF RetriesTracked, RetriesBounded, Retries
<1>6. TotalsTracked /\ ResultMatchesLog
  BY <1>2 DEF TotalsTracked, Complaining, Owed, ResultMatchesLog
<1> QED
  BY <1>3, <1>4, <1>5, <1>6 DEF CountInv

\* Every step keeps the counts.
LEMMA NextCounts ==
  IInv /\ LedgerInv /\ CountInv /\ [Next]_loopVars => CountInv'
<1> SUFFICES ASSUME IInv, LedgerInv, CountInv, [Next]_loopVars PROVE CountInv'
  OBVIOUS
<1>1. CASE LoopStep
  BY <1>1, CommandsStep, RecordsStep, RetriesStep, TotalsStep, ResultStep DEF CountInv
<1>2. CASE UNCHANGED loopVars
  <2>1. UNCHANGED <<log, commandObjs, errorObjs, pc, step, attempt, reply, nCommands,
                    nErrors, result, turns, ran>>
    BY <1>2 DEF loopVars, graphVars, counterVars
  <2>2. CommandsTracked' /\ RecordsTracked'
    BY <2>1 DEF CountInv, CommandsTracked, CommandsWrittenAhead, RecordsTracked,
       RecorderLag, Count
  <2>3. RetriesTracked'
    BY <2>1 DEF CountInv, RetriesTracked, RetriesBounded, Retries, EventsOf
  <2>4. TotalsTracked' /\ ResultMatchesLog'
    BY <2>1 DEF CountInv, TotalsTracked, Complaining, Owed, ResultMatchesLog, Count,
       Unparsed
  <2> QED
    BY <2>2, <2>3, <2>4 DEF CountInv
<1> QED
  BY <1>1, <1>2 DEF Next, Terminated

\* No time has passed at the start, and none passes between two steps.
LEMMA InitTime == Init => TimeTracked
  BY DEF Init, TimeTracked, Final

\* The clock stays within the budget and one turn at every step of the loop.
LEMMA NextTime == IInv /\ TimeTracked /\ [Next]_loopVars => TimeTracked'
<1> SUFFICES ASSUME IInv, TimeTracked, UNCHANGED loopVars PROVE TimeTracked'
  BY TimeStep DEF Next, Terminated
<1>1. UNCHANGED <<pc, attempt, elapsed>>
  BY DEF loopVars, graphVars, counterVars
<1> QED
  BY <1>1 DEF TimeTracked, RequestTime, OverrunBounded

\* The counts hold in every behaviour of the loop.
THEOREM CountsHold == Spec => []CountInv
  BY InitIInv, NextIInv, InitLedgerInv, NextLedgerInv, InitCounts, NextCounts, PTL DEF Spec

\* The container runs only what the graph already holds, in that order, and at
\* most one command it ran is missing in the log: what a crash can lose.
THEOREM CommandsCorrect == Spec => []CommandsWrittenAhead
  BY CountsHold, PTL DEF CountInv, CommandsTracked

\* The recorder is behind the log by one turn at most, and by none between turns.
THEOREM RecorderCorrect == Spec => []RecorderLag
  BY CountsHold, PTL DEF CountInv, RecordsTracked

\* No turn makes more than MAX_RETRIES + 1 attempts, and an answered one logged
\* at most MAX_RETRIES failures.
THEOREM RetriesCorrect == Spec => []RetriesBounded
  BY CountsHold, PTL DEF CountInv, RetriesTracked

\* A returned LoopResult counts what the log, the graph and the records hold.
THEOREM ResultCorrect == Spec => []ResultMatchesLog
  BY CountsHold, PTL DEF CountInv

\* The soft budget is overrun by one whole turn at most, however long the
\* requests, the backoffs and the commands are.
THEOREM LoopOverrun == Spec => []OverrunBounded
<1>1. IInv /\ TimeTracked => OverrunBounded
  BY TimeBounded DEF IInv
<1> QED
  BY <1>1, InitIInv, NextIInv, InitTime, NextTime, PTL DEF Spec
=============================================================================
