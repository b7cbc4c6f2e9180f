------------------------------ MODULE ReactLoop ------------------------------
(***************************************************************************)
(* The ReAct loop of the harness: run_loop of loop.py, the retrying model  *)
(* client it awaits (LLMClient.complete of llm.py) and the event log and   *)
(* typed graph it writes through events.py.                                *)
(*                                                                         *)
(* One turn is one model call and at most one shell command.  The loop is  *)
(* a single coroutine, so `pc' names the next statement that writes the    *)
(* store or suspends.  Each such statement is one action: a store failure  *)
(* (an exception of any write), a cancellation (only where the coroutine   *)
(* is suspended) or the death of the process can fall between any two.     *)
(*                                                                         *)
(* The log holds the harness's own events, without the object.created and  *)
(* relation.created events the store library adds for the graph: the graph *)
(* objects themselves are kept, in creation order, and an object's id is   *)
(* its position.                                                           *)
(***************************************************************************)
EXTENDS Integers, Sequences, FiniteSets

CONSTANTS
    MaxSteps,      \* Budgets.max_steps
    WallClock,     \* Budgets.wall_clock_sec
    MaxRetries,    \* llm.MAX_RETRIES
    RetryDelay,    \* attempt -> RETRY_BASE_DELAY_SEC * 2^attempt
    CallTimes,     \* how long one request to the model may take
    CommandTimes,  \* how long one command may run, its timeout included
    Usage,         \* token counts one answer may bill
    Commands,      \* command texts the model may ask for
    NoCommand,     \* the "command": null of an answer
    FilesOf        \* command -> extract_file_paths(command), paths in order

ASSUME BudgetsAssumption == MaxSteps \in Nat /\ WallClock \in Nat
ASSUME RetriesAssumption ==
    /\ MaxRetries \in Nat
    /\ RetryDelay \in [0..MaxRetries -> Nat]
\* A request and a command take some time, and each has a timeout.
ASSUME TimesAssumption ==
    \A times \in {CallTimes, CommandTimes} :
        times \subseteq Nat /\ \E t \in times : \A u \in times : u <= t
ASSUME UsageAssumption == Usage \subseteq Nat
ASSUME CommandsAssumption == NoCommand \notin Commands

Paths == UNION {{FilesOf[c][i] : i \in DOMAIN FilesOf[c]} : c \in Commands}
\* extract_file_paths returns each path of a command once (events.py:257-267).
ASSUME FilesAssumption ==
    /\ FilesOf \in [Commands -> Seq(Paths)]
    /\ \A c \in Commands :
         \A i, j \in DOMAIN FilesOf[c] : FilesOf[c][i] = FilesOf[c][j] => i = j

VARIABLES
    \* --- the durable trial log and its graph projection ---
    log,              \* the harness events, in the order they were appended
    stepObjs,         \* step objects, each with the step it `follows' (0: none)
    commandObjs,      \* command objects, each with the step that `issued' it
    observationObjs,  \* observations, each with the command that `produced' it
    errorObjs,        \* errors, each with the observation that `contains' it (0: none)
    files,            \* paths of the file objects
    touches,          \* <<command object, path>> edges
    \* --- the locals of run_loop and of complete ---
    pc,               \* the next statement
    step,             \* step
    attempt,          \* attempt, the request of complete() in progress
    reply,            \* result.text and what parse_response makes of it
    outcome,          \* how the last command ended
    paths,            \* the paths add_file_objects has still to record
    failures,         \* consecutive_parse_failures
    previousStep,     \* previous_step_id (0: None)
    nCommands,        \* n_commands
    nErrors,          \* n_errors
    tokens,           \* total_input_tokens + total_output_tokens + cache totals
    result,           \* the LoopResult that was returned
    \* --- the loop's surroundings ---
    turns,            \* the TurnRecords handed to record_turn
    ran,              \* commands the task container was asked to run
    elapsed           \* budgets.elapsed_sec()

graphVars   == <<stepObjs, commandObjs, observationObjs, errorObjs, files, touches>>
counterVars == <<failures, previousStep, nCommands, nErrors, tokens>>
loopVars    == <<log, graphVars, pc, step, attempt, reply, outcome, paths, counterVars,
                 result, turns, ran, elapsed>>

-----------------------------------------------------------------------------
(* Values *)

EventTypes == {"task_started", "context_built", "model_turn", "command_executed",
               "output_observed", "error_raised", "parse_error", "noop_turn",
               "llm_retry", "budget_exhausted", "task_finished"}

\* "exec_error" is an exception of environment.exec, logged as exit code -1.
Outcomes == {"zero", "nonzero", "exec_error"}

Notes == {"none", "parsed", "parse_failed", "fatal", "nonfatal"} \cup Outcomes
Events == [type : EventTypes, step : Nat, note : Notes]

\* What parse_response accepts, or a text it rejects: then the loop goes on
\* with command None and done False.
Replies ==
    [parsed : {TRUE}, command : Commands \cup {NoCommand}, done : BOOLEAN, tokens : Usage]
      \cup
    [parsed : {FALSE}, command : {NoCommand}, done : {FALSE}, tokens : Usage]

NoReply  == [parsed |-> FALSE, command |-> NoCommand, done |-> FALSE, tokens |-> 0]
NoResult == [reason |-> "none", nSteps |-> 0, nCommands |-> 0, nErrors |-> 0, tokens |-> 0]

FeedbackTypes == {"output_observed", "parse_error", "noop_turn"}
TerminalTypes == {"budget_exhausted", "task_finished"}

Awaiting == {"call", "backoff", "exec"}           \* suspended: may be cancelled
Final    == {"returned", "raised", "cancelled"}
Writing  == {"begin", "top", "fatal", "fatalobj", "turn", "step", "reject", "rejectobj",
             "finish", "idle", "issue", "files", "executed", "observe", "observation",
             "complain", "complainobj"}
PCs == Awaiting \cup Final \cup Writing \cup {"record"}

TypeOK ==
    /\ log \in Seq(Events)
    /\ stepObjs \in Seq([index : Nat, follows : Nat])
    /\ commandObjs \in Seq([step : Nat, text : Commands])
    /\ observationObjs \in Seq([command : Nat, outcome : Outcomes])
    /\ errorObjs \in Seq([kind : {"LLMError", "ParseError", "ExecError", "NonZeroExit"},
                          observation : Nat])
    /\ files \in Seq(Paths)
    /\ touches \subseteq Nat \X Paths
    /\ pc \in PCs
    /\ step \in 0..MaxSteps
    /\ attempt \in 0..MaxRetries
    /\ reply \in Replies \cup {NoReply}
    /\ outcome \in Outcomes
    /\ paths \in Seq(Paths)
    /\ failures \in 0..2
    /\ previousStep \in Nat
    /\ nCommands \in Nat /\ nErrors \in Nat /\ tokens \in Nat
    /\ result \in [reason : TerminalTypes \cup {"none"}, nSteps : Nat, nCommands : Nat,
                   nErrors : Nat, tokens : Nat]
    /\ turns \in Seq([step : Nat, command : Commands \cup {NoCommand}, done : BOOLEAN,
                      parseFailed : BOOLEAN, tokens : Nat])
    /\ ran \in Seq(Commands)
    /\ elapsed \in Nat

Init ==
    /\ log = <<>>
    /\ stepObjs = <<>> /\ commandObjs = <<>> /\ observationObjs = <<>>
    /\ errorObjs = <<>> /\ files = <<>> /\ touches = {}
    /\ pc = "begin" /\ step = 0 /\ attempt = 0
    /\ reply = NoReply /\ outcome = "zero" /\ paths = <<>>
    /\ failures = 0 /\ previousStep = 0
    /\ nCommands = 0 /\ nErrors = 0 /\ tokens = 0
    /\ result = NoResult
    /\ turns = <<>> /\ ran = <<>> /\ elapsed = 0

-----------------------------------------------------------------------------
(* Helpers *)

\* append_event: one more event, stamped with the current step.
Emit(type, note) == log' = Append(log, [type |-> type, step |-> step, note |-> note])

Goto(label) == pc' = label

\* The loop's LoopResult: `steps' is n_steps.
Return(reason, steps) ==
    result' = [reason |-> reason, nSteps |-> steps, nCommands |-> nCommands,
               nErrors |-> nErrors, tokens |-> tokens]

\* Mutant: the wall clock is forgotten.
Exhausted_StepsOnly == step >= MaxSteps

\* Budgets.exhausted_reason(step) is not None.
Exhausted == step >= MaxSteps \/ elapsed >= WallClock

\* "done and command is None": the only answer that ends the loop.
Finishing == reply.parsed /\ reply.done /\ reply.command = NoCommand

\* Which branch of the loop body takes the answer.
Branch ==
    CASE ~reply.parsed -> "reject"
      [] Finishing -> "finish"
      [] reply.parsed /\ ~reply.done /\ reply.command = NoCommand -> "idle"
      [] OTHER -> "issue"

-----------------------------------------------------------------------------
(* Top of the loop, and the model call *)

\* The task object is written before the first turn.
AddTask ==
    /\ pc = "begin" /\ Goto("top")
    /\ UNCHANGED <<log, graphVars, step, attempt, reply, outcome, paths, counterVars,
                   result, turns, ran, elapsed>>

\* Mutant: the event is logged and the turn is taken all the same.
BudgetExhausted_GoesOn ==
    /\ pc = "top" /\ Exhausted
    /\ Emit("budget_exhausted", "none")
    /\ Goto("call")
    /\ UNCHANGED <<graphVars, step, attempt, reply, outcome, paths, counterVars, result,
                   turns, ran, elapsed>>

BudgetExhausted ==
    /\ pc = "top" /\ Exhausted
    /\ Emit("budget_exhausted", "none")
    /\ Return("budget_exhausted", step)
    /\ Goto("returned")
    /\ UNCHANGED <<graphVars, step, attempt, reply, outcome, paths, counterVars, turns, ran,
                   elapsed>>

\* context_builder(...): reads the log and appends its audit event.
BuildContext ==
    /\ pc = "top" /\ ~Exhausted
    /\ Emit("context_built", "none")
    /\ attempt' = 0
    /\ Goto("call")
    /\ UNCHANGED <<graphVars, step, reply, outcome, paths, counterVars, result, turns, ran,
                   elapsed>>

\* Mutant: off by one, the last attempt is tried again too.
CallFails_OneMore ==
    /\ pc = "call"
    /\ \E d \in CallTimes : elapsed' = elapsed + d
    /\ Emit("llm_retry", "none")
    /\ Goto(IF attempt <= MaxRetries THEN "backoff" ELSE "fatal")
    /\ UNCHANGED <<graphVars, step, attempt, reply, outcome, paths, counterVars, result,
                   turns, ran>>

\* A retryable failure: 429, 5xx or a lost connection.  The event is logged
\* on the last attempt too; only the earlier ones sleep and try again.
CallFails ==
    /\ pc = "call"
    /\ \E d \in CallTimes : elapsed' = elapsed + d
    /\ Emit("llm_retry", "none")
    /\ Goto(IF attempt < MaxRetries THEN "backoff" ELSE "fatal")
    /\ UNCHANGED <<graphVars, step, attempt, reply, outcome, paths, counterVars, result,
                   turns, ran>>

Backoff ==
    /\ pc = "backoff"
    /\ elapsed' = elapsed + RetryDelay[attempt]
    /\ attempt' = attempt + 1
    /\ Goto("call")
    /\ UNCHANGED <<log, graphVars, step, reply, outcome, paths, counterVars, result, turns,
                   ran>>

\* Any other exception of complete(): a status that is not retryable, or the
\* store refusing the llm_retry event.
CallRejected ==
    /\ pc = "call"
    /\ \E d \in CallTimes : elapsed' = elapsed + d
    /\ Goto("fatal")
    /\ UNCHANGED <<log, graphVars, step, attempt, reply, outcome, paths, counterVars,
                   result, turns, ran>>

CallAnswered ==
    /\ pc = "call"
    /\ \E d \in CallTimes : elapsed' = elapsed + d
    /\ \E r \in Replies : reply' = r /\ tokens' = tokens + r.tokens
    /\ Goto("turn")
    /\ UNCHANGED <<log, graphVars, step, attempt, outcome, paths, failures, previousStep,
                   nCommands, nErrors, result, turns, ran>>

\* except Exception: count it, log it, re-raise.
FatalError ==
    /\ pc = "fatal"
    /\ nErrors' = nErrors + 1
    /\ Emit("error_raised", "fatal")
    /\ Goto("fatalobj")
    /\ UNCHANGED <<graphVars, step, attempt, reply, outcome, paths, failures, previousStep,
                   nCommands, tokens, result, turns, ran, elapsed>>

FatalErrorObject ==
    /\ pc = "fatalobj"
    /\ errorObjs' = Append(errorObjs, [kind |-> "LLMError", observation |-> 0])
    /\ Goto("raised")
    /\ UNCHANGED <<log, stepObjs, commandObjs, observationObjs, files, touches, step,
                   attempt, reply, outcome, paths, counterVars, result, turns, ran,
                   elapsed>>

-----------------------------------------------------------------------------
(* The answer: parsed, logged, and dispatched *)

ModelTurn ==
    /\ pc = "turn"
    /\ failures' = IF reply.parsed THEN 0 ELSE failures + 1
    /\ Emit("model_turn", IF reply.parsed THEN "parsed" ELSE "parse_failed")
    /\ Goto("step")
    /\ UNCHANGED <<graphVars, step, attempt, reply, outcome, paths, previousStep, nCommands,
                   nErrors, tokens, result, turns, ran, elapsed>>

\* Mutant: previous_step_id keeps the step it had.
AddStep_StalePrevious ==
    /\ pc = "step"
    /\ stepObjs' = Append(stepObjs, [index |-> step, follows |-> previousStep])
    /\ previousStep' = IF previousStep = 0 THEN 1 ELSE previousStep
    /\ Goto(Branch)
    /\ UNCHANGED <<log, commandObjs, observationObjs, errorObjs, files, touches, step,
                   attempt, reply, outcome, paths, failures, nCommands, nErrors, tokens,
                   result, turns, ran, elapsed>>

\* The step object, with its follows edge from the previous turn's step.
AddStep ==
    /\ pc = "step"
    /\ stepObjs' = Append(stepObjs, [index |-> step, follows |-> previousStep])
    /\ previousStep' = Len(stepObjs) + 1
    /\ Goto(Branch)
    /\ UNCHANGED <<log, commandObjs, observationObjs, errorObjs, files, touches, step,
                   attempt, reply, outcome, paths, failures, nCommands, nErrors, tokens,
                   result, turns, ran, elapsed>>

\* Mutant: the second failure in a row is logged nowhere.
ParseFailed_Silent ==
    /\ pc = "reject"
    /\ nErrors' = nErrors + 1
    /\ IF failures >= 2
         THEN failures' = 0 /\ UNCHANGED log
         ELSE Emit("parse_error", "parse_failed") /\ UNCHANGED failures
    /\ Goto("rejectobj")
    /\ UNCHANGED <<graphVars, step, attempt, reply, outcome, paths, previousStep, nCommands,
                   tokens, result, turns, ran, elapsed>>

\* Mutant: the counter is not restarted after the no-op turn.
ParseFailed_NoRestart ==
    /\ pc = "reject"
    /\ nErrors' = nErrors + 1
    /\ Emit(IF failures >= 2 THEN "noop_turn" ELSE "parse_error", "parse_failed")
    /\ Goto("rejectobj")
    /\ UNCHANGED <<graphVars, step, attempt, reply, outcome, paths, failures, previousStep,
                   nCommands, tokens, result, turns, ran, elapsed>>

\* The first failure in a row asks again; the second one is a no-op turn and
\* starts the count afresh.
ParseFailed ==
    /\ pc = "reject"
    /\ nErrors' = nErrors + 1
    /\ IF failures >= 2
         THEN Emit("noop_turn", "parse_failed") /\ failures' = 0
         ELSE Emit("parse_error", "parse_failed") /\ UNCHANGED failures
    /\ Goto("rejectobj")
    /\ UNCHANGED <<graphVars, step, attempt, reply, outcome, paths, previousStep, nCommands,
                   tokens, result, turns, ran, elapsed>>

\* Mutant: `continue' before the turn is handed over.
ParseErrorObject_Unrecorded ==
    /\ pc = "rejectobj"
    /\ errorObjs' = Append(errorObjs, [kind |-> "ParseError", observation |-> 0])
    /\ step' = step + 1
    /\ Goto("top")
    /\ UNCHANGED <<log, stepObjs, commandObjs, observationObjs, files, touches, attempt,
                   reply, outcome, paths, counterVars, result, turns, ran, elapsed>>

ParseErrorObject ==
    /\ pc = "rejectobj"
    /\ errorObjs' = Append(errorObjs, [kind |-> "ParseError", observation |-> 0])
    /\ Goto("record")
    /\ UNCHANGED <<log, stepObjs, commandObjs, observationObjs, files, touches, step,
                   attempt, reply, outcome, paths, counterVars, result, turns, ran,
                   elapsed>>

TaskFinished ==
    /\ pc = "finish"
    /\ Emit("task_finished", "none")
    /\ Goto("record")
    /\ UNCHANGED <<graphVars, step, attempt, reply, outcome, paths, counterVars, result,
                   turns, ran, elapsed>>

\* No command, and not done.
IdleTurn ==
    /\ pc = "idle"
    /\ Emit("noop_turn", "none")
    /\ Goto("record")
    /\ UNCHANGED <<graphVars, step, attempt, reply, outcome, paths, counterVars, result,
                   turns, ran, elapsed>>

-----------------------------------------------------------------------------
(* The command: issued, executed, observed *)

\* Mutant: the command is sent before its object is written.
AddCommand_RunsFirst ==
    /\ pc = "issue"
    /\ IF Len(ran) = Len(commandObjs)
         THEN ran' = Append(ran, reply.command) /\ UNCHANGED <<commandObjs, pc>>
         ELSE /\ commandObjs' =
                   Append(commandObjs, [step |-> previousStep, text |-> reply.command])
              /\ Goto("exec")
              /\ UNCHANGED ran
    /\ UNCHANGED <<log, stepObjs, observationObjs, errorObjs, files, touches, step, attempt,
                   reply, outcome, paths, counterVars, result, turns, elapsed>>

AddCommand ==
    /\ pc = "issue"
    /\ commandObjs' = Append(commandObjs, [step |-> previousStep, text |-> reply.command])
    /\ paths' = FilesOf[reply.command]
    /\ Goto("files")
    /\ UNCHANGED <<log, stepObjs, observationObjs, errorObjs, files, touches, step, attempt,
                   reply, outcome, counterVars, result, turns, ran, elapsed>>

Recorded(p) == \E i \in DOMAIN files : files[i] = p

\* Mutant: every mention of a path makes a file object of its own.
AddFile_NoReuse ==
    /\ pc = "files" /\ paths # <<>>
    /\ files' = Append(files, Head(paths))
    /\ touches' = touches \cup {<<Len(commandObjs), Head(paths)>>}
    /\ paths' = Tail(paths)
    /\ UNCHANGED <<log, stepObjs, commandObjs, observationObjs, errorObjs, pc, step,
                   attempt, reply, outcome, counterVars, result, turns, ran, elapsed>>

\* One path of add_file_objects: a path seen before keeps its object.
AddFile ==
    /\ pc = "files" /\ paths # <<>>
    /\ files' = IF Recorded(Head(paths)) THEN files ELSE Append(files, Head(paths))
    /\ touches' = touches \cup {<<Len(commandObjs), Head(paths)>>}
    /\ paths' = Tail(paths)
    /\ UNCHANGED <<log, stepObjs, commandObjs, observationObjs, errorObjs, pc, step,
                   attempt, reply, outcome, counterVars, result, turns, ran, elapsed>>

\* environment.exec is called and the coroutine suspends.
StartCommand ==
    /\ pc = "files" /\ paths = <<>>
    /\ ran' = Append(ran, reply.command)
    /\ Goto("exec")
    /\ UNCHANGED <<log, graphVars, step, attempt, reply, outcome, paths, counterVars,
                   result, turns, elapsed>>

\* Mutant: the container takes one command and never ends a second one.
CommandEnds_OnlyOnce ==
    /\ pc = "exec" /\ Len(ran) = 1
    /\ \E d \in CommandTimes : elapsed' = elapsed + d
    /\ outcome' \in Outcomes
    /\ nCommands' = nCommands + 1
    /\ Goto("executed")
    /\ UNCHANGED <<log, graphVars, step, attempt, reply, paths, failures, previousStep,
                   nErrors, tokens, result, turns, ran>>

\* exec returned a code, or raised (a timeout, docker gone): not fatal.
CommandEnds ==
    /\ pc = "exec"
    /\ \E d \in CommandTimes : elapsed' = elapsed + d
    /\ outcome' \in Outcomes
    /\ nCommands' = nCommands + 1
    /\ Goto("executed")
    /\ UNCHANGED <<log, graphVars, step, attempt, reply, paths, failures, previousStep,
                   nErrors, tokens, result, turns, ran>>

CommandExecuted ==
    /\ pc = "executed"
    /\ Emit("command_executed", outcome)
    /\ Goto("observe")
    /\ UNCHANGED <<graphVars, step, attempt, reply, outcome, paths, counterVars, result,
                   turns, ran, elapsed>>

OutputObserved ==
    /\ pc = "observe"
    /\ Emit("output_observed", outcome)
    /\ Goto("observation")
    /\ UNCHANGED <<graphVars, step, attempt, reply, outcome, paths, counterVars, result,
                   turns, ran, elapsed>>

AddObservation ==
    /\ pc = "observation"
    /\ observationObjs' =
         Append(observationObjs, [command |-> Len(commandObjs), outcome |-> outcome])
    /\ Goto(IF outcome = "zero" THEN "record" ELSE "complain")
    /\ UNCHANGED <<log, stepObjs, commandObjs, errorObjs, files, touches, step, attempt,
                   reply, outcome, paths, counterVars, result, turns, ran, elapsed>>

CommandFailed ==
    /\ pc = "complain"
    /\ nErrors' = nErrors + 1
    /\ Emit("error_raised", "nonfatal")
    /\ Goto("complainobj")
    /\ UNCHANGED <<graphVars, step, attempt, reply, outcome, paths, failures, previousStep,
                   nCommands, tokens, result, turns, ran, elapsed>>

\* Mutant: the error is linked to the first observation, not to its own.
CommandErrorObject_FirstObservation ==
    /\ pc = "complainobj"
    /\ errorObjs' = Append(errorObjs,
         [kind |-> IF outcome = "exec_error" THEN "ExecError" ELSE "NonZeroExit",
          observation |-> 1])
    /\ Goto("record")
    /\ UNCHANGED <<log, stepObjs, commandObjs, observationObjs, files, touches, step,
                   attempt, reply, outcome, paths, counterVars, result, turns, ran,
                   elapsed>>

CommandErrorObject ==
    /\ pc = "complainobj"
    /\ errorObjs' = Append(errorObjs,
         [kind |-> IF outcome = "exec_error" THEN "ExecError" ELSE "NonZeroExit",
          observation |-> Len(observationObjs)])
    /\ Goto("record")
    /\ UNCHANGED <<log, stepObjs, commandObjs, observationObjs, files, touches, step,
                   attempt, reply, outcome, paths, counterVars, result, turns, ran,
                   elapsed>>

-----------------------------------------------------------------------------
(* The end of a turn *)

\* record_turn(TurnRecord(...)): the callback has the record even if it raises.
HandOver ==
    turns' = Append(turns, [step |-> step, command |-> reply.command, done |-> reply.done,
                            parseFailed |-> ~reply.parsed, tokens |-> reply.tokens])

\* Mutant: n_steps of a finished task leaves out the finishing turn.
RecordTurn_OneShort ==
    /\ pc = "record"
    /\ HandOver
    /\ IF Finishing
         THEN Return("task_finished", step) /\ Goto("returned") /\ UNCHANGED step
         ELSE step' = step + 1 /\ Goto("top") /\ UNCHANGED result
    /\ UNCHANGED <<log, graphVars, attempt, reply, outcome, paths, counterVars, ran,
                   elapsed>>

\* step += 1 and around again, or the return of a finished task.
RecordTurn ==
    /\ pc = "record"
    /\ HandOver
    /\ IF Finishing
         THEN Return("task_finished", step + 1) /\ Goto("returned") /\ UNCHANGED step
         ELSE step' = step + 1 /\ Goto("top") /\ UNCHANGED result
    /\ UNCHANGED <<log, graphVars, attempt, reply, outcome, paths, counterVars, ran,
                   elapsed>>

\* The callback raises (it writes trajectory.json): nothing here catches it.
RecordRaises ==
    /\ pc = "record"
    /\ HandOver
    /\ Goto("raised")
    /\ UNCHANGED <<log, graphVars, step, attempt, reply, outcome, paths, counterVars,
                   result, ran, elapsed>>

\* A write of the store raises before it is durable.
StoreFails ==
    /\ pc \in Writing /\ ~(pc = "files" /\ paths = <<>>)
    /\ Goto("raised")
    /\ UNCHANGED <<log, graphVars, step, attempt, reply, outcome, paths, counterVars,
                   result, turns, ran, elapsed>>

\* CancelledError reaches the coroutine where it is suspended (asyncio.wait_for
\* around the agent).  It is no Exception: no handler of the loop sees it.
Cancel ==
    /\ pc \in Awaiting
    /\ Goto("cancelled")
    /\ UNCHANGED <<log, graphVars, step, attempt, reply, outcome, paths, counterVars,
                   result, turns, ran, elapsed>>

-----------------------------------------------------------------------------
(* Specification *)

\* What the coroutine does when nothing outside it fails.
Proceed ==
    \/ AddTask \/ BudgetExhausted \/ BuildContext
    \/ CallFails \/ Backoff \/ CallRejected \/ CallAnswered
    \/ FatalError \/ FatalErrorObject
    \/ ModelTurn \/ AddStep \/ ParseFailed \/ ParseErrorObject \/ TaskFinished \/ IdleTurn
    \/ AddCommand \/ AddFile \/ StartCommand \/ CommandEnds \/ CommandExecuted
    \/ OutputObserved \/ AddObservation \/ CommandFailed \/ CommandErrorObject
    \/ RecordTurn

LoopStep == Proceed \/ RecordRaises \/ StoreFails \/ Cancel

Terminated == pc \in Final /\ UNCHANGED loopVars

Next == LoopStep \/ Terminated

Spec == Init /\ [][Next]_loopVars

-----------------------------------------------------------------------------
(* Correctness *)

\* Where the events of some types of turn s stand in a log, and in this one.
EventsIn(l, types, s) == {i \in DOMAIN l : l[i].type \in types /\ l[i].step = s}
EventsOf(types, s) == EventsIn(log, types, s)
Count(types) == Cardinality({i \in DOMAIN log : log[i].type \in types})

\* Turn s has one model_turn and, after it, one feedback event.
AnsweredIn(l, s) ==
    \E i, j \in DOMAIN l :
        /\ i < j
        /\ EventsIn(l, {"model_turn"}, s) = {i}
        /\ EventsIn(l, FeedbackTypes, s) = {j}

\* Every finished turn shows up in the log as exactly one model_turn and, after
\* it, exactly one feedback event: what _project_exchanges pairs up (context.py)
\* and what the next turn's prompt is made of.
ExactlyOneFeedback == \A s \in 0..(step - 1) : AnsweredIn(log, s)

\* The model is told "your previous two responses could not be parsed" only when
\* the turn before was told its response could not be parsed, and it is never
\* told that twice in a row: the counter of run_loop restarts after a no-op.
FailuresAlternate ==
    \A i \in DOMAIN log :
        LET before == EventsOf({"parse_error"}, log[i].step - 1)
        IN  /\ log[i].type = "noop_turn" /\ log[i].note = "parse_failed" => before # {}
            /\ log[i].type = "parse_error" => before = {}

\* The container never runs a command the graph does not already hold, in the
\* same order, and at most one command has run without its command_executed
\* event: what a crash or a cancellation in the middle of a turn can lose.
CommandsWrittenAhead ==
    /\ Len(ran) <= Len(commandObjs) /\ Len(commandObjs) <= Len(ran) + 1
    /\ \A i \in DOMAIN ran : ran[i] = commandObjs[i].text
    /\ Len(ran) - Count({"command_executed"}) \in 0..1

\* The typed graph says the same as the log: the steps form one follows chain,
\* no step issues two commands, and following produced and issued from an
\* observation leads to the step whose output_observed event it was made from.
GraphProjectsLog ==
    /\ \A k \in DOMAIN stepObjs : stepObjs[k] = [index |-> k - 1, follows |-> k - 1]
    /\ \A k, l \in DOMAIN commandObjs : commandObjs[k].step = commandObjs[l].step => k = l
    /\ \A k \in DOMAIN observationObjs :
         LET o == observationObjs[k]
             s == stepObjs[commandObjs[o.command].step]
         IN  \E i \in EventsOf({"output_observed"}, s.index) : log[i].note = o.outcome

\* The chain v2 follows from an error object: a command's error is contained in
\* one observation of a failed command, no observation has two errors, and every
\* failed command but the one being handled has its error.
ErrorChains ==
    LET commandErrors == {e \in DOMAIN errorObjs : errorObjs[e].observation # 0}
        blamed == {errorObjs[e].observation : e \in commandErrors}
        failed == {k \in DOMAIN observationObjs : observationObjs[k].outcome # "zero"}
    IN  /\ blamed \subseteq failed
        /\ Cardinality(blamed) = Cardinality(commandErrors)
        /\ failed \ blamed \subseteq {Len(observationObjs)}
        /\ pc \in {"record", "top", "returned"} => failed = blamed
        /\ \A e \in commandErrors :
             errorObjs[e].kind = "ExecError"
               <=> observationObjs[errorObjs[e].observation].outcome = "exec_error"

\* One retry too many is never made, and a turn that got its answer logged at
\* most MAX_RETRIES failures of that turn's call.
RetriesBounded ==
    \A s \in 0..step :
        LET retries == Cardinality(EventsOf({"llm_retry"}, s))
        IN  /\ retries <= MaxRetries + 1
            /\ EventsOf({"model_turn"}, s) # {} => retries <= MaxRetries

\* A terminal event, or a fatal error, is the last thing in the log, whatever
\* the loop still does before it returns or raises.
TerminalIsLast ==
    \A i \in DOMAIN log :
        log[i].type \in TerminalTypes \/ log[i].note = "fatal" => i = Len(log)

\* record_turn has been handed every logged turn but at most the current one,
\* and all of them whenever the loop stands at the top or has returned.
RecorderLag ==
    LET missing == Count({"model_turn"}) - Len(turns)
    IN  /\ missing \in 0..1
        /\ pc \in {"top", "call", "backoff", "returned"} => missing = 0

\* The totals of the LoopResult are those of the log, the graph and the records.
ResultMatchesLog ==
    pc = "returned" =>
        /\ log[Len(log)].type = result.reason
        /\ result.nSteps = Count({"model_turn"})
        /\ result.nCommands = Count({"command_executed"})
        /\ result.nErrors = Len(errorObjs)
        /\ result.nErrors = Cardinality({i \in DOMAIN log : log[i].type = "error_raised"})
                              + Cardinality({i \in DOMAIN turns : turns[i].parseFailed})
        /\ result.nSteps <= MaxSteps

\* The longest a turn can take: every attempt of the call, the backoffs between
\* them and one command.
LongestOf(times) == CHOOSE t \in times : \A u \in times : u <= t
BackoffsBefore[a \in 0..MaxRetries] ==
    IF a = 0 THEN 0 ELSE BackoffsBefore[a - 1] + RetryDelay[a - 1]
TurnBound ==
    (MaxRetries + 1) * LongestOf(CallTimes) + BackoffsBefore[MaxRetries]
      + LongestOf(CommandTimes)

\* The soft budget is looked at between turns only, so the loop overruns it by
\* at most one whole turn.
OverrunBounded == elapsed > 0 => elapsed < WallClock + TurnBound
=============================================================================
