-------------------------------- MODULE Trial --------------------------------
(***************************************************************************)
(* One Harbor trial: ActiveGraphAgent.run of agent.py around the ReAct     *)
(* loop, with the trajectory recorder that the loop calls back and the     *)
(* artifacts written when the trial ends.                                  *)
(*                                                                         *)
(* The trial adds to ReactLoop what surrounds it: opening the store,       *)
(* task_started, building the client, and the finally block that exports   *)
(* the log, writes the summary, closes the store, fills in Harbor's        *)
(* context and dumps the trajectory.  Any of these may raise.  The process *)
(* may also die (Kill): then the store and the files are all that is left. *)
(***************************************************************************)
EXTENDS ReactLoop

VARIABLES
    phase,       \* where run() stands
    loopEnd,     \* how run_loop ended: loop_result, or what came out of it
    recorder,    \* _TrajectoryRecorder: n_turns, n_commands, total tokens
    harbor,      \* AgentContext: the token totals Harbor reads
    trajectory,  \* trajectory.json: how many steps it holds
    exported,    \* event_log.json: how many events it holds
    summary,     \* summary.json
    metadata,    \* context.metadata
    storeOpen,   \* the sqlite store is open
    broken       \* artifacts whose own write raised (history)

agentVars == <<phase, loopEnd, recorder, harbor, trajectory, exported, summary, metadata,
               storeOpen, broken>>
trialVars == <<loopVars, agentVars>>

Absent == -1   \* the file does not exist
Torn   == -2   \* the file was truncated and not written again

Artifacts == {"export", "summary", "trajectory"}

\* finish_reason, fatal_error (as: is it set), steps, commands, errors (Absent:
\* None), tokens, and two of the event_counts that write_summary adds.
NoSummary == [finish |-> "none", fatal |-> FALSE, steps |-> 0, commands |-> 0,
              errors |-> Absent, tokens |-> 0, modelTurns |-> 0, executed |-> 0]
NoMetadata == [finish |-> "none", fatal |-> FALSE, steps |-> 0, events |-> 0]

Reasons == {"none", "fatal_error"} \cup TerminalTypes

TrialTypeOK ==
    /\ TypeOK
    /\ phase \in {"open", "start", "client", "loop", "export", "summary", "close",
                  "abandon", "finish", "over", "killed"}
    /\ loopEnd \in {"none", "result", "exception", "cancelled"}
    /\ recorder \in [turns : Nat, commands : Nat, tokens : Nat]
    /\ harbor \in Nat
    /\ trajectory \in Nat \cup {Absent, Torn}
    /\ exported \in Nat \cup {Absent, Torn}
    /\ summary.finish \in Reasons /\ metadata.finish \in Reasons
    /\ storeOpen \in BOOLEAN
    /\ broken \subseteq Artifacts

TrialInit ==
    /\ Init
    /\ phase = "open" /\ loopEnd = "none"
    /\ recorder = [turns |-> 0, commands |-> 0, tokens |-> 0]
    /\ harbor = 0
    /\ trajectory = Absent /\ exported = Absent
    /\ summary = NoSummary /\ metadata = NoMetadata
    /\ storeOpen = FALSE /\ broken = {}

-----------------------------------------------------------------------------
(* Before the loop *)

\* resolve_model names another provider, or the store cannot be opened.
RefuseTrial ==
    /\ phase = "open" /\ phase' = "over"
    /\ UNCHANGED <<loopVars, loopEnd, recorder, harbor, trajectory, exported, summary,
                   metadata, storeOpen, broken>>

OpenLog ==
    /\ phase = "open" /\ phase' = "start"
    /\ storeOpen' = TRUE
    /\ UNCHANGED <<loopVars, loopEnd, recorder, harbor, trajectory, exported, summary,
                   metadata, broken>>

\* task_started is appended before the try: if that raises, there is no
\* finally, no export, and nobody closes the store.
TaskStarted ==
    /\ phase = "start"
    /\ \/ Emit("task_started", "none") /\ phase' = "client"
       \/ UNCHANGED log /\ phase' = "over"
    /\ UNCHANGED <<graphVars, pc, step, attempt, reply, outcome, paths, counterVars, result,
                   turns, ran, elapsed, loopEnd, recorder, harbor, trajectory, exported,
                   summary, metadata, storeOpen, broken>>

\* import_class and the client's constructor (no API key: LLMError).
BuildClient ==
    /\ phase = "client"
    /\ \/ phase' = "loop" /\ UNCHANGED loopEnd
       \/ phase' = "export" /\ loopEnd' = "exception"
    /\ UNCHANGED <<loopVars, recorder, harbor, trajectory, exported, summary, metadata,
                   storeOpen, broken>>

-----------------------------------------------------------------------------
(* The loop, and the recorder it calls back *)

InnerStep ==
    /\ phase = "loop" /\ pc # "record"
    /\ LoopStep
    /\ UNCHANGED agentVars

\* _TrajectoryRecorder.record: its totals, then Harbor's context.
Count1(command) == IF command = NoCommand THEN 0 ELSE 1

\* Mutant: a turn that could not be parsed is not counted.
Mirror_ParsedOnly ==
    /\ recorder' = [turns    |-> recorder.turns + (IF reply.parsed THEN 1 ELSE 0),
                    commands |-> recorder.commands + Count1(reply.command),
                    tokens   |-> recorder.tokens + reply.tokens]
    /\ harbor' = recorder.tokens + reply.tokens

\* Mutant: Harbor is given the tokens of the last turn, not the total.
Mirror_LastTurn ==
    /\ recorder' = [turns    |-> recorder.turns + 1,
                    commands |-> recorder.commands + Count1(reply.command),
                    tokens   |-> recorder.tokens + reply.tokens]
    /\ harbor' = reply.tokens

Mirror ==
    /\ recorder' = [turns    |-> recorder.turns + 1,
                    commands |-> recorder.commands + Count1(reply.command),
                    tokens   |-> recorder.tokens + reply.tokens]
    /\ harbor' = recorder.tokens + reply.tokens

\* record ends with dump: the user step and one step per recorded turn.
TurnRecorded ==
    /\ phase = "loop"
    /\ RecordTurn /\ Mirror
    /\ trajectory' = 1 + recorder.turns + 1
    /\ UNCHANGED <<phase, loopEnd, exported, summary, metadata, storeOpen, broken>>

\* dump raises: the file was not opened, or was truncated and not written.
TurnRecordFails ==
    /\ phase = "loop"
    /\ RecordRaises /\ Mirror
    /\ trajectory' \in {trajectory, Torn}
    /\ UNCHANGED <<phase, loopEnd, exported, summary, metadata, storeOpen, broken>>

\* Mutant: the clean-up stands in `except Exception', which CancelledError passes.
LoopEnds_NoFinally ==
    /\ phase = "loop" /\ pc \in Final
    /\ loopEnd' = CASE pc = "returned" -> "result"
                    [] pc = "raised" -> "exception"
                    [] OTHER -> "cancelled"
    /\ phase' = IF pc = "cancelled" THEN "over" ELSE "export"
    /\ UNCHANGED <<loopVars, recorder, harbor, trajectory, exported, summary, metadata,
                   storeOpen, broken>>

\* run_loop returned or something came out of it: into the finally block.
LoopEnds ==
    /\ phase = "loop" /\ pc \in Final
    /\ loopEnd' = CASE pc = "returned" -> "result"
                    [] pc = "raised" -> "exception"
                    [] OTHER -> "cancelled"
    /\ phase' = "export"
    /\ UNCHANGED <<loopVars, recorder, harbor, trajectory, exported, summary, metadata,
                   storeOpen, broken>>

-----------------------------------------------------------------------------
(* The finally block *)

\* Mutant: a trial without a loop_result is taken for a finished one.
FinishReason_Default ==
    IF loopEnd = "result" THEN result.reason ELSE "task_finished"

\* finish_reason, and whether fatal_error is set: the same two expressions are
\* evaluated for the summary and for the metadata.
FinishReason == IF loopEnd = "result" THEN result.reason ELSE "fatal_error"
HasFatal     == loopEnd = "exception"

\* export_log reads the durable store.
ExportLog ==
    /\ phase = "export" /\ phase' = "summary"
    /\ exported' = Len(log)
    /\ UNCHANGED <<loopVars, loopEnd, recorder, harbor, trajectory, summary, metadata,
                   storeOpen, broken>>

\* Mutant: the store is closed after the exports, not in a finally of its own.
ExportFails_LeavesOpen ==
    /\ phase = "export" /\ phase' = "over"
    /\ exported' \in {exported, Torn}
    /\ broken' = broken \cup {"export"}
    /\ UNCHANGED <<loopVars, loopEnd, recorder, harbor, trajectory, summary, metadata,
                   storeOpen>>

\* The exception leaves the inner try: no summary, and after the close nothing.
ExportFails ==
    /\ phase = "export" /\ phase' = "abandon"
    /\ exported' \in {exported, Torn}
    /\ broken' = broken \cup {"export"}
    /\ UNCHANGED <<loopVars, loopEnd, recorder, harbor, trajectory, summary, metadata,
                   storeOpen>>

WriteSummary ==
    /\ phase = "summary" /\ phase' = "close"
    /\ summary' = [finish |-> FinishReason, fatal |-> HasFatal,
                   steps |-> recorder.turns, commands |-> recorder.commands,
                   errors |-> IF loopEnd = "result" THEN result.nErrors ELSE Absent,
                   tokens |-> recorder.tokens,
                   modelTurns |-> Count({"model_turn"}),
                   executed |-> Count({"command_executed"})]
    /\ UNCHANGED <<loopVars, loopEnd, recorder, harbor, trajectory, exported, metadata,
                   storeOpen, broken>>

SummaryFails ==
    /\ phase = "summary" /\ phase' = "abandon"
    /\ broken' = broken \cup {"summary"}
    /\ UNCHANGED <<loopVars, loopEnd, recorder, harbor, trajectory, exported, summary,
                   metadata, storeOpen>>

\* close_trial_log, after both exports or on the way out with their exception.
CloseLog ==
    /\ phase \in {"close", "abandon"}
    /\ phase' = IF phase = "close" THEN "finish" ELSE "over"
    /\ storeOpen' = FALSE
    /\ UNCHANGED <<loopVars, loopEnd, recorder, harbor, trajectory, exported, summary,
                   metadata, broken>>

\* context.metadata, then the last dump.
Finish ==
    /\ phase = "finish" /\ phase' = "over"
    /\ metadata' = [finish |-> FinishReason, fatal |-> HasFatal,
                    steps |-> recorder.turns, events |-> exported]
    /\ \/ trajectory' = 1 + recorder.turns /\ UNCHANGED broken
       \/ trajectory' \in {trajectory, Torn} /\ broken' = broken \cup {"trajectory"}
    /\ UNCHANGED <<loopVars, loopEnd, recorder, harbor, exported, summary, storeOpen>>

\* The process dies; a file that was being written may be left truncated.
Kill ==
    /\ phase \notin {"over", "killed"} /\ phase' = "killed"
    /\ trajectory' \in {trajectory} \cup (IF pc = "record" \/ phase = "finish"
                                           THEN {Torn} ELSE {})
    /\ exported' \in {exported} \cup (IF phase = "export" THEN {Torn} ELSE {})
    /\ UNCHANGED <<loopVars, loopEnd, recorder, harbor, summary, metadata, storeOpen,
                   broken>>

TrialOver == phase \in {"over", "killed"} /\ UNCHANGED trialVars

\* What the coroutine itself does, whatever comes of it.
RunStep ==
    \/ RefuseTrial \/ OpenLog \/ TaskStarted \/ BuildClient
    \/ InnerStep \/ TurnRecorded \/ TurnRecordFails \/ LoopEnds
    \/ ExportLog \/ ExportFails \/ WriteSummary \/ SummaryFails \/ CloseLog \/ Finish

TrialNext == RunStep \/ Kill \/ TrialOver

TrialSpec == TrialInit /\ [][TrialNext]_trialVars

\* The event loop runs a ready coroutine, and every request, command and sleep
\* it waits for ends within its own timeout: run() need not be cancelled to go
\* on, and nothing is said of Kill.
OwnStep == RunStep /\ (pc' = "cancelled" => pc = "cancelled")

FairTrialSpec == TrialSpec /\ WF_trialVars(OwnStep)

-----------------------------------------------------------------------------
(* Correctness *)

Started == log # <<>>

\* What summary.json says of the trial agrees with the log it lies next to: the
\* recorder's counts are at most one turn behind the event counts, and where
\* the loop returned they are the loop's own, tokens and errors included.
SummaryAgrees ==
    summary.finish # "none" =>
        /\ summary.modelTurns - summary.steps \in 0..1
        /\ summary.executed - summary.commands \in 0..1
        /\ summary.finish # "fatal_error" =>
             /\ summary.steps = summary.modelTurns
             /\ summary.commands = summary.executed
             /\ summary.tokens = result.tokens
             /\ summary.errors = result.nErrors

\* A finish reason other than fatal_error is the last event of the log, the
\* metadata repeats the summary, and a fatal_error without a cause is only ever
\* a cancelled trial.
FinishReasonHonest ==
    /\ summary.finish \in TerminalTypes => log[Len(log)].type = summary.finish
    /\ metadata.finish # "none" =>
         metadata.finish = summary.finish /\ metadata.fatal = summary.fatal
    /\ summary.finish = "fatal_error" /\ ~summary.fatal => pc = "cancelled"

\* However a started trial ends short of the process dying (done, out of budget,
\* an exception, Harbor's cancellation), the export holds the whole log, the
\* trajectory every turn, and the summary is there, unless a write of these
\* files itself raised.
ArtifactsComplete ==
    phase = "over" /\ Started /\ broken = {} =>
        /\ exported = Len(log)
        /\ summary.finish # "none"
        /\ trajectory = 1 + Len(turns)

\* Once task_started is in the log, run() never leaves the store open.
StoreClosed == phase = "over" /\ Started => ~storeOpen

\* The statements between an answer and the record of its turn.
InTurn == (Writing \ {"begin", "top", "fatal", "fatalobj"}) \cup {"exec", "record"}

\* The tokens Harbor is shown are the tokens billed, but for the answer whose
\* turn is not recorded yet: a trial that dies or is cancelled loses one at most.
TokensLag ==
    \/ tokens = harbor /\ pc \notin InTurn
    \/ tokens = harbor + reply.tokens /\ pc \in InTurn \cup {"raised", "cancelled"}

\* However the loop ends, and whatever the exports raise, run() comes to its end
\* with its store closed again, unless the process dies on the way or the store
\* refuses the very first event.
CleanedUp == storeOpen ~> (~storeOpen \/ phase = "killed" \/ log = <<>>)
=============================================================================
