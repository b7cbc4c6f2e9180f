---------------------------- MODULE ReactLoopInv ----------------------------
(***************************************************************************)
(* The inductive invariant of ReactLoop: what holds of the log, the        *)
(* counters and the answer in hand at each statement of the loop, strong   *)
(* enough to be preserved by every step.  MCReactLoop checks it with TLC,  *)
(* ReactLoopProofs proves it.                                              *)
(***************************************************************************)
EXTENDS ReactLoop

\* The statements of a turn, in groups: before the model_turn event, after it,
\* and after the feedback event.
BeforeTurn    == {"begin", "top", "call", "backoff", "fatal", "fatalobj", "turn"}
AfterTurn     == {"step", "reject", "finish", "idle", "issue", "files", "exec", "executed",
                  "observe"}
AfterFeedback == {"rejectobj", "observation", "complain", "complainobj"}

\* The answer in hand is the one its branch was chosen for.
BranchTaken ==
    /\ pc \in {"reject", "rejectobj"} => ~reply.parsed
    /\ pc \in {"idle", "issue", "files", "exec", "executed"} \cup
              {"observe", "observation", "complain", "complainobj"} =>
         reply.parsed /\ ~Finishing
    /\ pc = "finish" => Finishing
    /\ pc \in {"issue", "files"} => reply.command \in Commands

\* The counters are within their bounds, and the bounds a step relies on hold.
CountersBounded ==
    /\ pc \notin {"begin", "top"} \cup Final => step < MaxSteps
    /\ pc = "backoff" => attempt < MaxRetries

\* No event is stamped with a step that is yet to come.
StepsBounded == \A i \in DOMAIN log : log[i].step <= step

\* What the log holds of the turn being taken.
Silent == EventsOf({"model_turn"}, step) = {} /\ EventsOf(FeedbackTypes, step) = {}
Waiting ==
    /\ \E i \in DOMAIN log : EventsOf({"model_turn"}, step) = {i}
    /\ EventsOf(FeedbackTypes, step) = {}
CurrentTurn ==
    /\ pc \in BeforeTurn => Silent
    /\ pc \in AfterTurn => Waiting
    /\ pc \in AfterFeedback => AnsweredIn(log, step)
    /\ pc = "record" /\ ~Finishing => AnsweredIn(log, step)

\* consecutive_parse_failures against the log: it is 1 exactly if the turn
\* before (before this turn's answer is judged) or this turn (afterwards) was
\* answered by a parse_error event.
ParseErrorAt(s) == EventsOf({"parse_error"}, s) # {}
FailuresTracked ==
    /\ pc \in BeforeTurn =>
         failures \in 0..1 /\ (failures = 1 <=> ParseErrorAt(step - 1))
    /\ pc \in {"step", "reject"} =>
         IF reply.parsed THEN failures = 0
         ELSE failures \in 1..2 /\ (failures = 2 <=> ParseErrorAt(step - 1))
    /\ pc \in (AfterTurn \ {"step", "reject"}) \cup AfterFeedback \cup {"record"} =>
         failures \in 0..1 /\ (failures = 1 <=> ParseErrorAt(step))

\* A terminal or fatal event is in the log only once nothing can follow it.
TerminalAt(i) == log[i].type \in TerminalTypes \/ log[i].note = "fatal"
TerminalPending ==
    pc \notin {"fatalobj", "returned", "raised"} /\ ~(pc = "record" /\ Finishing) =>
        \A i \in DOMAIN log : ~TerminalAt(i)

IInv ==
    /\ TypeOK
    /\ BranchTaken
    /\ CountersBounded
    /\ StepsBounded
    /\ CurrentTurn
    /\ ExactlyOneFeedback
    /\ FailuresTracked
    /\ FailuresAlternate
    /\ TerminalPending
    /\ TerminalIsLast

-----------------------------------------------------------------------------
(* The ledger of turns the loop implements                                   *)

Happened(type) == \E i \in DOMAIN log : log[i].type = type
StepsWith(types) == {log[i].step : i \in {j \in DOMAIN log : log[j].type \in types}}

\* The turns that were handed over.
Closed == {turns[i].step : i \in DOMAIN turns}

\* How the loop ended: what the log says; without a terminal event it failed.
Ended ==
    IF Happened("task_finished") THEN "finished"
    ELSE IF Happened("budget_exhausted") THEN "exhausted"
    ELSE IF pc \in {"raised", "cancelled"} THEN "failed" ELSE "no"

Ledger == INSTANCE TurnLedger WITH
    MaxTurns <- MaxSteps,
    turn     <- step,
    answered <- StepsWith({"model_turn"}),
    executed <- StepsWith({"command_executed"}),
    told     <- StepsWith(FeedbackTypes),
    closed   <- Closed,
    ended    <- Ended

\* The loop implements the ledger: read through the log and the records alone,
\* every step of it is a step of the ledger or changes nothing there.
ImplementsLedger == Ledger!LedgerSpec

\* Which of its turns were answered, executed, told and handed over agree with
\* each other at every moment, also where the loop was cancelled, raised or died.
TurnsConsistent == Ledger!LedgerConsistent

\* What the refinement needs beyond IInv: the log says that the loop ended only
\* where nothing can follow, it does say so of a finishing turn that is being
\* handed over, and a turn's command is not in the log before it was executed.
EndPending ==
    pc \notin {"returned", "raised"} /\ ~(pc = "record" /\ Finishing) =>
        ~Happened("task_finished") /\ ~Happened("budget_exhausted")
FinishLogged == pc = "record" /\ Finishing => Happened("task_finished")
NotExecuted ==
    pc \in BeforeTurn \cup (AfterTurn \ {"observe"}) =>
        EventsOf({"command_executed"}, step) = {}

LedgerInv == EndPending /\ FinishLogged /\ NotExecuted

-----------------------------------------------------------------------------
(* The counters against the log                                              *)

\* The container has run the commands the graph holds, but for the last one
\* while its files are recorded, and the log tells of those it has run, but for
\* the one that runs.  Where the loop was stopped either may be one behind.
CommandsTracked ==
    /\ CommandsWrittenAhead
    /\ pc \notin {"files", "raised"} => Len(commandObjs) = Len(ran)
    /\ pc = "files" => /\ Len(commandObjs) = Len(ran) + 1
                       /\ commandObjs[Len(commandObjs)].text = reply.command
    /\ pc \notin {"exec", "executed", "raised", "cancelled"} =>
         Len(ran) = Count({"command_executed"})
    /\ pc \in {"exec", "executed"} => Len(ran) = Count({"command_executed"}) + 1

\* The turn being taken is the one that is not handed over, once it is answered.
RecordsTracked ==
    /\ RecorderLag
    /\ pc \in BeforeTurn \cup {"returned"} => Count({"model_turn"}) = Len(turns)
    /\ pc \in AfterTurn \cup AfterFeedback \cup {"record"} =>
         Count({"model_turn"}) = Len(turns) + 1
    /\ pc \notin Final => step = Len(turns)

\* The retries logged of this turn are the attempts that failed.
Retries(s) == Cardinality(EventsOf({"llm_retry"}, s))
RetriesTracked ==
    /\ RetriesBounded
    /\ pc \in {"begin", "top"} => EventsOf({"llm_retry"}, step) = {}
    /\ pc = "call" => Retries(step) = attempt
    /\ pc = "backoff" => Retries(step) = attempt + 1
    /\ pc = "turn" => Retries(step) <= MaxRetries

\* n_commands and n_errors are ahead of what they count between two statements.
Unparsed == {i \in DOMAIN turns : turns[i].parseFailed}
Complaining == pc \in {"fatalobj", "rejectobj", "complainobj"}
Owed == pc = "rejectobj" \/ (pc = "record" /\ ~reply.parsed)
TotalsTracked ==
    pc \notin Final =>
        /\ pc # "executed" => nCommands = Count({"command_executed"})
        /\ pc = "executed" => nCommands = Count({"command_executed"}) + 1
        /\ ~Complaining => nErrors = Len(errorObjs)
        /\ Complaining  => nErrors = Len(errorObjs) + 1
        /\ ~Owed => nErrors = Count({"error_raised"}) + Cardinality(Unparsed)
        /\ Owed  => nErrors = Count({"error_raised"}) + Cardinality(Unparsed) + 1

\* What of the overrun the turn being taken can have used: the requests so far
\* and the backoffs between them, and its command once that has run.
RequestTime(requests) == requests * LongestOf(CallTimes) + BackoffsBefore[attempt]
Ran == {"executed", "observe", "observation", "complain", "complainobj"}
TimeTracked ==
    /\ pc = "begin" => elapsed = 0
    /\ pc \in {"top"} \cup Final => OverrunBounded
    /\ pc = "call" => elapsed < WallClock + RequestTime(attempt)
    /\ pc \notin {"begin", "top", "call"} \cup Final =>
         elapsed < WallClock + RequestTime(attempt + 1) + LongestOf(CommandTimes)
    /\ pc \notin {"begin", "top", "call", "record"} \cup Final \cup Ran =>
         elapsed < WallClock + RequestTime(attempt + 1)

CountInv ==
    /\ CommandsTracked
    /\ RecordsTracked
    /\ RetriesTracked
    /\ TotalsTracked
    /\ ResultMatchesLog

-----------------------------------------------------------------------------
(* The graph                                                                 *)

\* The steps form one chain, as long as the turns that were answered.
StepsChained ==
    /\ \A k \in DOMAIN stepObjs : stepObjs[k] = [index |-> k - 1, follows |-> k - 1]
    /\ previousStep = Len(stepObjs)
    /\ pc \in BeforeTurn \cup {"step"} => Len(stepObjs) = step
    /\ pc \in (AfterTurn \ {"step"}) \cup AfterFeedback \cup {"record"} =>
         Len(stepObjs) = step + 1

\* A step issues one command: this turn's is the last one, once it is written.
CommandsIssued ==
    /\ \A k \in DOMAIN commandObjs : commandObjs[k].step \in DOMAIN stepObjs
    /\ \A k, l \in DOMAIN commandObjs : commandObjs[k].step = commandObjs[l].step => k = l
    /\ pc = "issue" => \A k \in DOMAIN commandObjs : commandObjs[k].step # Len(stepObjs)
    /\ pc \in {"files", "exec", "executed", "observe", "observation"} =>
         commandObjs # <<>> /\ commandObjs[Len(commandObjs)].step = Len(stepObjs)

\* An observation says what an output_observed event of its command's turn says.
ToldOf(o) ==
    \E i \in EventsOf({"output_observed"}, stepObjs[commandObjs[o.command].step].index) :
        log[i].note = o.outcome
ObservationsTold ==
    /\ \A k \in DOMAIN observationObjs : /\ observationObjs[k].command \in DOMAIN commandObjs
                                         /\ ToldOf(observationObjs[k])
    /\ pc = "observation" =>
         \E i \in EventsOf({"output_observed"}, step) : log[i].note = outcome

\* The failed commands are those an error is linked to, but for the one whose
\* error is being written, or was when the loop was stopped.
CommandErrors == {e \in DOMAIN errorObjs : errorObjs[e].observation # 0}
Blamed == {errorObjs[e].observation : e \in CommandErrors}
FailedObservations == {k \in DOMAIN observationObjs : observationObjs[k].outcome # "zero"}
ErrorsBlamed ==
    /\ ErrorChains
    /\ pc \notin {"complain", "complainobj", "raised", "cancelled"} =>
         FailedObservations = Blamed
    /\ pc \in {"complain", "complainobj"} =>
         /\ observationObjs # <<>> /\ outcome # "zero"
         /\ observationObjs[Len(observationObjs)].outcome = outcome
         /\ Len(observationObjs) \notin Blamed

GraphInv ==
    /\ StepsChained
    /\ CommandsIssued
    /\ ObservationsTold
    /\ ErrorsBlamed
=============================================================================
