----------------------------- MODULE RetrievalInv -----------------------------
(***************************************************************************)
(* The inductive invariant of Retrieval: how the exchanges projected from  *)
(* the log, the errors, the files and the observations of the graph follow *)
(* the loop from statement to statement, and what the last two prompts     *)
(* were built from.  MCRetrieval checks it with TLC, RetrievalProofs       *)
(* proves it.                                                              *)
(***************************************************************************)
EXTENDS Retrieval, ReactLoopInv

(* The loop between two prompts                                              *)

\* The projection of the log is one pair for each answered turn, in order, and
\* each has one feedback, but for the turn whose feedback is still to come.
TurnsProjected ==
    LET pairs == Exchanges
    IN  /\ pc \in BeforeTurn => Len(pairs) = step
        /\ pc \in AfterTurn \cup AfterFeedback \cup {"record"} => Len(pairs) = step + 1
        /\ \A k \in DOMAIN pairs : pairs[k].turn = k - 1
        /\ \A k \in 1..step : Len(pairs[k].feedback) = 1
        /\ pc \in AfterTurn => pairs[step + 1].feedback = <<>>
        /\ pc \in AfterFeedback => Len(pairs[step + 1].feedback) = 1
        /\ pc = "record" /\ ~Finishing => Len(pairs[step + 1].feedback) = 1

\* The last command of the graph is this turn's once it is issued, and no
\* command is this turn's while the answer runs none.
CommandOfTurn ==
    /\ pc \in {"reject", "rejectobj", "finish", "idle", "issue"} =>
         \A c \in DOMAIN commandObjs : commandObjs[c].step # Len(stepObjs)
    /\ pc \in {"complain", "complainobj"} =>
         /\ commandObjs # <<>> /\ commandObjs[Len(commandObjs)].step = Len(stepObjs)
         /\ observationObjs # <<>>
         /\ observationObjs[Len(observationObjs)].command = Len(commandObjs)

\* Which turn a command was issued in.
TurnOf(c) == stepObjs[commandObjs[c].step].index

\* A command of a turn that has observed it is in the log, and what the log says
\* was observed is in the graph.
Observed == {"observation", "complain", "complainobj", "record"}
CommandsObserved ==
    \A c \in DOMAIN commandObjs :
        TurnOf(c) < step \/ pc \in Observed =>
            EventsOf({"output_observed"}, TurnOf(c)) # {}
ObservationsKept ==
    \A i \in DOMAIN log :
        log[i].type = "output_observed" /\ (pc # "observation" \/ log[i].step < step) =>
            \E o \in DOMAIN observationObjs : TurnOf(observationObjs[o].command) = log[i].step

\* The last error object is the error that was reported last, except between
\* the event and the object.
LastReport(i) == i \in ErrorReports /\ \A j \in ErrorReports : j <= i
ErrorTracked ==
    /\ pc \notin {"rejectobj", "complainobj", "fatalobj"} =>
         /\ ErrorReports = {} <=> errorObjs = <<>>
         /\ \A i \in DOMAIN log : LastReport(i) =>
              LET from == errorObjs[Len(errorObjs)].observation
              IN  IF log[i].type = "error_raised"
                    THEN from # 0 /\ TurnOf(observationObjs[from].command) = log[i].step
                    ELSE from = 0
    /\ pc \in {"rejectobj", "complainobj"} =>
         /\ LastReport(Len(log)) /\ log[Len(log)].step = step
         /\ log[Len(log)].type = "error_raised" <=> pc = "complainobj"

\* The files are the paths of the commands that were started, and, while those
\* of one more are recorded, the paths of it that were.
PathsOf(commands) == UNION {ToSet(FilesOf[commands[c]]) : c \in DOMAIN commands}
FilesTracked ==
    /\ \A i, j \in DOMAIN files : files[i] = files[j] => i = j
    /\ \A t \in touches : t[2] \in ToSet(files)
    /\ pc # "files" => ToSet(files) = PathsOf(ran)
    /\ pc = "files" =>
         ToSet(files) \cup ToSet(paths) = PathsOf(ran) \cup ToSet(FilesOf[reply.command])

LoopTracked ==
    pc \notin Final =>
        /\ TurnsProjected
        /\ CommandOfTurn
        /\ CommandsObserved /\ ObservationsKept
        /\ ErrorTracked
        /\ FilesTracked

-----------------------------------------------------------------------------
(* The prompts                                                               *)

\* What build_context returns for some exchanges, at some step.
PromptOf(exchanges, s) ==
    LET omitted == Omitted(exchanges, MaxTailExchanges)
        tail    == Window(exchanges, MaxTailExchanges)
    IN  [body |-> Body(omitted, tail), marked |-> omitted = 0, omitted |-> omitted,
         tail |-> tail, budgetLine |-> s]

\* The last prompt was built from the exchanges before the turn it asked for.
Asked(s) == promptV1 = PromptOf(SubSeq(Exchanges, 1, s), s)
PromptTracked ==
    /\ pc \in {"begin", "top"} =>
         IF step = 0 THEN promptV1 = NoPrompt ELSE Asked(step - 1)
    /\ pc \notin {"begin", "top"} \cup Final => Asked(step)

\* While the request is made, the slice is the one the builder would build again.
SliceTracked ==
    Asking =>
        /\ slice.digest = [k \in DOMAIN DigestSteps |-> DigestLine(DigestSteps[k])]
        /\ slice.tail = Window(Exchanges, V2TailExchanges)
        /\ slice.error = ActiveError /\ slice.failing = FailingCommand
        /\ slice.files = Window(files, V2MaxFiles)
        /\ slice.moreFiles = Omitted(files, V2MaxFiles)

RetrievalInv ==
    /\ LoopTracked
    /\ PromptTracked
    /\ SliceTracked
    /\ CacheHits
=============================================================================
