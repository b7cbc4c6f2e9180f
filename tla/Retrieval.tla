------------------------------ MODULE Retrieval ------------------------------
(***************************************************************************)
(* The two context builders of context.py, run side by side on the log and *)
(* graph of the ReAct loop: build_context (v1, the verbatim tail of the    *)
(* transcript) and build_context_v2 (a cached prefix and a slice retrieved *)
(* from the graph).  A prompt is a sequence of blocks in the order the     *)
(* model reads them; a block is named by what it renders, so two blocks    *)
(* are equal exactly if their texts are.                                   *)
(*                                                                         *)
(* A trial uses one of the two; both only read, so one run of the loop     *)
(* shows what either would have sent.                                      *)
(***************************************************************************)
EXTENDS ReactLoop, SequencesExt

CONSTANTS
    MaxTailExchanges,   \* MAX_TAIL_EXCHANGES
    V2TailExchanges,    \* V2_TAIL_EXCHANGES
    V2MaxFiles,         \* V2_MAX_FILES
    V2MaxPriorAttempts, \* V2_MAX_PRIOR_ATTEMPTS
    ProgramOf,          \* command -> text.split()[:1]
    EnablePromptCaching \* --ak enable_prompt_caching

ASSUME WindowsAssumption ==
    {MaxTailExchanges, V2TailExchanges, V2MaxFiles, V2MaxPriorAttempts} \subseteq Nat \ {0}
ASSUME CachingAssumption == EnablePromptCaching \in BOOLEAN

VARIABLES
    promptV1,   \* what build_context returned last
    earlierV1,  \* what it returned the turn before (history)
    slice       \* what build_context_v2 put into its prompt last

retrievalVars == <<loopVars, promptV1, earlierV1, slice>>

-----------------------------------------------------------------------------
(* The transcript *)

IsFeedback(e) == e.type \in FeedbackTypes

\* _project_exchanges, event by event: a model_turn opens a pair, and a feedback
\* event joins the pair opened last.
Project(pairs, e) ==
    CASE e.type = "model_turn" -> Append(pairs, [turn |-> e.step, feedback |-> <<>>])
      [] IsFeedback(e) /\ pairs # <<>> ->
           [pairs EXCEPT ![Len(pairs)].feedback = Append(@, e)]
      [] OTHER -> pairs
ExchangesIn(events) ==
    LET pairs[n \in 0..Len(events)] ==
            IF n = 0 THEN <<>> ELSE Project(pairs[n - 1], events[n])
    IN  pairs[Len(events)]
Exchanges == ExchangesIn(log)

\* How many of s lie before its last n, and those last n.
Omitted(s, n) == IF Len(s) > n THEN Len(s) - n ELSE 0
Window(s, n)  == SubSeq(s, Omitted(s, n) + 1, Len(s))

-----------------------------------------------------------------------------
(* v1: system prompt, instruction, verbatim tail, budget line *)

\* The blocks before the budget line.  The omission marker is part of the
\* first user message, so its text changes with the number omitted.
Body(omitted, tail) ==
    << <<"system">>, <<"instruction", omitted>> >>
      \o FlattenSeq([k \in DOMAIN tail |->
            << <<"assistant", tail[k].turn>>,
               <<"feedback", tail[k].turn, tail[k].feedback>> >>])

\* Mutant: the breakpoint stays on when the window slides.
BuildV1_AlwaysMarked ==
    LET exchanges == Exchanges
        omitted   == Omitted(exchanges, MaxTailExchanges)
        tail      == Window(exchanges, MaxTailExchanges)
    IN  [body |-> Body(omitted, tail), marked |-> TRUE, omitted |-> omitted,
         tail |-> tail, budgetLine |-> step]

\* Mutant: the window starts one exchange late.
BuildV1_DropsOne ==
    LET exchanges == Exchanges
        omitted   == Omitted(exchanges, MaxTailExchanges)
        tail      == SubSeq(exchanges, omitted + 2, Len(exchanges))
    IN  [body |-> Body(omitted, tail), marked |-> omitted = 0, omitted |-> omitted,
         tail |-> tail, budgetLine |-> step]

\* The final feedback block carries the cache breakpoint while nothing is
\* omitted; the budget line follows it, outside the cached prefix.
BuildV1 ==
    LET exchanges == Exchanges
        omitted   == Omitted(exchanges, MaxTailExchanges)
        tail      == Window(exchanges, MaxTailExchanges)
    IN  [body |-> Body(omitted, tail), marked |-> omitted = 0, omitted |-> omitted,
         tail |-> tail, budgetLine |-> step]

NoPrompt == [body |-> <<>>, marked |-> FALSE, omitted |-> 0, tail |-> <<>>,
             budgetLine |-> -1]

-----------------------------------------------------------------------------
(* v2: the retrieved slice *)

\* The step objects by index, and the commands by creation.
Steps ==
    CHOOSE s \in SetToSeqs(DOMAIN stepObjs) :
        IsSorted(s, LAMBDA a, b : stepObjs[a].index < stepObjs[b].index)
CommandsInOrder == [c \in DOMAIN commandObjs |-> c]

CommandOf(stepId) == {c \in DOMAIN commandObjs : commandObjs[c].step = stepId}

\* Mutant: the observation that is in the position of the step, not of the command.
ExitOf_ByStep(c) ==
    IF commandObjs[c].step \in DOMAIN observationObjs
      THEN observationObjs[commandObjs[c].step].outcome ELSE "unknown"

\* The exit code of the observation a command produced, "?" if there is none.
ExitOf(c) ==
    LET produced == {o \in DOMAIN observationObjs : observationObjs[o].command = c}
    IN  IF produced = {} THEN "unknown"
        ELSE observationObjs[Min(produced)].outcome

DigestLine(stepId) ==
    LET issued == CommandOf(stepId)
    IN  IF issued = {}
          THEN [turn |-> stepObjs[stepId].index, command |-> 0, exit |-> "none"]
          ELSE [turn |-> stepObjs[stepId].index, command |-> Max(issued),
                exit |-> ExitOf(Max(issued))]

\* Mutant: the digest reaches into the verbatim tail.
DigestSteps_All == Steps

\* The steps older than the verbatim tail.
DigestSteps == SubSeq(Steps, 1, Omitted(Steps, V2TailExchanges))

\* Mutant: the first error stays the active one.
ActiveError_First == IF errorObjs = <<>> THEN 0 ELSE 1

\* The most recent error object, 0 if there is none.
ActiveError == Len(errorObjs)

\* Up the contains and produced edges: the command that failed, 0 if the error
\* hangs on no observation (the answer could not be parsed).
FailingCommand ==
    IF ActiveError = 0 \/ errorObjs[ActiveError].observation = 0 THEN 0
    ELSE observationObjs[errorObjs[ActiveError].observation].command

\* Every other command of the failing command's program; none if that command
\* is blank and so has no program.
PriorAttempts ==
    LET program == ProgramOf[commandObjs[FailingCommand].text]
        Same(c) == c # FailingCommand /\ ProgramOf[commandObjs[c].text] = program
    IN  IF FailingCommand = 0 \/ program = <<>> THEN <<>>
        ELSE SelectSeq(CommandsInOrder, Same)

BuildSlice ==
    [digest   |-> [k \in DOMAIN DigestSteps |-> DigestLine(DigestSteps[k])],
     tail     |-> Window(Exchanges, V2TailExchanges),
     error    |-> ActiveError,
     failing  |-> FailingCommand,
     attempts |-> Window(PriorAttempts, V2MaxPriorAttempts),
     files    |-> Window(files, V2MaxFiles),
     moreFiles |-> Omitted(files, V2MaxFiles)]

NoSlice == [digest |-> <<>>, tail |-> <<>>, error |-> 0, failing |-> 0, attempts |-> <<>>,
            files |-> <<>>, moreFiles |-> 0]

-----------------------------------------------------------------------------
(* The request: what complete() makes of the messages *)

\* A text with the harness's flag "cache"; a message is a sequence of blocks,
\* one block if its content is a string.
Block(text, cache) == [text |-> text, cache |-> cache]
BudgetLine == Block(<<"budget", step>>, FALSE)

MessagesV1 ==
    LET body == promptV1.body
    IN  [k \in DOMAIN body |->
            IF k = Len(body) THEN <<Block(body[k], promptV1.marked), BudgetLine>>
            ELSE <<Block(body[k], FALSE)>>]

\* Mutant: the slice is marked too, though it is rebuilt every turn.
FirstMessageV2_AllMarked == <<Block(<<"instruction">>, TRUE), Block(<<"slice">>, TRUE)>>

\* first_user_blocks: the instruction, cached, and the slice.
FirstMessageV2 == <<Block(<<"instruction">>, TRUE), Block(<<"slice">>, FALSE)>>

\* build_context_v2: the budget line ends the last message.
MessagesV2 ==
    LET tail == FlattenSeq([k \in DOMAIN slice.tail |->
                   << <<Block(<<"assistant", k>>, FALSE)>>, <<Block(<<"feedback", k>>, FALSE)>> >>])
        body == << <<Block(<<"system">>, FALSE)>>, FirstMessageV2 >> \o tail
    IN  [body EXCEPT ![Len(body)] = Append(@, BudgetLine)]

\* split_system and apply_cache_control: the system prompt always gets a
\* breakpoint, a flagged block gets one for its flag.  Without prompt caching
\* neither is called.
Sent(messages) ==
    [k \in DOMAIN FlattenSeq(messages) |->
        LET block == FlattenSeq(messages)[k]
        IN  [text       |-> block.text,
             breakpoint |-> EnablePromptCaching /\ (k = 1 \/ block.cache),
             flag       |-> ~EnablePromptCaching /\ block.cache]]

Breakpoints(request) == {k \in DOMAIN request : request[k].breakpoint}

\* Mutant: half is rounded up.
Half_Up(max) == (max + 1) \div 2

Half(max) == max \div 2

\* truncate_middle: the head, the count in the marker, the tail.  text[-half:]
\* with half 0 is the whole text.
TruncateMiddle(text, max) ==
    LET n == Len(text)
    IN  IF n <= max THEN [head |-> text, omitted |-> 0, tail |-> <<>>]
        ELSE [head    |-> SubSeq(text, 1, Half(max)),
              omitted |-> n - 2 * Half(max),
              tail    |-> IF Half(max) = 0 THEN text ELSE SubSeq(text, n - Half(max) + 1, n)]

-----------------------------------------------------------------------------
(* Specification *)

RetrievalInit == Init /\ promptV1 = NoPrompt /\ earlierV1 = NoPrompt /\ slice = NoSlice

\* The builder call of run_loop, with what it returns.
BuildPrompt ==
    /\ BuildContext
    /\ promptV1' = BuildV1
    /\ earlierV1' = promptV1
    /\ slice' = BuildSlice

\* Everything else of the loop.  A failure of the store, the callback or a
\* cancellation ends the loop: no prompt follows it, so they are left out here.
OtherStep ==
    /\ ~(pc = "top" /\ ~Exhausted)
    /\ Proceed
    /\ UNCHANGED <<promptV1, earlierV1, slice>>

LoopOver == pc \in Final /\ UNCHANGED retrievalVars

RetrievalNext == BuildPrompt \/ OtherStep \/ LoopOver

RetrievalSpec == RetrievalInit /\ [][RetrievalNext]_retrievalVars

-----------------------------------------------------------------------------
(* Correctness *)

\* A request is being made with the prompts just built.
Asking == pc \in {"call", "backoff"}

\* v1: the turns shown and the turns counted as omitted are all the turns so
\* far, the shown ones are the latest, in order, each with one feedback.
TranscriptComplete ==
    Asking =>
        LET shown == promptV1.tail
        IN  /\ promptV1.omitted + Len(shown) = step
            /\ Len(shown) <= MaxTailExchanges
            /\ \A k \in DOMAIN shown :
                 shown[k].turn = promptV1.omitted + k - 1 /\ Len(shown[k].feedback) = 1

\* v1: the breakpoint is set exactly when the request before this one left a
\* prefix in the cache that this request repeats: no write is made that was
\* bound to miss, and no hit is given away (context.py:67-80).
CacheHits ==
    earlierV1 # NoPrompt =>
        (promptV1.marked <=> IsPrefix(earlierV1.body, promptV1.body))

\* v2: digest and verbatim tail together are the whole history, every turn in
\* exactly one of the two and in order.
HistoryOnce ==
    Asking =>
        [k \in DOMAIN slice.digest |-> slice.digest[k].turn]
          \o [k \in DOMAIN slice.tail |-> slice.tail[k].turn] = [k \in 1..step |-> k - 1]

\* v2: a digest line tells what the log says of that turn: the exit of the
\* command it ran, or that it ran none.
DigestTruthful ==
    Asking =>
        \A k \in DOMAIN slice.digest :
            LET line == slice.digest[k]
                seen == EventsOf({"output_observed"}, line.turn)
            IN  IF seen = {} THEN line.command = 0
                ELSE \A i \in seen : line.command # 0 /\ line.exit = log[i].note

\* The events that report an error to the model.
ErrorReports ==
    {i \in DOMAIN log : \/ log[i].type = "error_raised"
                        \/ log[i].type \in FeedbackTypes /\ log[i].note = "parse_failed"}

\* v2: the active error is the one the log reported last, and the command shown
\* with it is the one that ran in that turn.
ActiveErrorCurrent ==
    Asking =>
        IF ErrorReports = {} THEN slice.error = 0
        ELSE LET last == Max(ErrorReports)
             IN  /\ slice.error # 0
                 /\ IF log[last].type = "error_raised"
                      THEN /\ slice.failing # 0
                           /\ stepObjs[commandObjs[slice.failing].step].index = log[last].step
                      ELSE slice.failing = 0

\* v2: the files shown are the latest new ones, each once, and all others are
\* counted: what add_file_objects recorded for every command that was started.
FilesAccounted ==
    Asking =>
        LET named == UNION {ToSet(FilesOf[ran[c]]) : c \in DOMAIN ran}
        IN  /\ Len(slice.files) + slice.moreFiles = Cardinality(named)
            /\ Cardinality(ToSet(slice.files)) = Len(slice.files)
            /\ ToSet(slice.files) \subseteq named
            /\ \A t \in touches : t[2] \in named

\* The request either builder leads to has at most the four breakpoints the API
\* allows, and none stands at or behind a text that changes every turn: the
\* budget line, v2's slice, v1's first message once it counts omitted turns
\* (llm.py:87-104).
CachedPrefixStable ==
    Asking /\ EnablePromptCaching =>
        /\ \A request \in {Sent(MessagesV1), Sent(MessagesV2)} :
             /\ Cardinality(Breakpoints(request)) \in 1..4
             /\ \A b \in Breakpoints(request), k \in DOMAIN request :
                  request[k].text[1] \in {"budget", "slice"} => b < k
        /\ promptV1.omitted > 0 => Breakpoints(Sent(MessagesV1)) = {1}

\* What is fed back of a long output is its head and its tail, no more than the
\* limit, and the marker counts the rest; for limits of two and more (loop.py's
\* and context.py's are in the hundreds).
TruncationExact ==
    Asking => \A n \in 0..6, max \in 2..6 :
        LET text == [k \in 1..n |-> k]
            cut  == TruncateMiddle(text, max)
            kept == cut.head \o cut.tail
        IN  /\ Len(kept) <= max /\ Len(kept) + cut.omitted = n
            /\ \A k \in DOMAIN kept :
                 kept[k] = IF k <= Len(cut.head) THEN k ELSE k + cut.omitted
=============================================================================
