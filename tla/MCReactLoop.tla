----------------------------- MODULE MCReactLoop -----------------------------
(* Small instances of ReactLoop for TLC.                                     *)
EXTENDS ReactLoopInv, TLC

CONSTANTS make, test   \* two commands

\* Both commands touch the same source file, and each one of its own.
MCFilesOf == make :> <<"src", "out">> @@ test :> <<"src", "log">>
OneCommandFiles == make :> <<"src">>

\* RETRY_BASE_DELAY_SEC * 2^attempt with a base of 0 (untimed) and of 1.
NoDelay     == [a \in 0..MaxRetries |-> 0]
DoublingDelay == [a \in 0..MaxRetries |-> 2 ^ a]

-----------------------------------------------------------------------------
(* What the documents say and the code does not do                           *)

\* loop.py:1-2: turns are taken "until the model says done or a budget runs
\* out".  A turn that said done would be the last one.
DoneEndsLoop == \A i \in DOMAIN turns : turns[i].done => i = Len(turns)

\* README.md:110: a call is "retried 3 times with backoff (each retry is an
\* `llm_retry` event)".  A turn would then log MAX_RETRIES such events at most.
RetryEventsAreRetries ==
    \A s \in 0..step : Cardinality(EventsOf({"llm_retry"}, s)) <= MaxRetries

\* loop.py:25-29: the default budget leaves "60s of headroom for export and
\* shutdown" below the task's timeout.  One tick is 60 s: a loop that ended on
\* its own has spent the budget and at most the headroom.
HeadroomHolds == pc = "returned" => elapsed <= WallClock + 1
=============================================================================
