------------------------------- MODULE MCTrial -------------------------------
(* Small instances of Trial for TLC.                                         *)
EXTENDS Trial, TLC

CONSTANT make

MCFilesOf == make :> <<"src">>
NoDelay   == [a \in 0..MaxRetries |-> 0]
DoublingDelay == [a \in 0..MaxRetries |-> 2 ^ a]

-----------------------------------------------------------------------------
(* What the documents say and the code does not do                           *)

\* agent.py:12: the agent "always exports the full event log JSON plus
\* summary.json in finally".  A started trial that ends would then leave a
\* summary, unless writing the summary itself failed.
SummaryAlways ==
    phase = "over" /\ Started => summary.finish # "none" \/ "summary" \in broken
=============================================================================
