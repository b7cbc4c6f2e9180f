----------------------------- MODULE MCRetrieval -----------------------------
(* Small instances of Retrieval for TLC.                                     *)
EXTENDS RetrievalInv

CONSTANTS make, test   \* two commands

MCFilesOf   == make :> <<"src", "out">> @@ test :> <<"src", "log">>
MCProgramOf == make :> <<"make">> @@ test :> <<"test">>
NoDelay     == [a \in 0..MaxRetries |-> 0]

-----------------------------------------------------------------------------
(* What a comment says and the code does not do                              *)

\* context.py:241-242: the prior attempts are "earlier commands sharing the
\* failing command's program token".
PriorAttemptsAreEarlier ==
    \A k \in DOMAIN slice.attempts : slice.attempts[k] < slice.failing

\* llm.py:91-93: "the flag itself is stripped (the API rejects unknown fields)".
FlagStripped ==
    Asking => \A request \in {Sent(MessagesV1), Sent(MessagesV2)} :
                 \A k \in DOMAIN request : ~request[k].flag
=============================================================================
