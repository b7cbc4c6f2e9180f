------------------------------- MODULE TrialInv -------------------------------
(***************************************************************************)
(* The inductive invariant of Trial: where the loop stands in each phase   *)
(* of run(), how far the recorder and Harbor's context are behind it, and  *)
(* what the artifacts hold once they are written.  TrialProofs proves it.  *)
(***************************************************************************)
EXTENDS Trial, ReactLoopInv

BeforeLoop == {"open", "start", "client"}
Exporting  == {"export", "summary", "close", "abandon", "finish"}

\* The loop has not begun before its phase, and has ended after it; what came
\* out of it is what run() has remembered of it.
LoopPlaced ==
    /\ phase \in {"open", "start"} => log = <<>>
    /\ phase \in BeforeLoop => pc = "begin"
    /\ phase \in BeforeLoop \cup {"loop"} => loopEnd = "none"
    /\ phase \in Exporting => loopEnd # "none"
    /\ loopEnd = "result" => pc = "returned"
    /\ loopEnd = "exception" => pc \in {"begin", "raised"}
    /\ loopEnd = "cancelled" => pc = "cancelled"
    /\ pc = "returned" => result.reason \in TerminalTypes /\ result.tokens = tokens

\* The store is open from its opening to its close, and left open by a failing
\* first event only.
StoreTracked ==
    /\ phase \in {"start", "client", "loop", "export", "summary", "close", "abandon"} => storeOpen
    /\ phase \in {"open", "finish"} => ~storeOpen
    /\ phase = "over" => ~storeOpen \/ log = <<>>

\* The command of the answer in hand, by the branch it took.
CommandInHand ==
    /\ pc \in {"exec", "executed", "observe", "observation", "complain", "complainobj"} =>
         reply.command \in Commands
    /\ pc \in {"reject", "rejectobj", "finish", "idle"} => reply.command = NoCommand

\* The recorder has every turn handed over, and its commands are those logged
\* but for the turn's that is not handed over yet; the same of the tokens.
Unrecorded == Count({"command_executed"}) - recorder.commands
RecorderTracked ==
    /\ recorder.turns = Len(turns)
    /\ harbor = recorder.tokens
    /\ pc \in {"observe", "observation", "complain", "complainobj"} => Unrecorded = 1
    /\ pc = "record" => Unrecorded = Count1(reply.command)
    /\ pc \in {"raised", "cancelled"} => Unrecorded \in 0..1
    /\ pc \notin {"observe", "observation", "complain", "complainobj", "record", "raised",
                  "cancelled"} => Unrecorded = 0

\* What the summary says is what it would say again until the end: nothing it
\* was made from moves after it was written.
TheSummary ==
    [finish |-> FinishReason, fatal |-> HasFatal,
     steps |-> recorder.turns, commands |-> recorder.commands,
     errors |-> IF loopEnd = "result" THEN result.nErrors ELSE Absent,
     tokens |-> recorder.tokens,
     modelTurns |-> Count({"model_turn"}), executed |-> Count({"command_executed"})]
ArtifactsTracked ==
    /\ summary # NoSummary =>
         /\ phase \in {"close", "finish", "over", "killed"} /\ loopEnd # "none"
         /\ summary = TheSummary
    /\ phase \in {"close", "finish"} => summary # NoSummary
    /\ phase \in {"summary", "close", "finish"} => exported = Len(log)
    /\ phase = "abandon" => broken # {}
    /\ metadata # NoMetadata =>
         phase = "over" /\ metadata.finish = summary.finish /\ metadata.fatal = summary.fatal

TrialInvariant ==
    /\ TrialTypeOK
    /\ LoopPlaced
    /\ StoreTracked
    /\ CommandInHand
    /\ RecorderTracked
    /\ TokensLag
    /\ ArtifactsTracked
    /\ ArtifactsComplete
===============================================================================
