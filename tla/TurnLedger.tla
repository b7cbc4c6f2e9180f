------------------------------ MODULE TurnLedger ------------------------------
(***************************************************************************)
(* What the loop promises to those who read its log, its trajectory and    *)
(* its result: a ledger of turns.  A turn is answered by the model, may    *)
(* have one command executed, tells the model what came of it, and is      *)
(* closed by handing its record over; the next turn begins only then.  The *)
(* ledger ends once: the task is finished, the budget is exhausted, or the *)
(* loop failed, in the middle of a turn or not.                            *)
(*                                                                         *)
(* Requests, retries, the graph and the clock are not part of it.          *)
(* ReactLoopInv maps the loop's log, records and pc to this state.         *)
(***************************************************************************)
EXTENDS Integers

CONSTANT MaxTurns  \* a natural number: the loop's MaxSteps

VARIABLES
    turn,      \* the turn being taken
    answered,  \* turns with an answer of the model
    executed,  \* turns with a command that was executed
    told,      \* turns whose outcome the model was told
    closed,    \* turns handed over
    ended      \* "no", or how the ledger ended

ledgerVars == <<turn, answered, executed, told, closed, ended>>

LedgerInit ==
    /\ turn = 0 /\ ended = "no"
    /\ answered = {} /\ executed = {} /\ told = {} /\ closed = {}

Answer ==
    /\ ended = "no" /\ turn < MaxTurns /\ turn \notin answered
    /\ answered' = answered \cup {turn}
    /\ UNCHANGED <<turn, executed, told, closed, ended>>

Execute ==
    /\ ended = "no" /\ turn \in answered \ (told \cup executed)
    /\ executed' = executed \cup {turn}
    /\ UNCHANGED <<turn, answered, told, closed, ended>>

Tell ==
    /\ ended = "no" /\ turn \in answered \ told
    /\ told' = told \cup {turn}
    /\ UNCHANGED <<turn, answered, executed, closed, ended>>

Close ==
    /\ ended = "no" /\ turn \in told
    /\ closed' = closed \cup {turn} /\ turn' = turn + 1
    /\ UNCHANGED <<answered, executed, told, ended>>

\* The model says it is done: nothing is executed and nothing told in that turn.
Finish ==
    /\ ended = "no" /\ turn \in answered \ (told \cup executed)
    /\ ended' = "finished"
    /\ UNCHANGED <<turn, answered, executed, told, closed>>

CloseLast ==
    /\ ended = "finished"
    /\ closed' = closed \cup {turn}
    /\ UNCHANGED <<turn, answered, executed, told, ended>>

\* Between two turns only.
Exhaust ==
    /\ ended = "no" /\ turn \notin answered
    /\ ended' = "exhausted"
    /\ UNCHANGED <<turn, answered, executed, told, closed>>

\* A turn that is handed over when the failure comes has been told.
Fail ==
    /\ ended = "no" /\ ended' = "failed"
    /\ closed' = closed \/ (turn \in told /\ closed' = closed \cup {turn})
    /\ UNCHANGED <<turn, answered, executed, told>>

LedgerNext ==
    Answer \/ Execute \/ Tell \/ Close \/ Finish \/ CloseLast \/ Exhaust \/ Fail

LedgerSpec == LedgerInit /\ [][LedgerNext]_ledgerVars

\* The ledger at any moment: the turns before the current one are answered, told
\* and closed, no later one is, only an answered turn was executed or told, and
\* one that was closed without being told is the one that finished the task.
LedgerConsistent ==
    /\ turn \in 0..MaxTurns
    /\ answered \in {0..(turn - 1), 0..turn} /\ (turn \in answered => turn < MaxTurns)
    /\ executed \subseteq answered
    /\ told \in {0..(turn - 1), 0..turn} /\ told \subseteq answered
    /\ closed \in {0..(turn - 1), 0..turn}
    /\ closed \subseteq told \cup (IF ended = "finished" THEN answered ELSE {})
    /\ ended = "finished" => turn \in answered
    /\ ended = "exhausted" => closed = answered
=============================================================================
