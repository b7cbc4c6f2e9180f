------------------------------- MODULE RunLedger -------------------------------
(***************************************************************************)
(* What the chunk queue promises to docker, and to those who read the      *)
(* branch at origin.  The runs of the benchmark are numbered as they       *)
(* begin; one runs at a time, on the whole machine.  What is published of  *)
(* a chunk is the rewards of one run and the event stores of the same one  *)
(* or of a later one, both readable, and is replaced by those of later     *)
(* runs only: nothing published is ever taken back.                        *)
(*                                                                         *)
(* Runners, the lock, the working tree, commits, crashes, reclaims and     *)
(* resets are not part of it.  ChunkRunnerInv maps the queue to this.      *)
(***************************************************************************)
EXTENDS Integers

CONSTANT Chunks

VARIABLES
    running,    \* the chunks that are being run
    runs,       \* how many runs have begun
    published   \* chunk -> the runs its rewards and its event stores are of, 0 for none

ledgerVars == <<running, runs, published>>

Unpublished == [rewards |-> 0, stores |-> 0]

LedgerInit ==
    /\ running = {} /\ runs = 0
    /\ published = [c \in Chunks |-> Unpublished]

Begin(c) ==
    /\ running = {} /\ running' = {c}
    /\ runs' = runs + 1
    /\ UNCHANGED published

\* A run ends, or dies with the machine.
End ==
    /\ running # {} /\ running' = {}
    /\ UNCHANGED <<runs, published>>

Replaces(new, old) ==
    /\ new.rewards \in 1..runs /\ new.stores \in new.rewards..runs
    /\ new.rewards >= old.rewards /\ new.stores >= old.stores

\* A push: the chunk just run, and those whose own push failed.
Publish ==
    /\ running = {}
    /\ published' = [c \in Chunks |-> published'[c]]
    /\ \A c \in Chunks : published'[c] # published[c] => Replaces(published'[c], published[c])
    /\ UNCHANGED <<running, runs>>

LedgerNext == (\E c \in Chunks : Begin(c)) \/ End \/ Publish

LedgerSpec == LedgerInit /\ [][LedgerNext]_ledgerVars
=============================================================================
