---------------------------- MODULE ChunkRunnerInv ----------------------------
(***************************************************************************)
(* The inductive invariant of the chunk queue: what the lock, the run      *)
(* directories and the four versions of a chunk's result files have to do  *)
(* with one another at each statement of run_config.sh; and how the queue  *)
(* is read as the ledger of runs.                                          *)
(***************************************************************************)
EXTENDS ChunkRunner

\* A runner past its flock holds the lock until it ends, and a harbor run is
\* alive under a held lock only while the holder waits for it.
LockInv ==
    /\ pc \in [Runners -> Labels]
    /\ holder \in Runners \cup {NoRunner}
    /\ \A r \in Runners : pc[r] \in Working => holder = r
    /\ live # {} /\ holder \in Runners => At(holder, "running") /\ live = {Chunk(holder)}

\* A committed version has neither file, or both, whole, the event stores no
\* older than the rewards.
Complete(version) ==
    /\ Exists(version.artifact) /\ version.artifact.whole /\ version.events.whole
    /\ version.artifact.run <= version.events.run
Committed(version) == version = Nothing \/ Complete(version)

Committals(c) == {index[c], head[c], origin[c]}

\* What is true of a chunk at any moment: its committed versions are complete,
\* no file is of a run to come, and an artifact that is not committed and pushed
\* can be made again.
ChunkInv(c) ==
    /\ \A v \in Committals(c) :
         /\ Committed(v)
         /\ tree[c].artifact # v.artifact => runDir[c] >= tree[c].artifact.run
         /\ synced /\ Exists(v.artifact) => Exists(tree[c].artifact)
    /\ \A v \in Committals(c) \cup {tree[c]} : v.artifact.run <= nRuns
    /\ runDir[c] <= nRuns

\* What is true of the chunk a runner works on, statement by statement: even
\* with a reset under it, what it adds is complete, and what it removes the run
\* directory of is what it pushed.
StageInv(r) ==
    LET c == Chunk(r)
    IN  /\ pc[r] \in Working \ {"clean", "harbor"} =>
             /\ runDir[c] # 0
             /\ \A v \in Committals(c) \cup {tree[c]} : v.artifact.run <= runDir[c]
        /\ pc[r] \in {"archive", "archiving"} /\ Exists(tree[c].artifact) =>
             tree[c].artifact.whole
        /\ pc[r] = "add" /\ Exists(tree[c].artifact) /\ Exists(tree[c].events) =>
             Complete(tree[c])
        /\ pc[r] \in {"commit", "push", "remove"} => tree[c].artifact = index[c].artifact
        /\ pc[r] \in {"push", "remove"} => tree[c].artifact = head[c].artifact
        /\ pc[r] = "remove" => tree[c].artifact = origin[c].artifact

\* A runner that is alive was started on a synced clone; one that holds the lock
\* and comes back to it does so for a chunk that is not on origin.
RunnerInv(r) ==
    /\ pc[r] # "off" => synced
    /\ At(r, "lock") => todo[r] # <<>>
    /\ At(r, "lock") /\ holder = r => ~Exists(origin[Chunk(r)].artifact)

QueueInv ==
    /\ ChunkTypeOK
    /\ LockInv
    /\ \A c \in Chunks : ChunkInv(c)
    /\ \A r \in Runners : StageInv(r) /\ RunnerInv(r)

-----------------------------------------------------------------------------
(* The ledger of runs                                                        *)

\* What a reader finds in a file: the run it is of, or that it is torn.
ReadBack(file) == IF file.whole \/ ~Exists(file) THEN file.run ELSE -1

Published ==
    [c \in Chunks |-> [rewards |-> ReadBack(origin[c].artifact),
                      stores  |-> ReadBack(origin[c].events)]]

Ledger == INSTANCE RunLedger WITH running <- live, runs <- nRuns, published <- Published

\* The queue implements the ledger: whatever fails, dies, is reclaimed or reset
\* under a runner, one run is alive at a time, a push happens while none is, and
\* it replaces complete results by complete ones of the same or later runs.
ImplementsRunLedger == Ledger!LedgerSpec

\* A version is of no later runs than another.
Upto(v, w) == v.artifact.run <= w.artifact.run /\ v.events.run <= w.events.run

\* On a synced clone the index is ahead of HEAD, and HEAD of origin: the push is
\* a step forward whatever resets preceded it.
ChunkAhead(c) ==
    /\ synced => Upto(origin[c], head[c]) /\ Upto(head[c], index[c])
    /\ \A v \in Committals(c) \cup {tree[c]} : v.events.run <= nRuns

\* What a runner is about to add is of no earlier runs than what is indexed.
StageAhead(r) ==
    LET c == Chunk(r)
    IN  /\ pc[r] \in Working \ {"clean", "harbor"} =>
             \A v \in Committals(c) \cup {tree[c]} : v.events.run <= runDir[c]
        /\ pc[r] \in {"archive", "archiving"} /\ Exists(tree[c].artifact) =>
             index[c].artifact.run <= tree[c].artifact.run
        /\ pc[r] = "add" /\ Exists(tree[c].artifact) /\ Exists(tree[c].events) =>
             Upto(index[c], tree[c])

AheadInv ==
    /\ \A c \in Chunks : ChunkAhead(c)
    /\ \A r \in Runners : StageAhead(r)

\* One run is alive on the machine at most, with or without its runner.
OneRun == \A c, d \in live : c = d
===============================================================================
