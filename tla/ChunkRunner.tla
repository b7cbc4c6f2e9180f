----------------------------- MODULE ChunkRunner -----------------------------
(***************************************************************************)
(* The queue that runs the benchmark in chunks: run_config.sh, the         *)
(* collect_chunk.py and archive_events.sh it calls, and the reset          *)
(* recover_and_resume.sh makes after the machine is reclaimed.             *)
(*                                                                         *)
(* A chunk is run by harbor, its results are collected into one file and   *)
(* its event stores into another, both are committed and pushed, and the   *)
(* run directory is removed.  Any statement may fail (set -e ends the      *)
(* script), any runner may be killed, the machine may be reclaimed with    *)
(* its disk rolled back, and the recovery script may be run at any moment, *)
(* under a live queue too.                                                 *)
(***************************************************************************)
EXTENDS Integers, Sequences

CONSTANTS
    Runners,      \* invocations of run_config.sh
    NoRunner,
    Chunks,       \* the "name" of a chunk under its label
    Queue,        \* runner -> the chunks of its command line
    MaxRuns,      \* bound: harbor runs of the whole exploration
    MaxLaunches,  \* bound: starts of a runner
    MaxResets     \* bound: reclaims, and resets, of the machine

ASSUME QueueAssumption ==
    /\ NoRunner \notin Runners
    /\ Queue \in [Runners -> Seq(Chunks)]
ASSUME BoundsAssumption == MaxRuns \in Nat /\ MaxLaunches \in Nat /\ MaxResets \in Nat

VARIABLES
    pc,        \* the next statement of each runner
    todo,      \* the chunks it has left, the current one first
    holder,    \* whose file descriptor 9 holds the flock
    live,      \* chunks whose harbor run is alive: it inherits descriptor 9
    runDir,    \* chunk -> the run in runs/<name>, 0 when there is none
    tree,      \* chunk -> its two result files in the working tree
    index,     \* ... in git's index
    head,      \* ... at HEAD
    origin,    \* ... on the branch at origin
    synced,    \* the clone has been reset to origin since the last reclaim
    nRuns, nLaunches, nResets

repoVars   == <<tree, index, head, origin, synced>>
boundVars  == <<nRuns, nLaunches, nResets>>
runnerVars == <<pc, todo, holder, live, runDir, repoVars, boundVars>>

-----------------------------------------------------------------------------
(* Values *)

\* A file: the run it was made from, and whether it was written to its end.
Absent  == [run |-> 0, whole |-> FALSE]
Content == [run : 0..MaxRuns, whole : BOOLEAN]
Results == [artifact : Content, events : Content]
Nothing == [artifact |-> Absent, events |-> Absent]

Working == {"clean", "harbor", "running", "collect", "collecting", "archive", "archiving",
            "add", "commit", "push", "remove"}
Labels  == Working \cup {"off", "check", "lock"}

Chunk(r) == Head(todo[r])
Exists(file) == file.run # 0

\* What the variables hold; the lock's holder is a runner that is alive, for
\* the kernel drops a flock with the last descriptor.
ChunkTypeOK ==
    /\ pc \in [Runners -> Labels]
    /\ todo \in [Runners -> Seq(Chunks)]
    /\ \A r \in Runners : pc[r] \in Working => todo[r] # <<>>
    /\ holder \in {r \in Runners : pc[r] # "off"} \cup {NoRunner}
    /\ live \subseteq Chunks
    /\ runDir \in [Chunks -> 0..MaxRuns]
    /\ {tree, index, head, origin} \subseteq [Chunks -> Results]
    /\ synced \in BOOLEAN
    /\ nRuns \in 0..MaxRuns /\ nLaunches \in 0..MaxLaunches /\ nResets \in 0..MaxResets

RunnerInit ==
    /\ pc = [r \in Runners |-> "off"]
    /\ todo = [r \in Runners |-> <<>>]
    /\ holder = NoRunner /\ live = {}
    /\ runDir = [c \in Chunks |-> 0]
    /\ tree = [c \in Chunks |-> Nothing]
    /\ index = tree /\ head = tree /\ origin = tree
    /\ synced = TRUE
    /\ nRuns = 0 /\ nLaunches = 0 /\ nResets = 0

-----------------------------------------------------------------------------
(* One chunk of run_config.sh *)

At(r, label)   == pc[r] = label
Goto(r, label) == pc' = [pc EXCEPT ![r] = label]

\* A runner is started by the recovery script or by hand, on a synced clone.
Launch(r) ==
    /\ At(r, "off") /\ synced /\ nLaunches < MaxLaunches
    /\ todo' = [todo EXCEPT ![r] = Queue[r]]
    /\ Goto(r, "check")
    /\ nLaunches' = nLaunches + 1
    /\ UNCHANGED <<holder, live, runDir, repoVars, nRuns, nResets>>

\* The loop is over: the script ends and its descriptors are closed.
AllDone(r) ==
    /\ At(r, "check") /\ todo[r] = <<>>
    /\ Goto(r, "off")
    /\ holder' = IF holder = r THEN NoRunner ELSE holder
    /\ UNCHANGED <<todo, live, runDir, repoVars, boundVars>>

\* [ -f "$out" ]: a collected chunk is skipped.
SkipChunk(r) ==
    /\ At(r, "check") /\ todo[r] # <<>> /\ Exists(tree[Chunk(r)].artifact)
    /\ todo' = [todo EXCEPT ![r] = Tail(todo[r])]
    /\ UNCHANGED <<pc, holder, live, runDir, repoVars, boundVars>>

TakeChunk(r) ==
    /\ At(r, "check") /\ todo[r] # <<>> /\ ~Exists(tree[Chunk(r)].artifact)
    /\ Goto(r, "lock")
    /\ UNCHANGED <<todo, holder, live, runDir, repoVars, boundVars>>

\* Mutant: descriptor 9 is not inherited, so a run left alone holds no lock.
LockFree_NotInherited == holder = NoRunner

\* flock is refused while the runner that took it, or a harbor run that
\* inherited its descriptor, is alive.
LockFree == holder = NoRunner /\ live = {}

\* Taken once, and held for the life of the script.
TakeLock(r) ==
    /\ At(r, "lock") /\ (holder = r \/ LockFree)
    /\ holder' = r
    /\ Goto(r, "clean")
    /\ UNCHANGED <<todo, live, runDir, repoVars, boundVars>>

LockRefused(r) ==
    /\ At(r, "lock") /\ holder # r /\ ~LockFree
    /\ Goto(r, "off")
    /\ UNCHANGED <<todo, holder, live, runDir, repoVars, boundVars>>

\* docker rm -f of every container there is.
CleanDocker(r) ==
    /\ At(r, "clean")
    /\ live' = {}
    /\ Goto(r, "harbor")
    /\ UNCHANGED <<todo, holder, runDir, repoVars, boundVars>>

StartHarbor(r) ==
    /\ At(r, "harbor") /\ nRuns < MaxRuns
    /\ nRuns' = nRuns + 1
    /\ runDir' = [runDir EXCEPT ![Chunk(r)] = nRuns + 1]
    /\ live' = live \cup {Chunk(r)}
    /\ Goto(r, "running")
    /\ UNCHANGED <<todo, holder, repoVars, nLaunches, nResets>>

HarborEnds(r) ==
    /\ At(r, "running")
    /\ live' = live \ {Chunk(r)}
    /\ Goto(r, "collect")
    /\ UNCHANGED <<todo, holder, runDir, repoVars, boundVars>>

\* collect_chunk.py opens the artifact, which empties it, and then fills it.
BeginCollect(r) ==
    /\ At(r, "collect")
    /\ tree' = [tree EXCEPT ![Chunk(r)].artifact =
                  [run |-> runDir[Chunk(r)], whole |-> FALSE]]
    /\ Goto(r, "collecting")
    /\ UNCHANGED <<todo, holder, live, runDir, index, head, origin, synced, boundVars>>

EndCollect(r) ==
    /\ At(r, "collecting")
    /\ tree' = [tree EXCEPT ![Chunk(r)].artifact =
                  [run |-> runDir[Chunk(r)], whole |-> TRUE]]
    /\ Goto(r, "archive")
    /\ UNCHANGED <<todo, holder, live, runDir, index, head, origin, synced, boundVars>>

\* tar opens the archive of the event stores.
BeginArchive(r) ==
    /\ At(r, "archive")
    /\ tree' = [tree EXCEPT ![Chunk(r)].events =
                  [run |-> runDir[Chunk(r)], whole |-> FALSE]]
    /\ Goto(r, "archiving")
    /\ UNCHANGED <<todo, holder, live, runDir, index, head, origin, synced, boundVars>>

\* Mutant: a tar that failed (disk full) is not noticed.
EndArchive_Unnoticed(r) ==
    /\ At(r, "archiving")
    /\ \E w \in BOOLEAN : tree' = [tree EXCEPT ![Chunk(r)].events =
                                     [run |-> runDir[Chunk(r)], whole |-> w]]
    /\ Goto(r, "add")
    /\ UNCHANGED <<todo, holder, live, runDir, index, head, origin, synced, boundVars>>

EndArchive(r) ==
    /\ At(r, "archiving")
    /\ tree' = [tree EXCEPT ![Chunk(r)].events =
                  [run |-> runDir[Chunk(r)], whole |-> TRUE]]
    /\ Goto(r, "add")
    /\ UNCHANGED <<todo, holder, live, runDir, index, head, origin, synced, boundVars>>

\* Mutant: the event stores are left out of the commit.
GitAdd_RewardsOnly(r) ==
    /\ At(r, "add")
    /\ Exists(tree[Chunk(r)].artifact)
    /\ index' = [index EXCEPT ![Chunk(r)].artifact = tree[Chunk(r)].artifact]
    /\ Goto(r, "commit")
    /\ UNCHANGED <<todo, holder, live, runDir, tree, head, origin, synced, boundVars>>

\* git add of the two files: a missing one is an error.
GitAdd(r) ==
    /\ At(r, "add")
    /\ Exists(tree[Chunk(r)].artifact) /\ Exists(tree[Chunk(r)].events)
    /\ index' = [index EXCEPT ![Chunk(r)] = tree[Chunk(r)]]
    /\ Goto(r, "commit")
    /\ UNCHANGED <<todo, holder, live, runDir, tree, head, origin, synced, boundVars>>

\* git commit takes the whole index, and fails when there is nothing in it.
GitCommit(r) ==
    /\ At(r, "commit") /\ index # head
    /\ head' = index
    /\ Goto(r, "push")
    /\ UNCHANGED <<todo, holder, live, runDir, tree, index, origin, synced, boundVars>>

\* Mutant: a push that failed twice does not end the script.
GitPush_Unnoticed(r) ==
    /\ At(r, "push")
    /\ origin' \in {origin, head}
    /\ Goto(r, "remove")
    /\ UNCHANGED <<todo, holder, live, runDir, tree, index, head, synced, boundVars>>

\* HEAD is pushed, with the commits earlier pushes failed to send.
GitPush(r) ==
    /\ At(r, "push")
    /\ origin' = head
    /\ Goto(r, "remove")
    /\ UNCHANGED <<todo, holder, live, runDir, tree, index, head, synced, boundVars>>

\* The run directory is packed into runs/archives, which nothing reads back,
\* and removed.
RemoveRunDir(r) ==
    /\ At(r, "remove")
    /\ runDir' = [runDir EXCEPT ![Chunk(r)] = 0]
    /\ todo' = [todo EXCEPT ![r] = Tail(todo[r])]
    /\ Goto(r, "check")
    /\ UNCHANGED <<holder, live, repoVars, boundVars>>

-----------------------------------------------------------------------------
(* Failures and recovery *)

\* Mutant: a lock file instead of a flock, left behind by a runner that dies.
Stops_KeepsLock(r) ==
    /\ pc[r] # "off"
    /\ Goto(r, "off")
    /\ IF At(r, "running") THEN live' \in {live, live \ {Chunk(r)}} ELSE UNCHANGED live
    /\ UNCHANGED <<todo, holder, runDir, repoVars, boundVars>>

\* The current statement fails and set -e ends the script, or the script is
\* killed: then the harbor run it waits for may survive it.
Stops(r) ==
    /\ pc[r] # "off"
    /\ Goto(r, "off")
    /\ holder' = IF holder = r THEN NoRunner ELSE holder
    /\ IF At(r, "running") THEN live' \in {live, live \ {Chunk(r)}} ELSE UNCHANGED live
    /\ UNCHANGED <<todo, runDir, repoVars, boundVars>>

\* A harbor run whose runner is gone comes to its end.
OrphanEnds(c) ==
    /\ c \in live
    /\ \A r \in Runners : At(r, "running") => Chunk(r) # c
    /\ live' = live \ {c}
    /\ UNCHANGED <<pc, todo, holder, runDir, repoVars, boundVars>>

\* The machine is reclaimed: every process dies and the disk is rolled back to
\* a snapshot from before the queue.
Reclaim ==
    /\ nResets < MaxResets /\ nResets' = nResets + 1
    /\ pc' = [r \in Runners |-> "off"] /\ todo' = [r \in Runners |-> <<>>]
    /\ holder' = NoRunner /\ live' = {}
    /\ runDir' = [c \in Chunks |-> 0]
    /\ tree' = [c \in Chunks |-> Nothing]
    /\ index' = tree' /\ head' = tree'
    /\ synced' = FALSE
    /\ UNCHANGED <<origin, nRuns, nLaunches>>

\* git reset --hard: a tracked file becomes what origin has, which may be
\* nothing; an untracked one that origin does not have stays.
Restored(file, indexed, pushed) ==
    IF Exists(indexed) \/ Exists(pushed) THEN pushed ELSE file

\* Mutant: a soft reset, which leaves the working tree as it was.
RecoverReset_Soft ==
    /\ nResets < MaxResets /\ nResets' = nResets + 1
    /\ index' = origin /\ head' = origin
    /\ synced' = TRUE
    /\ UNCHANGED <<pc, todo, holder, live, runDir, tree, origin, nRuns, nLaunches>>

\* recover_and_resume.sh: fetch and reset, before it looks whether the queue is
\* alive.
RecoverReset ==
    /\ ~synced \/ nResets < MaxResets
    /\ nResets' = IF synced THEN nResets + 1 ELSE nResets
    /\ tree' = [c \in Chunks |->
         [artifact |-> Restored(tree[c].artifact, index[c].artifact, origin[c].artifact),
          events   |-> Restored(tree[c].events, index[c].events, origin[c].events)]]
    /\ index' = origin /\ head' = origin
    /\ synced' = TRUE
    /\ UNCHANGED <<pc, todo, holder, live, runDir, origin, nRuns, nLaunches>>

-----------------------------------------------------------------------------
RunnerStep(r) ==
    \/ Launch(r) \/ AllDone(r) \/ SkipChunk(r) \/ TakeChunk(r)
    \/ TakeLock(r) \/ LockRefused(r) \/ CleanDocker(r)
    \/ StartHarbor(r) \/ HarborEnds(r)
    \/ BeginCollect(r) \/ EndCollect(r) \/ BeginArchive(r) \/ EndArchive(r)
    \/ GitAdd(r) \/ GitCommit(r) \/ GitPush(r) \/ RemoveRunDir(r)
    \/ Stops(r)

RunnerNext ==
    \/ \E r \in Runners : RunnerStep(r)
    \/ \E c \in Chunks : OrphanEnds(c)
    \/ Reclaim
    \/ RecoverReset

RunnerSpec == RunnerInit /\ [][RunnerNext]_runnerVars

-----------------------------------------------------------------------------
(* Correctness *)

\* Docker is never cleaned under a live harbor run, neither another runner's
\* nor one that outlived its runner: the lock is checked once for a script and
\* then trusted for all its chunks (run_config.sh:29-39).
NoCleanUnderRun == \A r \in Runners : At(r, "clean") => live = {}

\* What is pushed is complete: both files of a chunk, each written to its end,
\* the event stores no older than the rewards, whatever earlier runs left in the
\* working tree (archive_events.sh:5-8, "in the same push").  They are not always
\* of the same run: a reset under a live runner can bring an artifact back that
\* the runner has just rewritten.
PushedComplete ==
    \A c \in Chunks :
        origin[c] # Nothing =>
            /\ origin[c].artifact.whole /\ origin[c].events.whole
            /\ origin[c].artifact.run <= origin[c].events.run

\* An artifact that is not on origin still has its run directory, or a later
\* one: until the push has succeeded it can be made again (run_config.sh:55-64).
UnpushedHasRunDir ==
    \A c \in Chunks :
        tree[c].artifact # origin[c].artifact => runDir[c] >= tree[c].artifact.run

\* A runner that holds the lock since an earlier chunk does not run one that is
\* on origin: after every reclaim the queue resumes where the pushes left off.
\* Only the chunk a runner takes the lock for may have been pushed between its
\* check and its flock.
PushedNotRunAgain ==
    [][\A r \in Runners :
         At(r, "lock") /\ holder = r /\ pc'[r] = "clean"
             => ~Exists(origin[Chunk(r)].artifact)]_runnerVars

\* run_config.sh:6-8: "A chunk whose collected artifact already exists is
\* skipped, so rerunning after a container reclaim resumes where the commits
\* left off."
SkippedIsCommitted ==
    [][\A r \in Runners :
         At(r, "check") /\ todo[r] # <<>> /\ pc'[r] = "check" /\ todo'[r] = Tail(todo[r])
             => Exists(head[Chunk(r)].artifact)]_runnerVars
=============================================================================
